# A TLA+ model of PMG

PMG wraps package managers (npm, pnpm, yarn, bun, pip, poetry, uv, npx, pnpx). It sees what they are about
to download, asks malware analyzers about it, and lets the download through, stops it, or asks the user. This
directory holds TLA+ modules for it, TLC runs that model-check them on small instances, and
theorems that the TLA+ proof system has checked for every instance. Paths below are those of the repository;
`PROJECT.json` maps every definition to the lines it was translated from.

To check one run, and one proof:

    tlc -workers 2 -config MCProxyGuard_downloads.cfg MCProxyGuard.tla
    tlapm ProxySessionProofs.tla

## 1. The system

### Components

| component | code | state it keeps | operations | modelled in |
| --- | --- | --- | --- | --- |
| registry interceptor | `proxy/interceptors/base_registry.go`, `npm_registry.go`, `pypi_registry.go`, `cache.go`, `stats.go`, `confirmation.go` | analysis cache, circuit breaker, confirmation channel, statistics | handle a request, analyse, decide, ask the user | `ProxyGuard`, `RequestGate` |
| URL parsers | `proxy/interceptors/*url_parser*.go`, `registry_config.go` | none | read package and version in a host and a path | `RegistryUrls` |
| dependency cooldown | `proxy/interceptors/*cooldown*.go` | collected statistics | rewrite a metadata request, strip its response, record what was stripped | `Cooldown`, `RegistryRequest` |
| proxy server, certificates | `proxy/proxy.go`, `proxy/certmanager`, `proxy/interceptors/audit_logger.go` | interceptors, host certificates, CA bundle | open or tunnel a connection, run the interceptors, modify the response | `ProxyServer` |
| composite analysis | `analyzer/composite.go` and the three analyzers | none between calls; one goroutine per analyzer | fold the answers into one verdict | `CompositeAnalysis` |
| Aikido feed | `analyzer/aikido_intel.go` | snapshot in memory, once, refresh flag, file on disk | load, refresh in the background, refresh on command | `AikidoFeed` |
| proxy flow | `internal/flows/proxy_flow.go`, `main.go` | set-up, deferred calls, report, exit code | run a package manager under the proxy | `ProxySession` |
| terminal sharing | `internal/pty`, `internal/runner/execute.go` | destination of input, held-back output, terminal mode | prompt in the middle of a package manager's output | `PromptInput` |
| package manager commands | `packagemanager`, `cmd/npm`, `cmd/pypi`, `cmd/executors` | none | parse a command line and its package names, choose a flow | `CommandLine`, `PackageSpecs` |
| guard flow | `guard/guard.go`, `internal/flows/common_flow.go` | job and result channels, result of the guard | resolve, analyse, decide, execute, without the proxy | `GuardFlow` |
| dependency resolution | `packagemanager/dependency_resolver.go` | visited set, result set, semaphores | walk the dependency graph concurrently | `DependencyResolver` |
| cloud sync | `internal/audit` (sync), `cmd/cloud` | the WAL, the file lock, the file of the last attempt | fork, drain, record, heartbeat, update | `CloudSync` |
| sandboxed execution | `sandbox/executor`, `sandbox/platform/landlock_*`, `internal/runner` | policy file and audit socket, helper, shim, notification descriptor, cached descriptors of memories | decide, start helper and shim, answer opens and execs, clean up | `LandlockSandbox` |
| sandbox policy | `sandbox/policy.go`, `registry.go`, `resolve.go`, `lint.go`, `sandbox/executor/apply.go`, `config/sandbox_allow.go` | profiles by name | resolve inheritance, override, show, lint | `SandboxPolicy`, `SandboxRules` |
| sandbox platforms | `sandbox/platform/*_translator_*`, `sandbox/util` | none | translate a policy for Landlock, Bubblewrap, Seatbelt | `SandboxDrivers`, `SandboxRules` |
| configuration, enrolment | `config`, `cmd/config`, `cmd/cloud/enroll.go` | the user's file, the managed file, the loaded configuration | load, lock down, override, set, edit, patch, merge, remove | `ConfigFile` |
| setup, heartbeat schedule | `cmd/setup`, `internal/alias`, `internal/shim`, `internal/heartbeat` | shims, alias file, lines in startup files, crontab, systemd units | install, remove | `Setup` |
| audit trail and event log | `internal/audit`, `internal/eventlog` | session counters, sinks, day's log file | log, count, close | the counters, in the flows |
| ecosystem scan, sandbox diagnostics, terminal output, analytics, packaging | `internal/ecoscan`, `sandbox/violation*.go`, `sandbox/probe.go`, `cmd/sandbox`, `internal/ui`, `internal/analytics`, `publish`, `scripts` | none that the rest reads | walk, format, send | not modelled (section 5) |

### How they interact

* A command line is parsed into packages, and the flow is chosen by it and by the configuration.
* The proxy flow starts the proxy server in its own process and the package manager as a child whose
  traffic goes through it. A connection is opened with a certificate made for its host, each request on it is put to
  all interceptors, and the registry interceptor reads the package in its URL. A download goes to the analysis, whose
  verdict is final; a metadata request goes on, and its response loses the versions in the cooldown window.
  The handlers share the cache, the breaker and the statistics through mutexes.
* Suspicious packages go over a bounded channel to the one goroutine that talks to the user
  (`HandleConfirmationRequests`), which answers each on a channel of its own. Around the prompt two hooks
  take the keyboard from the package manager and hold its output back.
* Each analysis calls the composite analyzer, which calls Malysis (a service), the Aikido feed (a download
  cached in memory and on disk) and the organisation's policy (a file), all at once.
* When the package manager ends, the main goroutine puts the report together, logs the summary of the audit
  session, closes the channel and stops the proxy, while handlers may still be running.
* The guard flow is used when the proxy is not: it reads the targets or the manifest, resolves dependencies
  with a tree of goroutines, analyses them with a pool of workers, and only then starts the package manager.
* Either flow starts the package manager through the sandbox when one is configured. A profile, with what it inherits
  and the overrides of the command line, is translated for the platform's driver. Under Landlock pmg leaves it in a
  file and starts itself again as a helper; the helper starts a shim in new namespaces, and the shim becomes the
  package manager once it has put a seccomp filter and Landlock on itself. A goroutine of the helper then
  answers every open and exec of the package manager and of its descendants.
* Every flow writes audit events to a WAL on disk. On its way out the process may fork a detached child that
  drains the WAL to the cloud; the children and `pmg cloud sync` exclude each other with a file lock and
  space their attempts with the time stored in another file.
* Every start reads the configuration. `config set`, `config edit`, `cloud enroll` and `setup` write the user's file; an
  administrator's managed file takes its place, and may lock it down. `setup` also writes the startup files,
  by which the user's shell finds the shims before the package managers.

### What is hard about it

1. *Check-then-act on shared state.* The cache and the breaker are read and written in separate critical
   sections around an analysis; the refresh of the feed acts on a snapshot read long before; the children of
   the sync look at the cooldown that another may be about to record; a start reads the managed file several times.
2. *Select with two ready cases.* A user's answer and the five-minute timer, the analysis and its time limit.
3. *Ends that race.* Requests that a dead package manager left behind meet a closed channel, a report that is
   being counted, a prompt whose session is closed.
4. *Fail-open and fail-closed.* An analyzer that fails lets a package through, except in paranoid mode; a
   confirmation that cannot be had blocks it; a managed file that cannot be read locks everything. Each such path must
   also be counted correctly.
5. *Order of arrival.* Verdicts of several analyzers, results of several workers, calls of a resolver that
   looks into each package only for the first call to reach it, interceptors and profiles in the order of a Go map.
6. *Truncated files and killed processes.* The feed's copy, the cooldown file and the configuration are written in
   place; setup edits one file after another, and each may fail.
7. *Three processes and a kernel.* Helper, shim and supervisor loop are each waited for by another; any of them may
   fail or be killed half-way, and a descriptor of a process's memory is worthless once that process executes.
8. *Two readers of one text.* What PMG reads in a command line, a URL or a rule has to be what the package manager, the
   registry or the kernel makes of it, or the wrong package is analysed.

### What makes each component correct

| component | properties |
| --- | --- |
| registry interceptor | nothing malicious is served; something suspicious only on a yes to that request; the cache tells only what the analyzer said; the breaker shields the analyzer; the counters add up; everyone is answered |
| URL parsers, package manager commands | what is analysed is what will be downloaded and installed; nothing that downloads goes round the proxy or the guard |
| dependency cooldown | exactly the versions in the window are stripped, and what is reported was stripped |
| proxy server | no response passes an interceptor that wanted to see it; certificates are valid and made once; every handler ends |
| composite analysis | blocks do not depend on the order of arrival; malware outranks policy; no goroutine leaks |
| Aikido feed | one load at a time; analyses of a process agree on whether there is a feed; no fetch publishes what is older; everyone is answered |
| proxy flow | one summary for each audit session; nothing is left behind; report, audit trail and what the package manager saw agree; the process ends, with the package manager's exit code |
| terminal sharing | answers never reach the package manager; prompts are not disturbed; held-back output is shown; the run returns |
| guard flow | nothing runs over a verdict; everything was asked; report and audit agree; it ends |
| dependency resolution | each package is asked for once; nothing is missed by interleaving; errors reach the top if and only if they should; no deadlock |
| sandbox policy and platforms | a denial anywhere in the lineage is enforced; an allowance is usable; the linter and `profile show` tell the truth |
| sandboxed execution | a command runs unconfined only by the user's will; a denied call passes only if it cannot be read; nothing is left in the temporary directory; no task, helper or pmg hangs |
| configuration | lockdown holds against environment, flags and races; a setting is what its last writer wrote |
| setup | install converges and remove is complete from any interrupted state; the user's own lines survive |
| cloud sync | a copy too many only for a fault; one attempt in a cooldown; the lock is released; events leave the disk |

## 2. The modules

Every step of a concurrent model is what a goroutine or process does between two points at which others can run: a
mutex, a channel operation, a system call another process can observe. Package names, versions, URLs and
messages are model values or sequences of atoms; what a service answers is chosen from a set given in the configuration.
Definitions called a *Fault* in their comment are never part of a specification: each is a plausible mistake
in the definition that follows it, with which some property fails.

### Traffic

**`RequestGate`** is abstract: a download is judged at most once, the user may be asked only if the judgement
was "confirm", and it is served or refused exactly once, refused only if it was flagged. No cache, no
breaker, no channel.

**`ProxyGuard`** is the interceptor. `pc[r]` is where the handler goroutine of request `r` is;
`cache`, `breaker` (with gobreaker's generations), `queue`, `handling`, `answer` and `reply` are the shared
state. `PassThrough`/`Download` is the entry of `HandleRequest`; `Bypass`, `CacheHit`, `CacheMiss`, `Admit`, `Rejected`,
`Analyzed`, `AnalysisFailed`, `Store` are `analyzePackage`; `DecideAllow`, `DecideBlock`, `DecideConfirm` are
`handleAnalysisResult`; `Send`, `SendTimeout`, `ReceiveYes`, `ReceiveNo`, `WaitTimeout` are `requestUserConfirmation`
with its two selects; `Count` is the statistics call that follows an audit call, and may be interleaved with
anything. `TakeRequest`, `UserAnswers`, `SendReply` are `HandleConfirmationRequests`. gobreaker, an external
library, is modelled from its use: a generation counter makes the result of a call of an older generation
void. `ProxyGuard!Gate` is the refinement mapping to `RequestGate`.

**`ProxySession`** extends `ProxyGuard` with the main goroutine of `proxyFlow.Run`: set-up, the deferred calls
and their order, the package manager with or without a terminal, report, summary, exit, and the panic of a
handler that sends on the channel after it was closed. All steps of the guard are steps of the session. With a terminal `inputLoop` is
the goroutine that reads the keyboard, as far as the session needs it: `ChildEnds` leads to "joining", `JoinLoop` is `cancelInput()` and
`<-inputDone`, and the loop may be held in the prompts' pipe by a line that comes after an answer (`LateLine`) until another prompt
reads it. `PromptInput` has the rest of it.

**`ProxyServer`** is `proxy/proxy.go` with `certmanager`. `SetupCA` chooses the bundle the package manager is told to
trust, `NewCertificateManagerWithCA`, `NewProxyServer`, `Start` and `Stop` are the server's life. `pc[c]` is where the handler of
a connection is: its CONNECT, the loop over the interceptors (`todo`, any order), the host certificate (cache, single
flight, generation, its expiry by `clock`), the handshake, which may fail (`HandshakeFails`), and each request on the connection with what every interceptor said of it
(`verdicts`) and the modifier the last of them left, for which the whole body is read first (`ReadBody`, the place "reading"). An interceptor is what it wants to see, what it wants opened, and the answers it may give.

**`RegistryUrls`** has the parsers as operators. A segment of a path is the sequence of its words between hyphens, each a
sequence of atoms, for what the parsers have to tell apart is where a name that holds hyphens ends. Its last section is
the reference: where the registries publish a file (`NpmTarball`, `PypiSdist`, `PypiWheel`).

**`Cooldown`** has the stripping of packuments and Simple pages; where the code ranges over a Go map, an operator returns the
set of possible results. **`RegistryRequest`** extends both: `RouteRequest` is the entry of `HandleRequest`,
`HandleMetadataRequest` the rewritten headers, `Upstream` the registry's answer (a conditional request is answered without a body),
`Strip` the modifier, `RecordStats` its report, and `Midnight` may come between the two.

**`PromptInput`** is the input loop, the output router, the prompt with its two hooks and the end of `runPTY`.

### Analysis

**`CompositeAnalysis`** is one call of `compositeAnalyzer.Analyze`: `world` fixes what there is to be known of
the package, `Send(a)` is the goroutine of an analyzer, the `Receive…` actions are the loop.

**`AikidoFeed`** counts editions of the feed (0 is none). Callers go through `once.Do`, read the snapshot, and
when it is stale start a background refresh by compare-and-swap; `Command` is the process of
`pmg aikido refresh`, which shares only the file. A load is fetch, truncate, write, or else read from disk, then publish.
`Restart` models the end of a process and the start of the next, at any point of a background refresh.

### Commands without the proxy

**`PackageSpecs`** reads what a user writes for a package: npm's `@` forms, pip's and uv's requirement texts, Poetry's
ranges, the bounds each is converted to, and the version PyPI's resolver picks for them.
**`CommandLine`** extends it: `ParseNpmLine` and `ParsePypiLine` are the parsers of each package manager and of the executors, `ResolveVersion`
and `LearnDependencies` what the PyPI resolver makes of a target, `HandOver` the choice of flow and sandbox.
Each line carries what its package manager is asked by it (`asked`): whether it may download, which packages, with which ranges, whether the manifest is installed, and
what each argument is to the package manager (`parts`: a word, a flag that takes the next argument or holds its value, a switch, `--`, a cry for help).
`LineAsks` is the package managers' own grammar, written without the parsers of PMG, `Allows` their own meaning of a range;
`LinesAssumption` says that every line is asked what its grammar says, and TLC evaluates it on all lines of the run.

**`GuardFlow`** is the main goroutine of the common flow with the guard's workers, the collector and the goroutine
that waits for both; the time limit of `AnalysisTimeout` can end the wait while they go on. The main goroutine starts the
workers, queues the packages one by one and closes the channel of jobs (`Queue`); a worker may take one as soon as it is queued.

**`DependencyResolver`** names each call of `resolvePackageDependenciesConcurrent` by its path from the root. The
domain of `at` is the calls made, `visited` and `result` are the two shared sets, `Busy` the semaphore of one call.

### Sandbox

**`SandboxRules`** is the text of a rule, its expansion, what it matches, the globs and the denials every policy has.
**`SandboxDrivers`** extends it with the three translators, and with what their output permits: Landlock allows what is beneath
a path and checks lists of denials, in Bubblewrap a later mount hides an earlier one, in Seatbelt the last rule that matches decides.
**`SandboxPolicy`** extends that with the way of a policy: `ResolveInheritance` (the builtins in any order),
`GetBuiltin`, `LoadCustomProfile`, `ApplyRuntimeOverrides`, `Execute` (the translation), `Show` and `Lint`. `LintProfile` has all the linter's
warnings, the conflict of `allow_outbound` with `deny_outbound` among them.

**`LandlockSandbox`** has pmg (`parent`: `ApplySandbox`, `Execute`, the wait, `Close`), the helper (`RunLandlockHelper`,
one action per step that can fail), the shim and then the command as the task `Child`, its descendants, the
supervisor loop and the kernel. `cfg` is what decides about the sandbox. A notified call is in `call[t]` until the loop has
answered it (`Poll`, `Receive`, `Load`, `Look`, `Answer`, `Drop`), its task has ended, or nobody listens any more
(`Unanswerable`). `cache` and `memFd` say what each descriptor is worth: of the caller's present image, of one
it has left (`stale`), of another task that had the process id (`foreign`). A task has one thread, a path is
denied or not, and the several files the shim opens for its rules are one.

**`SandboxedRun`** composes the two: a policy that `SandboxPolicy` worked out for Landlock decides which configuration the
command runs with (`HandOver`).

### Files

**`ConfigFile`** has a start of pmg as the reads it makes, one by one (`ResolveConfigFile`, `DecideLockdown`, `LoadViperConfig`,
`ApplyProxyLegacyFallback`, `RejectManagedFlagOverrides`, `ApplyFlags`), between any two of which the administrator may
replace, tear or remove the managed file (`Administer`); then the command, which may write the user's file: `SetConfigValue`, `Edit`,
`WriteTemplateConfig`, the two patches of `enroll`, `RemoveUserConfigFile`. A file is truncated before it is written, and a crash may come between.
`wanted` remembers what the last writer of each key wrote; a `config set` of the old name `proxy_mode` counts only where the file has no `proxy` (`Wish`).
The old name is read through viper, from the file and from `PMG_PROXY_MODE` (`legacy`); `proxy_install_only` is read alike and is not a key of the model. `cloud.auto_sync` is two keys, its switch and its times, which an
enroll replaces by a section with the switch alone (`Enrolled`). The template and `DefaultConfig` are two constants, for a file that does not parse leaves the latter.

**`Setup`** has install and remove as their steps, in the order of `cmd/setup/setup.go`, each of which may fail or be the
last before a kill. A startup file is a sequence of lines; `Path` is what a shell's PATH becomes by reading it.
The user adds lines, and deletes lines of PMG's, at any time; the systemd session comes and goes.

**`CloudSync`** has three kinds of process: runs of pmg, detached children, the user's own sync. The WAL (a
library's) is a set of events, and an event travels in two steps, delivery and acknowledgement, between which
the connection may break or the process be killed. A self-update holds the lock while it runs `pmg setup
install`, which is a run like another. Reachability covers both network and credentials.

### Instances and proofs

`MC…` modules give the constants their values; each `.cfg` is one run. `MCPackageSteps` puts five modules side by side that
share nothing but the package (`DependencyResolver`, `RegistryRequest`, `CommandLine`, `CompositeAnalysis`, `AikidoFeed`): a behaviour
takes one of them (`part`), and the rest stays idle. `MCHomeFiles` does the same for `Setup` and `ConfigFile`.
`…Proofs` modules hold the theorems.

## 3. What TLC checks

| run | instance | shows |
| --- | --- | --- |
| `guard_downloads` | 3 requests for any of a malicious, a suspicious and a trusted package; channel of 1; breaker that opens at the first failure | `ConsentRequired`, `CacheIsGenuine`, `StatsMatchDecisions`, `BreakerShieldsAnalyzer`, refinement of `RequestGate` (`ImplementsGate`), and that requests and prompts are answered (`EverybodyIsAnswered`) |
| `session_run` | 2 requests under a whole session, two exit codes, with and without a terminal, and lines typed behind an answer | `SessionClosesCleanly` (one summary, orderly exit, and a late panic loses nothing), `OutcomeIsHonest`, `ReportTellsAll` (report, statistics, summary and audit agree), `SessionEnds` |
| `proxy_serve` | 2 connections, with 2 requests and 1; a registry, a host known but not analysed, a stranger; 3 interceptors; certificates valid for 1 tick of 2 | `TrafficIsFiltered` (`BodiesAreFiltered`, `TunnelsAreRight`), `CertificatesAreFresh`, `HandlersEnd` |
| `package_steps` | a diamond with a cycle, and a chain as long as the limit, 2 goroutines a call; requests and command lines of each form the parsers tell apart; all worlds of 3 analyzers; 2 callers, 2 background goroutines, the command, 2 editions of the feed and 1 restart | `ResolutionIsSound` (`VisitedOnce`, `CompleteUnlessCut`, `FailFastFails`), `PackageIsNamed`, `CooldownIsKept`, `CommandIsUnderstood`, `DownloadsAreWatched`, `VerdictIsRight` (`BlockIsOrderFree`, `MalwareOutranksPolicy`), `LoadsAreSound` (`OneLoadAtATime`, `DegradedMeansUnloaded`), `FetchNeverRegresses`, and that every goroutine ends (`AllWorkEnds`: `EveryGoroutineEnds`, `FeedWorkEnds`) |
| `prompt_share` | 2 prompts, 2 keys, 2 pieces of output, at most a line per prompt | `PromptIsPrivate` (`PromptIsUndisturbed`, `ChildGetsOnlyItsInput`), `OutputIsShown`, `RunReturns` |
| `flow_install` | a target with three dependencies, 2 workers, 2 analyzers | `OnlyClearedRuns` (`FlaggedNeverRuns`, `EverythingIsAsked`), `ReportMatchesAudit`, `FlowEnds` |
| `cloud_drain` | 1 run (reused), 2 children, the user's sync, 2 events, WAL of 1, 1 fault | `CopiesAreAccounted`, `AttemptsAreSpaced`, `SyncMakesProgress` (`LockIsReleased`, `EventsReachCloud`) |
| `sandbox_run` | shipped and user's profiles, overrides, 3 drivers and 2 disks; then a command, one process id for its descendants, 2 calls, 2 forks, 1 kill, eight configurations | `PolicyIsKept`, `PolicyHolds` (`DenialsWin`, `AllowancesHold`), `LintIsTrue`, `ConfinementHolds` (`RunsConfined`, `OnlyUnreadablePasses`), `NothingLeftBehind`, `NothingWaitsForever` |
| `home_files` | 3 commands of setup on Linux and macOS, for bash, zsh and fish, 1 fault, 1 edit by the user; 2 starts of pmg, with variables by the new name and the old, 1 change by the administrator, 1 crash | `SetupIsReversible` (`SetupConverges`, `RemovalIsComplete`), `UsersFilesSurvive`, `ConfigurationHolds` (`LockdownHolds`, `SettingsHold`) |

Each property is broken by at least one *Fault* definition (`mutants` in `PROJECT.json`). The operators that read a text
(`RegistryUrls`, `Cooldown`, `PackageSpecs`, `CommandLine`, `SandboxRules`, `SandboxDrivers`) are held against a reference that does
not use them: where a registry publishes a file, which versions a range allows, which packages the inputs say
were asked for, what rules permit on a disk.

### Bounds, and why they are enough

* *Three requests.* The interceptor's races are between two requests for one package, with a third to fill the
  channel or to move the breaker on. `FailureLimit = 1` and `ChanCap = 1` make the limits (3 and 10 in the code)
  reachable with so few; the theorems hold for any.
* *Sessions with two requests.* One that the package manager waited for and one that it left behind.
* *Two connections* meet at one host's certificate, or find it expired; a second request on one of them meets the modifier and
  the context that the first has left. Two ticks let a certificate of one tick expire during a handshake.
* *Worlds of the composite* are exhausted: every answer of each analyzer, in and outside paranoid mode.
* *Feed.* Two editions are enough for "older than"; two background goroutines for a second refresh that
  starts while the first has not ended; one restart for a truncated file that a next process reads.
* *Resolver.* `MaxDepth = 3` lets the chain end exactly at the limit, and the diamond's cycle come round.
  `MaxConcurrency = 2` makes calls wait for slots while others hold theirs.
* *Requests to registries.* Names with hyphens, numbers, scopes and underscores against versions with tags; `Today = 5` and
  `CooldownDays = 2` put dates on both sides of the window and on its edge, and one midnight moves them.
* *Command lines* are enumerated, one for each form the parsers tell apart: each package manager and verb, flags before, between and behind the
  packages, with values attached or behind, manifests, executors, ranges of each kind.
* *Prompts.* `LinesPerPrompt = 1` is an assumption on the user, and `prompt_cancel` (below) shows what happens
  without it.
* *Cloud.* One run is reused for every invocation and for the self-update; two children meet at the lock; the
  second event finds the WAL full; one fault is a kill, a broken connection, a failed fork or a failed write, in any place.
* *Policies.* `GlobDepth = 3` and `ScanDepth = 2` put a match of `**` within the first and behind the second limit; with
  `Threshold = 3` some globs are replaced by the directory above them. The disks hold what each rule of a profile is about, and a file beside it.
* *Sandbox.* Two forks of one process id let a second task inherit the first one's cached descriptor; two calls let a
  task execute and then ask again; one kill takes pmg or the helper at any step.
* *Home.* Install, a failure or kill in the middle, then install or remove, is three commands; the first of them may leave
  whatever it likes. One edit falls between any two steps. Two starts let one write what the other has read: an enroll, and then
  a start that finds what it has left of the user's `auto_sync`. The template trusts a package and `DefaultConfig` none, so that the two differ.
* Deadlock is not checked where the system stops by design: the requests are all answered, the process has
  ended, or the bounds of the environment are used up. `sandbox_run` checks it: `Over` is the only end.

### Fairness

Goroutines and processes are scheduled, and timers fire: weak fairness of each handler's progress, of the loops
and of the main goroutine. Nothing is ever assumed of the user, of a package manager or of a client of the proxy, nor of
an analyzer but that its context's time limit ends the call. Of a registry it is assumed that an answer begins, or fails, within the limits of
`newUpstreamTransport` (`proxy/proxy.go:166-205`), not that its body ever ends: `io.ReadAll(resp.Body)` at `proxy/proxy.go:523` has no limit, nor has a
client's part of a handshake. `ProxyServer` has no fairness for either (`Peer`).
What needs more says so in the property: `HandlersEnd` supposes of a connection that it is, again and again, neither in a handshake nor reading a body;
`SessionEnds` that no line typed behind an answer holds the input loop in the pipe for ever, which is what `prompt_cancel` shows it may do, and the model ends the copying of the
child's output with the child, though a descendant that keeps the terminal open would prolong it; `EverybodyIsAnswered` and `FlowEnds` suppose that no prompt stays open for
ever, `OutputIsShown` likewise, `SyncMakesProgress` that the cloud is reachable from some time on and pmg is used.
`EveryGoroutineEnds` supposes that a request to a registry ends; in `packagemanager/pypi_resolver.go:159` the request is made with
`http.Get`, which has no time limit. In `LandlockSandbox` the command may run, or hang,
for ever: `NothingWaitsForever` is about what pmg, the helper and the loop owe it. `CloudSync` has strong fairness of `Depart` only because its pool of children is
small: a real fork does not wait for an idle child. `home_files` states no liveness: a command of setup is a sequence of steps.

### Where the code does not do what it says

Three runs are expected to find a violation, each of a sentence of the repository:

* `composite_suspicion`: with Malysis and the policy file, an Allow that arrives first hides Malysis's Confirm
  (`analyzer/composite.go:84`; `docs/malware-detection.md:80`).
* `session_exitcode`: the exit code of a failed package manager becomes 1 (`internal/flows/proxy_flow.go:301`,
  where the assertion on `*exec.ExitError` never holds; comment at lines 290-291).
* `prompt_cancel`: a line typed after a prompt was answered, but before the keyboard is given back, blocks the input
  loop in the pipe, and `runPTY` waits for the loop before it closes the pipe (`internal/runner/execute.go:202`;
  comment at `internal/pty/router.go:94-95`).

Smaller things met on the way, without a run of their own. The properties and inputs leave each of them out, or state it as it is.

*Analysis and flows*

* A trusted package, and one in insecure mode, counts twice in the session's total (`internal/audit/auditor.go:95-97`);
  `AuditMatchesStats` states the sum as it is.
* A package that Malysis does not know is blocked in paranoid mode, where `docs/malware-detection.md:94` says that "`NotFound` responses are treated
  as safe". The interceptor does treat that error so (`proxy/interceptors/base_registry.go:119-128`), but is never shown it: `createAnalyzer` always builds a
  composite, which takes any error for a failed analyzer (`analyzer/composite.go:68-71`) and returns none. `BlockIsOrderFree` states it as it is (`SomeUnknown`).
* Which analyzer answers first decides between allow and confirm (`composite_suspicion`); `VerdictIsRight` claims nothing of that, only that a block, and its reason, are free of the order.
* A confirmation that could not be had refuses the package but is not in the audit trail, though
  `docs/malware-detection.md:286` says that every blocked package is logged. Refusals without a terminal count as cancelled by the user.
* In the guard flow a confirmed dependency is in no total of the audit session, for `LogInstallAllowed` is
  called per target; analyzers are asked one after the other, where `docs/malware-detection.md` says in parallel;
  the dependencies in `requirements-dev.txt` are not resolved; if no manifest can be read the install goes on.
* The guard flow leaves by `os.Exit(1)` at `internal/flows/common_flow.go:149`, past `audit.Close` and the background sync.
* On the proxy flow's failure paths the background sync is forked before `audit.Close` (`cmd/npm/npm.go:24`), although
  `internal/audit/background_sync.go:34-35` requires the opposite.
* `pmg cloud sync` does not record an attempt when its client cannot be opened (`cmd/cloud/sync.go:79-87`).
  A child keeps the lock during heartbeat, self-update and ecosystem scan.
* Two ends that `ProxySession` and `PromptInput` allow: a panic on the closed channel leaves the CA certificate's
  file, and a prompt open when the package manager ends may set the terminal to raw mode after its restoration.
* A package first reached at the depth limit is not looked into when it is reached again nearer to the root, so what
  is analysed depends on the schedule (`packagemanager/dependency_resolver.go:129`; `config/config.template.yml:7`
  bounds the depth only). `CompleteUnlessCut` excepts it.
* In the Landlock helper the first descriptor of the child's memory is opened before `Enforce`, and is stale if the
  shim executes the command first; descriptors are kept by process id and outlive the process. Reads through
  either fail or find nothing, and what cannot be read is let through: `OnlyUnreadablePasses` excepts exactly these.
  The descriptor reopened for the child itself is closed by nobody, and the helper's own second `Close` of the first
  one only warns. If pmg and the helper are both killed, the policy file stays.
* A feed may go back to an older edition by way of the file on disk; `FetchNeverRegresses` is about fetches only.

* Three things no property covers: the background sync of the failure paths (above); `Ctrl-C` in direct mode, which ends pmg without its deferred
  calls and leaves the CA certificate's file (`internal/flows/proxy_flow.go:320`); and the request without a time limit (Fairness).

*Proxy and registries*

* The comment that the configured endpoints do not overlap is not true of `test.pypi.org` and `pypi.org` (`proxy/interceptors/registry_config.go:55`);
  the outcome is the same for both.
* In a wheel's name, a build tag is taken for one only if it is all digits, and a name with hyphens before a numeric build tag is misread
  (`proxy/interceptors/pypi_url_parser.go:350-357`). `PackageIsNamed` has the names that PEP 427 writes, with underscores.
* A tag of npm may be moved to a version that `time` lists and `versions` no longer does. When the day changes between stripping and report, malware may be
  reported as a plain block of the cooldown; a repeated request for metadata is counted again.
* A body that a registry stops sending in the middle, or a client that stops in the middle of its handshake, keeps its handler for ever (Fairness).
* A modifier that is called for a response without a usable context leaves the body as it is. A CA bundle that vanishes
  between being found and being read fails the start. `RemoveInterceptor` has no caller.

*Sandbox*

* `--sandbox-allow write=./.env` becomes an absolute path and so never equals the denial that a profile writes `${CWD}/.env`, which stays
  (`sandbox/executor/apply.go:163-211`, against its comment at 160-162 and `docs/sandbox.md:174-176`).
* `--sandbox-allow write=/etc/**` takes a denial out that is spelled `/etc/**`: `removeExactMatch` compares texts and has no eye for globs, though its comment says that they are never matched
  or modified (`sandbox/executor/apply.go:160-162`, 196-198; `docs/sandbox.md:174-176` likewise). `PolicyIsKept` states it as it is (`ExcusedGlobs`).
* Of a host that is both in `allow_outbound` and in `deny_outbound` the linter says that "deny takes precedence" (`sandbox/lint.go:130`, 145). It does under none
  of the drivers. Bubblewrap and Seatbelt open the whole outbound network as soon as there is one `allow_outbound` rule and never come to the denied hosts; Landlock has
  no network rules at all. `LintIsTrue` states that the network is then open (`NetworkOpen`).
* A user's profile may inherit from `npx`, which has a parent of its own, though the docs say a single level; one that was loaded by its path may be a parent.
* On Linux `/**` allows nothing, though the linter says it allows the entire filesystem; the mandatory denials `**/<file>` find nothing there.
* Bubblewrap binds the temporary directory last and writable, and the read-only mount of a denied write shows again what a denied read had hidden
  (`Reexposed`: a file under both `deny_read` and `deny_write` can be read); it knows no `allow_exec`. It leaves out the mandatory denial of writing what
  `allow_read` names, for its mount is read-only (`bubblewrap_translator_linux.go:304-308`), which fails where a writable mount comes over that one (`LeftToReadRule`).
  More than a hundred matches of a glob in the root become the working directory (`Misplaced`). Landlock knows no network rules, and denies no write outside `allow_write` although the temporary directory is writable.
* The linter calls a rule dead that names a credential file, or `.git/config`, which a shadowing glob covers; without it the mandatory denial comes back. A dead rule that names a git hook, and is allowed to be read, lifts bubblewrap's denial of writing there;
  a relative one bubblewrap mounts in the root. `LintIsTrue` excepts them (`CountsAnyway`). Beneath `${HOME}/**` in a home directory that is the root nothing is looked for, and what is called dead allows something (`RootIsNamed`).
* The translators' limit of a thousand paths for a denied glob is not modelled, nor what `bwrap` makes of a relative path.
* `applyRuntimeOverrides` changes the registry's own policy; each process applies only one.

*Command lines*

* An unknown flag swallows the word behind it: `npm install --no-audit lodash` is read as an install of the manifest. A valued flag at the
  end fails the parse, and the command is taken for one without targets. The inputs attach values of unknown flags.
* `npm install --save-dev` alone installs the manifest, where a test says it installs nothing (`packagemanager/npm_test.go`);
  `npx tool @scope/x` is read as `@scope/x` alone; `npm cache add` and `npm link x` may download though they are listed as harmless.
* Poetry's `^0` and `^0.0` become `<0.0.1`; `poetry add` of `foo~=1.2`, `foo@1.2` and `foo@latest` is refused; `==1.2,>1`
  is kept as a version, and `~=1.2,!=1.2.5` is converted to a range of something else.
* Only the first target of a name gives the extras; a dependency keeps its extras in its name when it is looked up; `npm install foo@latest` pins the word "latest".
* A manifest that is neither a lockfile nor called `requirements*.txt`, or that cannot be read, is passed over silently.

*The user's home*

* The comment above the PATH line contains the text that an install looks for. Who deletes only the line below it, as the comment
  advises (`internal/alias/shells.go:27-28` for aliases, and the shims alike), gets no new one from a later install. `SetupConverges` excepts it (`Deleted`).
* `crontab -l` that fails without output is taken for an empty crontab, so that install replaces, and remove deletes, the user's own jobs
  (`internal/heartbeat/cron_scheduler.go:46-57`, against its comment at 12-14). `UsersFilesSurvive` excepts it (`misread`).
* A schedule that was made with systemd stays when it is removed from a session without, and the reverse; `RemovalIsComplete` is about the one in reach.
* A user's own line that names `.pmg.rc`, or has the words "PMG shims", counts as PMG's, when it is looked for and when it is removed; the users of the model write neither. An edit between the
  read and the rename of `RewriteFileDroppingLines` is lost. A cycle of install and remove leaves a blank line.
* On Linux a user who has only `.bashrc` gets no shims in login shells. A PATH entry `~/.pmg/bin/` with a slash at its end is not filtered.
* `enroll` puts `auto_sync: {enabled: true}` in the place of the whole section (`config/config.go:774`), although its comment says that it "only overwrites cloud fields" (740): the user's
  `min_interval` and `timeout`, and a sync that was switched off, are lost. `EnrolledWishes` counts them as given up, and `SettingsHold` shows that nothing else of the user's is.
* `MergeYAML` adds the template's `proxy:` section to a file that has only `proxy_mode: false`, which turns the proxy
  on again, although `config/config.go:661-664` promises to keep all values of the user. `MergedWishes` counts that setting as given up.
* Under a managed file, `enroll` writes the user's file, which is not read, and reports success, though `IsManaged` says that writes are refused; without a
  user's file it fails when the token is already used. A crash between its two patches leaves a cloud without relay.
* The configuration is not written atomically, two writers at once lose an update, a file that does not parse leaves what `DefaultConfig` has, without the
  template's sandbox policies and trusted packages and without the environment's overrides, and a `global_lockdown` that is no boolean unlocks.

## 4. What is proved

All theorems are about the specifications that TLC checks, for any values of the constants that satisfy the
named assumptions (`GuardAssumption`, `SessionAssumption`, `CompositeAssumption`, `FeedAssumption`,
`ServerAssumption`, `GuardFlowAssumption`, `InputAssumption`, `RegistryAssumption`, `ConfigAssumption`, `ResolverAssumption`, `CloudSyncAssumption`, `LandlockAssumption`, `RequestsAssumption`, `LinesAssumption`, `RulesAssumption`, `DriversAssumption`, `PolicyAssumption`, `SetupAssumption`): any number of requests, packages, callers, processes, any graph, any bound. Each
has the same form: an inductive invariant, one lemma for each of its parts with a step for each action.

* **`ProxySessionProofs`**, of `ProxyGuard` and of `ProxySession`, which runs it.
  * `GuardInv` adds to the properties `Flow` (what a request's phase says of its package and its
    result) and `Channel` (a request is on the channel, in the handler's hands, or replied to, once and in that order),
    without which a reply could belong to no question. Theorems: `TypeCorrect`, `ConsentIsRequired`,
    `CacheStaysGenuine`, `BreakerShields`, `StatsMatch` and `AuditMatches` (each counter is the cardinality of a set of
    requests, and a step moves one request into one of those sets), and `GuardImplementsGate`: every behaviour of the interceptor
    is one of `RequestGate`. Insecure mode, which no run has, is covered here.
  * A step of the session is a step of the guard (`SessionRunsGuard`), so that the theorems above carry over
    (`SessionConsent`). `SessionInv` relates the phase, the deferred calls still owed and the summaries logged; `CoveredInv`
    says that a refusal is counted from the moment it is made, which `ReportTells` needs. Theorems:
    `SummaryIsOne`, `CrashIsLate`, `EndIsInOrder`, `SessionCloses`, `OutcomeTold`, `ReportTells`, `NoTerminalNoConsent`.
* **`ProxyServerProofs`.** `ServerInv` has, per connection, what its place says of the host, the certificate and the interceptors
  visited (`ConnHolds`), that a host's flight is led by one connection while others wait (`FlightHolds`),
  and that a handshake sees one tick of the clock at most and its certificate outlives it (`ShakeHolds`). The loop over the interceptors adds to the
  verdicts those of what it has visited, whatever the order. Theorems: `ServerTypes`, `FilteredAlways`, `FreshAlways`.
* **`GuardFlowProofs`.** `FlowInv`: every package was queued, and is in the channel, with a worker, or answered (`AllAsked`); an answer is in the
  channel of results, with the collector, or collected (`AllDelivered`); the waiter lets go only when workers and collector
  are done (`WaiterHolds`); then what each phase of the main goroutine has been through
  (`PhaseInv`), and what the report holds against what was audited (`BooksInv`). The time limit may end the wait at any point
  of this, and only then may an answer be missing. Theorems: `FlowTypes`, `OnlyCleared`, `ReportTold`.
* **`PackageStepsProofs`**, of `CompositeAnalysis`, `AikidoFeed`, `DependencyResolver`, `RegistryRequest` and `CommandLine`, each on its own.
  * `Folded`: while the loop of the composite runs its locals sum up exactly the results received. Theorems: `BlockOrderFree`,
    `MalwareFirst`, and both together, `VerdictRight`.
  * `FeedInv`: who is in `once.Do`, who holds the flag, and which editions are in flight. Theorems: `SingleFlight`,
    `DegradedIsFinal`, `LoadsSound`, `FetchIsForward`, `FeedIsKept`.
  * `ResolverInv`: the calls are a tree; those above a call that has not ended are waiting for it (stated for all prefixes of
    its path, which avoids an induction over paths); a failure has come up as far as the first call that still waits; a mark
    belongs to one call that looks into its package; a found package has a call or is at the limit. Theorems: `ResolverTypes`,
    `AskedOnce`, `FailFastIsKept`, `ResultIsComplete`, `ResolutionSound`.
  * `RegistryInv` says which headers, bodies and day there are at each step. The rest is about the operators: one of the versions that stay is the
    latest (`LatestStays`: outside the window all days are past, so the least age exists), and what is in the window tomorrow is
    in it today (`WindowShrinks`). Theorem: `CooldownKept`. `RegistryAssumption`: dates are days, and an answer is finite.
  * What a request is read as: a parser takes a path apart where the registry has put it together, for any names, scopes, versions and hosts. The hyphen stands within names, before
    versions and between tags, so that each case shows that no cut before or behind the right one is taken (`ScopeRepeats`, by the least word
    that differs; `LastVersion`, by the greatest place where a version can start; `OneSuffix`). `RequestsAssumption`: what a request asks for is what its registry publishes
    there; a version does not begin with the words of its package's scope, no later part of a version is itself one, and a wheel whose name kept its hyphens has no
    build tag (section 3 has what PMG does otherwise). Theorem: `PackagesAreNamed`. The attempt found arms of a CASE that overlapped, and that the page of a project is routed
    only while the cooldown is on.
  * What a command line is understood as, for any lines, releases and settings. The flag parser is followed
    argument by argument: up to each, the words and values it has found are those the grammar has up to there (`Scanned`, `ScanStep`, `ParseIs`).
    The converted ranges are met by exactly the versions the package manager's ranges mean (`CaretIsMeant`, `TildeIsMeant`, `CompatibleIsMeant`,
    `WildcardIsMeant`), and a text is cut where its grammar puts the name, the extras and the ranges (`NpmAllNamed`, `PipIs`, `PoetryIs`). So a parser
    refuses a line or returns what is asked (`ParseNpmIs`, `ParseExecutorIs`, `ParsePypiIs`). `CommandInv`: the targets of PyPI stand for the packages that are asked for
    while some have no version yet (`Standing`), and the release each gets is the latest within its ranges (`VersionIsSet`). Theorems: `CommandsAreUnderstood`,
    `CommandsAreWatched`. What `LinesAssumption` leaves out, because PMG reads it otherwise (section 3), refuses it, or the order of versions, of four numbers, does not tell: `==` and `~=` beside other ranges; `~=` of other than
    two to four numbers; `^0` and `^0.0`; `*` behind three numbers; a flag PMG does not know with a word behind it, which PMG takes for its value; words with a scope
    behind what an executor runs, which PMG takes for packages. Of texts that PMG refuses nothing is assumed.
* **`PromptInputProofs`.** `HeldBack`: from the first hook of a prompt to its end the output is held back. `OneLine`: while there is a package manager, a line typed
  at a prompt is under way only while that prompt is open, and is the only one in the terminal and in the loop's hands; this is where one
  line per prompt is needed, a hypothesis of the theorem and not of the module. Theorems: `PromptTypes`, `Undisturbed` (for any user), `PromptPrivate`.
* **`HomeFilesProofs`**, of `Setup` and `ConfigFile`, each on its own.
  * `Without`, a text but for some of its lines, is a recursive function and not a filter of the library, so that lemmas about it can be
    proved: from the least number of a set (`LeastNumber`) comes induction over the prefixes of a text (`NoShortest`). `FilesInv`: the user's lines stand in
    their files in their order, PMG's only in startup files, none twice; every step makes of a file what `Becomes` says (`FilesStep`). `JobsInv` is the same of the crontab.
    `InstallInv` and `RemovalInv` say what an undisturbed command has achieved at each step; the point of the first is that the files to write are chosen
    again, by what there is, before each of the two kinds of line, and that the second choice reaches the shells of the first
    (`WrittenReaches`, `ReachedGrows`). Theorems: `FilesSurvive`, `SetupReverses`. `SetupAssumption`: at first the startup
    files hold lines of the user's only, and the crontab jobs of the user's only.
  * `FileInv`: the user's file, unless damaged, tells of each key what was last wanted of it, the merges and the old
    name of `proxy` included. `OpenInv` follows a start without a managed file and `LockedInv` one under locking files
    only, read by read; a value that one edition gave stays explained when the next edition comes, because the editions
    only grow. Theorem: `SettingsAreKept`. `ConfigAssumption`: the template has `proxy` and not its old name, `DefaultConfig` has the same keys, the template
    leaves `auto_sync` on, and every flag
    that sets a key of it is managed, without which a flag would get past the lock.
* **`CloudSyncProofs`.** `CloudInv`: who syncs holds the lock; an event on disk and not on its way was copied for faults
  only; while the file tells of no recent attempt and none is being made, those counted were lost to faults.
  Theorems: `CloudTypes`, `CopiesAccounted`, `AttemptsSpaced`.
* **`SandboxedRunProofs`**, of `LandlockSandbox`, and of `SandboxedRun`, which works out the policy first.
  * `SandboxInv`: nothing runs before its time (`StartHolds`); a task's place goes with
    its confinement and its call (`TaskHolds`); the loop holds the call it received and looks at nothing before the deny lists
    are there (`LoopHolds`); a descriptor of the loop's own is stale only under the call it is about to be dropped for
    (`CacheHolds`), without which `OnlyUnreadablePasses` is not inductive. `FilesHold`: no temporary file before the first is written, and
    none when all is over. Theorems, of `LandlockSandbox` alone: `SandboxTypes`, `CommandIsConfined`, `OnlyUnreadableCallsPass`, `Confined`,
    `TempFilesGone`; of the whole run, for nothing has happened in the sandbox while the policy is worked out (`RunHolds`):
    `SandboxedIsConfined`, `SandboxedLeavesNothing`.
  * `PolicyInv`: while the builtin profiles are resolved, one that does not inherit any more says all that was written for it and
    its ancestors, and one that does is as it was written (`RegistryHolds`); then the policy says what its profile does, then also what the
    overrides do (`PolicyFollows`). `Ancestors` are the least set closed under inheriting, so that no depth, and no order, is
    assumed (`AncestorsOfChild`); `OverriddenRules` is by induction over the overrides. Theorem: `PolicyKept`.
    `PolicyAssumption`: a profile has a name and each of its lists, which `Validate` and the decoder see to; paths and rules are finite
    sequences (`IsPath`, `IsRule`, and so `RulesAssumption`, `DriversAssumption`); the drivers are the three. `DriversAssumption` also: the directories of
    programs that have two names (`ProgramDirs`) are open under both (`landlock_translator_linux.go:381-382`).
  * `ConfinedByPolicy`: a confined command has the translation of the policy that was worked out, whose rules are rules. What remains is about the translators, for any policy and disk.
    *Denials.* What a rule matches lies beneath what its glob finds on disk, if the search goes that far (`NotSought`), or beneath the parent, if
    the finds are too many; so the denial is in Landlock's lists (`LandlockWins`); under Bubblewrap it is a mount that covers the path, in a
    layer behind the allowances, and no layer behind it grants the same (`BubblewrapWins`, by the greatest layer that covers the
    path); under Seatbelt the last verdict about the path is not one of the allowances (`SeatbeltWins`). *Allowances* are the converse: nothing in the lists, the later layers or the later
    verdicts is about the path, if no denial matches it and none takes it along (`LandlockAllows`, `BubblewrapAllows`, `SeatbeltAllows`); a rule that names a
    mandatorily denied file has taken that denial out (`OptedIn`). Theorems: `DenialsPrevail`, `AllowancesPrevail`, `PolicyEnforced`.
    The attempts at these proofs found most of the exceptions in `Omits` and `Collateral` that the run's disks do not reach.
  * `ShownHolds`: a command that shows has a profile, and its translation with the variables expanded, which is that of the profile itself, for expanding
    twice is expanding once (`ExpandTwice`, `ShownIsApplied`). A rule that is shadowed is so by one that is not (`Survivor`, the one with the shortest
    base), so that the policy without the dead rules still has what shadows each of them (`WithoutDeadIsTrimmed`); that one opens what lies above whatever the dead one opens, whichever way
    its glob is looked for (`ShadeFinds`, `CreatableBeneath`, `ShadeMatches`), and the mandatory denials stay as they are (`MandatoriesTrimmed`). So the translations permit the
    same, part by part (`LandlockTrimmed`; `BubblewrapTrimmed` and `SeatbeltTrimmed` by layers and verdicts that are `Alike`). Theorem: `LintTold`. The attempt found
    the exceptions `CountsAnyway` has beyond the credential files, and `RootIsNamed`.

The theorems of `PackageStepsProofs` and `HomeFilesProofs` are about the modules' own specifications; a behaviour
of `MCPackageSteps` or `MCHomeFiles` that takes one of them is one of its own.

Only model-checked, and why:

* All liveness, which rests on fairness and ENABLED: `EverybodyIsAnswered`, `SessionEnds`, `HandlersEnd`, `FlowEnds`, `SyncMakesProgress`,
  `OutputIsShown`, `RunReturns`, `AllWorkEnds`, `NothingWaitsForever`.

Every safety invariant and every action property of the passing runs is stated by a theorem; what the three runs that expect a violation refute is not.

## 5. What is not modelled

* The interiors of services and libraries (Malysis, the registries, gobreaker, goproxy, the WAL's database, PTYs, the flag parser and semver), which
  appear as what the code relies on; what the kernel enforces by Landlock itself; tasks with several threads.
* The connections to a registry, which the transport limits to a hundred per host (`proxy/proxy.go:194`): a request that waits for one waits within its handler, as for an answer;
  and the copying of a body to the client after the handlers.
* Keys, signatures and encodings of certificates, the bytes of headers and bodies, formatting.
* Lockfile and requirements parsers (`packagemanager` extractors): data of the guard flow.
* The day's log file and the cache of violation logs: append, and keep the newest; no decision reads them.
* The ecosystem scan: a bounded walk of the file system that shares no state with the rest.
* How `bwrap` and `sandbox-exec` are found and started, the probes of `pmg sandbox doctor`, the diagnostics of a failed run.
* Windows: task scheduler, PowerShell profile, console.
* Login and the keychain, analytics, version, packaging: calls out, or constants.

`PROJECT.json` lists each of these as a component, or in the note of the component it belongs to.

## 6. The plan

What is left, the most important first:

1. **Composition** of `GuardFlow` with `DependencyResolver` (the resolver's result as `packages`), and of `ProxyServer` with `ProxyGuard`
   (a registry's interceptor as one of `Interceptors`).
2. **`EventLog`** and the violation cache: concurrent processes that append, rotate by day and prune. Abstract specification:
   a bounded log that keeps the newest.
3. **Concurrent enrolment**: the patches of the configuration against a child of the sync that reads them; composes with `CloudSync`.

New questions share runs where one instance can answer several, and a shallower property makes room for a deeper one.
