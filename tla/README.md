# Formal models of phite

phite is a command-line program that gives a PHP developer a pinned PHP runtime (FrankenPHP),
a pinned Composer and a development server without a system installation. Two maintainer
programs, `phite-runtime-pack` and `phite-composer-pack`, make the releases it downloads.

This directory holds TLA+ models of the parts in which order, failure and concurrency matter,
the TLC configurations that check them on small instances, and TLAPS proofs of their most
important properties for all instances. `PROJECT.json` lists, for every definition, the lines
of code it stands for, and for every property a mutation of the model (the operators commented
`Mistake:`) under which TLC finds that property violated.

## 1. Inventory of the system

| Component | State it keeps | Operations | What makes it correct |
|---|---|---|---|
| **Artifact protocol** (`internal/managedruntime/cache.go`, `internal/managedcomposer/cache.go`, `internal/filelock`) | a cache directory shared by all processes of the developer: lock file, artifact, temporary downloads | `Acquire` (lock, hash, remove, download, check, rename, unlock), `Installed` (read only) | only pinned bytes are handed out; one download per loss; every half-finished state is repaired; the lock is always given back |
| **Runtime Cache** (`internal/managedruntime`: `cache.go`, `config.go`, `extract.go`, `integrity.go`) | as above, and the extraction `runtime`, its marker `verified.json`, the generated `php.ini`, the scan directory, temporary extractions | as above, then extract, compare with the archive, rename, configure, verify the modules with `php -m` | what is started is exactly the archive's content with phite's own configuration; an intact extraction is never disturbed |
| **Composer Cache** (`internal/managedcomposer`) | artifact, lock | the artifact protocol alone | as the artifact protocol |
| **Runtime and Composer Manifests** (`managedruntime/manifest.go`, `names.go`, `managedcomposer/manifest.go`, `internal/portable`) | none (embedded bytes) | parse, validate, select the platform | accept all that the producers publish |
| **Development Session** (`internal/devsession/session.go`, `process_unix.go`, `process_windows.go`, `browser.go`) | a loopback port, the FrankenPHP child and its process group, the channels `done` and `openRequests`, the startup timer, the signal context | pick a port, start, wait until ready, announce, supervise, stop and wait | a session that ended has stopped and waited for its child; Ctrl+C always ends it; the announced endpoint is the child's |
| **Project discovery** (`internal/devsession/configuration.go`) | none; reads `phite.yaml`, directories, links, `index.php` | `discoverProject` | the Document Root and the Entrypoint stay within the PHP Project; no silent choice |
| **Runtime release assembly** (`internal/runtimepack`) | an output directory of four files | `Assemble` | the manifest, the files and `SHA256SUMS` agree; nothing incomplete passes for a release |
| **Composer release assembly** (`internal/composerpack`) | the same | `Assemble` | the same |
| **Commands** (`cmd/phite`, `cmd/phite-runtime-pack`, `cmd/phite-composer-pack`) | the exit code | order of `Acquire` and child, signal context, flags | the child is started after a successful `Acquire` |
| **MySQL driver** (`runtime/windows-x64/licenses/github.com/go-sql-driver/mysql`, the source that goes with the Windows runtime) | per connection: `mysqlConn` (`watching`, `canceled`, `closed`, `closech`, `status`, sequence numbers), the rows in the caller's hands, the packets under way | `Connect`, `Ping`, `BeginTx`, `ExecContext`, `QueryContext`, `PrepareContext` and the statement's own, `Next`, `NextResultSet`, `Close`, `Commit`, `Rollback`; the watcher goroutine (`startWatcher`) | a cancellation hits the operation it belongs to and no other; every packet is read by the command it answers; nothing that was executed is offered for a retry; a closed connection lets go of everything |
| **Embedded catalogs** (`runtime/`, `composer/`) | constant bytes | none | none of their own |

**Interactions.** `cmd/phite php` acquires the Runtime Cache entry, gives back the lock and only
then starts PHP with `PHPRC` and `PHP_INI_SCAN_DIR`; `phite composer` acquires both caches, one
after the other; `phite dev` discovers the project, acquires the runtime and runs a session
(`cmd/phite/main.go:114-127`).
Processes meet only through the cache directory (lock file, renames), through the loopback ports
and through the files of the project. The producers meet the consumers through the manifest that
is committed and embedded. The MySQL driver does not meet phite's own code: it is compiled into the
FrankenPHP that phite distributes, and its source lies in the repository with its licence. It is
modelled because it is the larger part of the implementation found here, and has a protocol
between two goroutines, a server and the contexts of its callers.

**Hard behaviours.** Several phite processes on one cache entry; death at any step, with the
lock freed by the system; cut or wrong downloads; files changed by others; a Windows where files
of a running program cannot be removed; paths verified under a lock and used after it; a select
that chooses at random among Ctrl+C, exit, timer and ticker; a port that is free again between
two uses; children that ignore signals; release directories written in place. In the
driver: a context that ends while its operation returns, a socket closed under a goroutine that
reads from it, error paths out of every packet, several results of one command of which the caller
reads only a part, and a pool that repeats what was answered with `driver.ErrBadConn`.
`PROJECT.json` lists these as `hazards`, each at its line, with the properties that cover it.

## 2. Plan

Order of work, most important behaviour first. Those that are done are marked.

1. `ArtifactCache`: the shared protocol, with its invariants. *done*
2. `VerifiedStore`: the abstract promise of `Acquire`, and the refinement. *done*
3. `RuntimeCache`: composes `ArtifactCache` with extraction and configuration, and implements
   `VerifiedStore` again. *done*
4. `ArtifactCacheProofs`, `RuntimeCacheProofs`: inductive invariants and refinements. *done*
5. `DevSession`: sessions, children, ports. *done*
6. `ReleaseAssembly`: both producers and the contract with the consumers. *done*
7. `ProjectDiscovery`: the decision and its three properties. *done*
8. `ProjectDiscoveryProofs`. *done*
9. `MysqlConn`: the connection, its watcher, the packet stream. *done*
10. `MysqlConnProofs`: all its safety properties from one inductive invariant. *done*
11. `DevSessionProofs`: type correctness and `EndedMeansStopped` from one inductive invariant.
    *done*
12. `SessionLifecycle`: the abstract promise of a session, which `DevSession` implements, step by
    step. *done*
13. `ReleaseAssemblyProofs`: all four properties for every set of recipes and any number of runs.
    *done*
14. `RuntimeLeftoversNeedCrash` and `FewExtractions` in `RuntimeCacheProofs`. *done*
15. The converse of discovery, `OneEntrypointIsServedUnlessFile`, in `ProjectDiscoveryProofs`.
    *done*
16. `ManifestSelection`: the choice of one runtime out of several, per platform.
17. `Cli`: `phite composer`, with two cache entries and one child, and the exit codes.
18. An abstract specification of a release directory, and of a driver connection as `database/sql`
    sees it, with the refinements proved.

## 3. The modules

### ArtifactCache

`pc[p]` is the position of process `p` in `Acquire`/`ensureArtifact` or in `Installed`, one
action per file operation: `Begin` (`os.MkdirAll`, open the lock file), `Lock`, `Inspect` (stat
and hash, whose outcomes are a match, a mismatch, absence or an error), `Remove`, `Request`
(temporary file, HTTP request), `Receive` (copy, close, compare), `Publish` (`os.Rename`),
`Refuse` and `Return` (the deferred unlock), `Exit` (the process ends, and the system closes what it
has open). `Ask`, `AskLock`, `Look`, `Answer` are
`Installed`. `artifact` is the file by what its hash says: absent, verified, corrupt, unreadable.
`Crash` is the death of a process at any step: its lock is freed, its temporary file stays as
one of the `orphans`. `Tamper` is any other program that writes to the cache; every process that
is under way then is `faulted`, and is promised nothing.

### VerifiedStore

The promise without files: a store that is intact or lost, and calls that are granted, denied,
or repair it. `ArtifactCache` implements it with the artifact for the store
(`ImplementsPromise`), `RuntimeCache` with the whole entry (`RuntimeImplementsPromise`). A call is
`trying` from the lock to the unlock.

### RuntimeCache

Extends `ArtifactCache`. While `pc[p]` is `ready` (or `found`), `rpc[p]` is the position in
`ensureExtracted` and `ensurePHPConfiguration`: `CheckTree` (marker, then comparison of the whole
directory with the archive), `ClearSome`/`ClearAll`/`ClearBlocked` (`os.RemoveAll`, which removes
entry by entry, and on Windows fails on a file in use: by the child of a living process, or by one
whose phite has died, `orphaned`, until `OrphansEnd`), `Stage`, `Unpack`, `Compare`, `Place`
(rename), `ScanDirectory`, `Configure`, `Unlink` and `Relink` (`replaceConfiguration` removes and
then renames), `VerifyModules`. After the unlock `Start` runs the child. `tree` is the pair of
marker and content, so that every half-removed and half-written directory has a state.

### DevSession

Each session is a `phite dev` process with three threads (`main`, the goroutine that waits for the
child: `Reap`, and the one that reads the terminal: `Type`), its child (`Bind`, `ChildStops`), the
timer (`Expire`), Ctrl+C (`Interrupt`), the death of phite itself (`Die`), and other programs that
take and free ports (`Outside`). The cases of a `select` are actions that are enabled together.
`Signal` is `stopProcess`, `ForceStop` is `forceStopProcess`; either kill may fail, for the code
looks at no error (`process_unix.go:28`), and Run may give up on the child (`Killed`, `"stuck"`:
`session.go:176`). While Run is in `OpenBrowser` (`"opening"`) requests wait in the one-place
channel `typed`; `asked` remembers that there was one. When `listener.Close` fails (`Unlisten`) Run
ends with its error.

### SessionLifecycle

What a session promises, without ports that others take, signals, timers or goroutines: one
endpoint, FrankenPHP started at most once, the endpoint announced at most once and after that
start, and no FrankenPHP left when the session is over, unless it was killed or says that it gave
up. `DevSession` implements it (`ImplementsLifecycle`): `phase` is the position of `Run` (`starting`
until `Announce`, `serving`, `stopping` in `stopAndWait`, `over`, `abandoned` when it gave up on the
child, `killed`), `process` is the child with
its binding of the port forgotten, `endpoint` is `port`.

### ReleaseAssembly

One module for both producers, with `kind` for their differences: what `validateRecipe` refuses,
the order of checksum and notices, and where notices come from. Every file is written in two
steps, `Create` (empty, or truncated) and `Fill`; `Fail` ends a run at any step, and the next run
finds what it left. The artifact may lie in the output directory. `Supply` is a download, also in
the middle of a run. A file and its digest are both represented by the content. `Rejected` is what
the readers of the manifests in phite refuse.

### ProjectDiscovery

`configuration.go` as operators named after its functions, on a record of what the project holds:
`phite.yaml`, three names that are directories, links, files or nothing, and an `index.php` in
every directory. One action takes the decision.

### MysqlConn

One connection, with the goroutine that calls the driver, the watcher goroutine, and the server.
A packet is an action. The variables come in groups:

| Group | Variables | In the code |
|---|---|---|
| `call` | `pc`, `op`, `ctx`, `answer` | where the caller is, in which operation, its context, what it was last told |
| `watch` | `watching`, `inbox`, `wpc`, `wctx`, `canceled` | `mc.watching`, the channel `mc.watcher`, the watcher's position and context, `mc.canceled` |
| `link` | `closed`, `closech`, `socket` | `mc.closed` (and who swapped it), `mc.closech`, `mc.rawConn` |
| `wire` | `reply`, `stale` | the next packet of the server, and whether it answers an older command |
| `cursor` | `rows`, `attached`, `done`, `owner` | `mysqlRows`, its `mc` and `rs.done`, and the context that its `finish` belongs to |
| others | `more`, `heard`, `trouble`, `cancelled` | `mc.status`; what the server made of the command; a history of what left packets unread; the contexts that are done |

`Connect` goes through the handshake (`Shake`: greeting, TLS, response, the exchanges of the
authentication plugins) and the commands that follow it (`NextSetup`, `NextCharset`), and closes
the connection if one fails (`Abandon`). `Enter` is the beginning of an operation with a context
(`watchCancel`), `Finish` is `finish`: it waits until the watcher takes the hand-over or has closed
the channel. Commands are written by `WriteFrame`, `WriteCommandLongData`, `WriteCommandPacket`,
`WriteExecutePacket`, with `WriteRefused` and `WriteFails`; every result is read by the action named
after the function that reads it, with `ReadError`, `ReadStale` and `ReadFails` for what goes wrong.
`ReadInFile`, `Upload` and `IgnoreAnswer` are `LOAD DATA LOCAL INFILE`. `cleanup` is one step when
the caller does it, since nobody is left who could tell, and three when the watcher does
(`SwapClosed`, `CloseChannel`, `CloseSocket`). `Cancel` ends a context at any time.

## 4. The runs

| Run | Expect | Shows |
|---|---|---|
| `artifact_cache` | pass | 3 processes, 2 deaths, 2 outside changes: `AcquiredIsVerified`, `RefusalNeedsFault`, `OnePublicationPerLoss`, `LeftoversNeedCrash`, `VerifiedIsKept`, and the refinement of `VerifiedStore` |
| `runtime_cache` | pass | 2 processes, 1 death, 2 outside changes of anything: what `Acquire` returns is intact and stays so (`AcquiredIsIntact`), `Installed` never lies (`ReportedIsExact`), what is half finished is repaired (`BrokenNeedsFault`), one extraction per loss (`FewExtractions`), intact entries are left alone (`IntactIsKept`) |
| `runtime_cache_windows` | pass | where a `php.exe` that runs, orphaned or not, blocks removal, and `php -m` runs under the lock, the entire entry still implements `VerifiedStore`; a waiting `Acquire` ends unless the others take the lock again and again, since every holder gives it back: on every path, at its death, and before the child runs (`WaitEnds`) |
| `configuration_gap` | **violation** | a child is started while `php.ini` is between removal and rename |
| `dev_session` | pass | 2 sessions, 2 ports, 1 killed phite, both ways to stop a child: whoever ended has stopped and waited for its child, or says that it gave up, though any kill may fail (`EndedMeansStopped`) |
| `dev_session_live` | pass | Ctrl+C and failed startup end the session; an announced endpoint settles; no request typed while Run is busy with another is lost (`RequestIsServed`); and the session implements `SessionLifecycle` |
| `endpoint_race` | **violation** | the endpoint is announced while another program has the port |
| `release` | pass | either producer, 2 runs, failure at every step, 2 downloads at any time: the records of a successful run agree (`AssembledAgrees`), `SHA256SUMS` verifies only over a release (`VerifiedIsRelease`), an altered artifact leaves no trace, and phite accepts what is published, but for four things that `phite-runtime-pack` overlooks (`PublishedIsAccepted`) |
| `runtime_contract` | **violation** | `phite-runtime-pack` publishes files under names that `portable.Name`, and phite, refuse |
| `project_discovery` | pass | contained, unique, obeyed, and served when it should be, over 90,720 projects on both kinds of system |
| `mysql_connection` | pass | a connection through every sequence of operations, with two contexts that end at any time, a network that fails at any packet, and a server that answers, refuses or is silent (367,102 states): see below |
| `discovery_unix` | **violation** | except on Windows, a regular file named `public` or `web` makes discovery fail |

What `mysql_connection` shows:

* `OnlyOwnContextCloses`: the watcher closes the connection only for the context of the operation
  under way or of the rows that are open, however late it notices that a context is done;
  `UnwatchedWhenFree`: no path of an operation, however it fails, leaves a context with the watcher.
* `CancelIsHeard`: no cancellation is lost: the context of an operation under way is in the channel
  of a watcher that is free to take it, or with the watcher; and a close that was begun goes on to
  the channel and the socket.
* `CancelIsReported`: what a cancellation broke is answered with the context's error and not with
  the error of a broken connection; `CancelledOnce`: `mc.canceled` never gets a second error, for
  which `atomic.Value` would panic.
* `StreamIsClean`: between operations nothing is unread, and no packet is taken for the answer to
  another command, but for the exceptions below.
* `BadConnIsUnheard`: what is answered with `driver.ErrBadConn`, and so repeated by `database/sql`,
  the server has not executed, but for the exceptions below.
* `CancelEnds`: an operation whose context is done returns, though the server be silent for ever;
  `ClosedIsReleased`: a closed connection lets go of its socket and its goroutine.

### Disagreements between code and documents

* **`configuration_gap`**: `replaceConfiguration` (`config.go:207`) removes `php.ini` before it
  renames the new one; a process that holds verified paths from before starts PHP without it,
  although `config.go:36` promises an isolated environment. It takes an altered `php.ini` to get
  there, since an unchanged one is not rewritten.
* **`endpoint_race`**: `availableEndpoint` (`session.go:122`) frees the port it found; whoever takes
  it answers the readiness dial, and the endpoint is announced (`README.md:18`). `AnnouncedSettles`
  shows that it does not last: the child that cannot bind stops, and the session ends with an error.
* **`runtime_contract`**: `validateLeafName` of `runtimepack` (`runtimepack.go:219`) only looks for
  directories in the names of the artifact and of the notices, and not at the shared invariants of
  path components (`portable/name.go:1`): a release may have a file `NUL.zip`, which phite refuses.
* Not a run, since no document claims it: `runtimepack` also takes an identity that is no cache
  path component, digests in upper case and an extension named twice, which the reader of the
  manifest refuses. `PublishedIsAccepted` shows that nothing else is `Overlooked`, and by
  `phite-composer-pack` nothing at all.
* Not a run: when the artifact lies in the output directory under its own name, `copyFile`
  (`runtimepack.go:381`) truncates its source, and the release is of an empty file. The properties
  of `release` except that case.
* Not a run, since it would only restate that there is no such code: `CONTEXT.md:100` speaks of
  the single Development Session owned by a PHP Project, and nothing keeps a second one from
  starting.
* **`discovery_unix`**: `os.Stat` below a regular file is `ENOTDIR`, which `os.IsNotExist` does not
  recognise (`configuration.go:204`, against `README.md:22`).

What modelling the driver brought up (the properties name these cases as exceptions, in place of a
run for each):

* `Exec` applies `markBadConn` to whatever `exec` returns (`connection.go:454`), also to a failed
  write of a local file (`infile.go:155`). The comment at `connection.go:129` says that
  `driver.ErrBadConn` is returned only when it is safe to retry; here the server has the command,
  and has executed the statements before it. `BadConnIsUnheard` excepts `"upload"`.
* `writePacket` (`packets.go:153`) compares `pktLen` with `len(data)-4` to tell the first frame
  from later ones, but both shrink together, so the test is always true. A second frame of which
  nothing is written counts as nothing written; the server, without the whole packet, executes
  nothing.
* `binaryRows.readRow` (`packets.go:1265`) does not look at `rs.done` as `textRows.readRow` does
  (`packets.go:812`): `Next` after the last row of a result that others follow reads the head of
  the next one (`ReadHeadAsRow`, `trouble` has `"slip"`).
* When the file of a `LOAD DATA LOCAL INFILE` cannot be read, the server's answer is read but
  not looked at (`infile.go:174`); what its flag announces stays unread (`trouble` has `"upload"`).
* `mysqlRows.Close` calls `finish` before it reads what is left (`rows.go:101`): that reading
  cannot be cancelled, and `CancelEnds` is about operations that still have their context.
* While rows of an operation with a context are open, `mc.watching` is set, and `watchCancel`
  (`connection.go:721`) takes it for a cancelled connection: a second operation in the same
  transaction closes a good connection. `Enter` has this branch for the operations of the constant
  `Overlapping`, and the proofs hold for any.
* `Connect` tries its second charset on a connection that the watcher is closing
  (`connector.go:198`); `StreamIsClean` excepts connections that are being closed.

### Bounds, and why they are enough

* *Processes*: three on the artifact protocol, so that two wait while one works and dies; two on
  the Runtime Cache, one that has returned and one that repairs. The proofs cover any number.
* *Deaths and outside changes* (`MaxCrashes`, `MaxTampers`): the second change may hit the repair
  of the first, and the second death the successor of the first. The proofs do not depend on them.
* *Systems*: `runtime_cache` is Unix and `runtime_cache_windows` Windows; sessions, projects and
  producers of both kinds are in one run each.
* *Sessions and ports*: two and two, so that the port one session has freed may be taken by the
  other session or by an outsider, and that no port may be free. Liveness is checked with one
  session, whose environment has all that a second could do to it.
* *Release runs and downloads* (`MaxRuns`, `MaxSupplies`): two and two: what matters of the past
  is what the directory holds, and one failed run leaves every mixture a run can start from with
  two releases and exchanged names.
* *Recipes*: two releases under the same names, one under exchanged names, names that meet, and
  some defects that the producers treat alike or differently; `runtime_contract` has them all.
* *Projects*: `public` ranges over all it can be; `web` and `other` have fewer contents, and two
  wrong configurations stand for the eight. The proofs cover all projects.
* *Driver*: two contexts, so that the one of an earlier operation can end during a later one and a
  second error can differ from the first, and `Background`, which is never watched. A command has
  at most two frames, `Connect` at most two charsets, a result any number of rows and of further
  results. One connection: connections share nothing. `exec` is the operation that may begin while
  rows are open (`Overlapping`). The proofs hold for every set of contexts and of such operations.
* Symmetry is used in runs without temporal properties other than step properties, and only for
  processes, sessions and ports.
* `CHECK_DEADLOCK FALSE` is set where the program ends: discovery decides once, and the assembly
  runs are bounded; and in `mysql_connection`, where a connection ends. The other runs check for
  deadlock.

### Fairness, and why the code justifies it

* Caches: weak fairness per process that is inside `Acquire` or `Installed`. A process that is not
  blocked runs; the HTTP client has a time limit; `php -m` is taken to end. `flock` promises no
  order, so none is assumed: `WaitEnds` excuses a wait only when the others take the lock again and
  again for ever. A holder that does not give it back is no excuse, however long it lives: no
  fairness makes a process exit, start, die or tamper.
* Sessions: weak fairness for the steps of `Run`, for the waiting goroutine and for the running
  timer; strong fairness for each case of a `select`, which Go picks at random among the ready
  ones, so that a case that is ready again and again is taken. Nobody has to press Ctrl+C; a child
  may load or serve for ever, and ignore `SIGTERM`.
* Driver: weak fairness for the two goroutines where they wait for nobody, and for reads and
  writes on a socket that is shut, which fail at once; strong fairness for the watcher's look at
  `mc.closech`, one case of a `select` from which Go picks at random. The server owes nothing, nor
  does the caller, nor does a context ever have to end.

## 5. What is proved

All theorems are checked by TLAPS from no assumptions but the named ones on constants
(`ArtifactCacheAssumption`, `RuntimeCacheAssumption`, `DevSessionAssumption`, `ReleaseAssumption`,
`DiscoveryAssumption`, `ConstantsAssumption`), which TLC evaluates in the runs.
They hold for every set of processes, sessions, ports, recipes, projects or contexts, and every
bound. Each inductive invariant was checked by TLC on the instances of section 4 before it was
proved.

* `ArtifactCacheProofs`: `TypeCorrect`, `AcquiredStaysVerified`, `RefusalHasCause`,
  `PublishedOnce`, `LeftoversHaveCause`, `VerifiedIsKeptAlways`, and the refinement `PromiseKept`.
  The properties are not inductive. `IInv` adds that the lock belongs to the process at a step
  under it (`LockOwner`), that a process replaces only what is not verified (`RepairsLost`), who
  has which temporary file (`DownloadOwner`), that nobody repairs what another was refused for
  (`RefusedStays`), and the count with the artifact that is still to be published
  (`PublicationCount`). `LockOwner` carries the argument: what a process has read under the lock
  no other process changes, so only `Tamper` can make it stale.
* `RuntimeCacheProofs`: `RuntimeTypeCorrect`, `AcquiredStaysIntact`, `ReportIsExact`,
  `BrokenHasCause`, `IntactIsKeptAlways`, and the refinement `RuntimePromiseKept`. `RuntimeIInv`
  adds to `IInv` what the positions imply (`StepsFollow`), who has temporary trees
  (`StagingOwner`), that only what is not intact is replaced (`ReplacesLost`), and what an
  undisturbed process has established at each step (`Established`). `ArtifactPart` shows that
  every step of the Runtime Cache is one of the artifact protocol or leaves it alone, and so
  takes over its invariant. Windows and the other systems are both covered.
  `ExtractedOnce` and `RuntimeLeftoversHaveCause` count. `FewExtractions` is not inductive, since it
  says nothing of the extractions still to come. `ExtractionCount` adds `Due`, those that may follow
  although nobody changes anything any more: one while the tree is not intact, and one more while a
  process is `Misled`, past the check of an archive that has been altered since, so that it may
  publish a tree that has to be replaced. Only a process that replaces what is not intact extracts
  (`OwesLess`), and only an outside change can raise the debt, by two (`OwesTwoMore`). `LitterCount`
  charges every temporary file without an owner to a death.
* `ProjectDiscoveryProofs`: `ServedStaysContained`, `ServedIsOnlyEntrypointAlways`,
  `ConfigurationIsObeyedAlways`, for every set of projects and both kinds of system, and the
  converse `OneEntrypointIsServedAlways`: an Entrypoint that is the only one is not refused
  (`StatMisses` and `ConventionServes`: the other names are missing, and then nothing is ambiguous).
* `DevSessionProofs`: `TypeCorrect`, `EndedStaysStopped`, and the refinement `LifecycleKept`. `IInv` adds which positions of `Run` have a child and that `state.done` is closed
  only for one that stopped (`ChildFollows`), and that a session, or its child, listens nowhere but
  on the port it picked (`ListenerOwned`). `ChildFollows` is what makes every exit of `Run` safe: it
  ends either before `command.Start` or with a child that is dead, because `state.done` says so, or
  it says that it gave up. For the refinement, `RunAdvances`
  treats the steps that move `phase`, `ChildEnds` those that end the child, and `LifecycleStutters`
  the rest.
* `ReleaseAssemblyProofs`: `AssembledAgreesAlways`, `VerifiedIsReleaseAlways`,
  `PublishedIsAcceptedAlways`, `AlteredLeavesNoTraceAlways`. `SHA256SUMS` is written last, and is the
  commit record of the directory. `IInv` says position by position what a run has established:
  the recipe is one that was not refused (`Validated`), the artifact was found to be the pinned one
  (`PinnedHeld`), the copy is of the artifact (`CopiesArtifact`), each file holds what the steps
  before have written (`RunFollows`); and, across runs, a `SHA256SUMS` that has content lists one
  release in full (`SumsListRelease`). So a directory over which it verifies is that release, in
  whatever order earlier runs failed.
* `MysqlConnProofs`: `TypeCorrect`, `CancelIsAlwaysHeard`, `CancelIsAlwaysReported`, `FreeIsUnwatched`,
  `StreamStaysClean`, `BadConnIsAlwaysUnheard`, `OnlyOwnContextAlwaysCloses`, `CanceledOnlyOnce`,
  for every set of contexts. `IInv` adds to the types which operation each position belongs to
  (`Phase`); that the watcher holds a context only while `mc.watching` says so, and that after a
  cancellation `mc.watching` stays set, so that no second context comes to the watcher
  (`WatcherFollows`, which is `CancelledOnce`'s reason); that what is watched on an open connection
  is the operation's or the rows' own context (`WatchedInUse`), and the converse, that an operation
  under way is watched by a watcher that is there (`InTouch`); what was sent at each point of an
  operation that may be repeated (`RetryInv`); and that a caller who waits for nothing has read
  everything but the rows it holds (`StreamInv`). Each part is kept by a lemma of its own with a
  step per action, and needs of the others only what its definitions are cited for.

**Only model-checked**: liveness, which like `ENABLED` is out of the prover's reach: `WaitEnds`,
`InterruptEnds`, `StartupEnds`, `AnnouncedSettles`, `RequestIsServed`, `CancelEnds` and
`ClosedIsReleased` (of the last two, `CancelIsAlwaysHeard` proves the safety half). Type
correctness is proved rather than checked where a run has deeper properties to spend its time on:
of `ArtifactCache` and `MysqlConn`, and, as far as their proofs need it, of `ReleaseAssembly` and
`ProjectDiscovery`. Every invariant and every action property of the passing runs, and all three
refinements, are theorems.

## 6. Abstractions and what is not modelled

* The content of a file is what the code can tell of it: a hash matches or not, a directory
  equals the archive or not. SHA-256 is taken to have no collisions. The pinned archive is taken
  to be well formed: that `extractZIP` refuses hostile paths is not part of the model.
* The cache directory, once made, is not removed while phite runs. The lock file lies in it: its
  removal would give two processes two locks.
* An outside change never makes a broken entry intact again; it would only shorten repairs.
  Loss of power is an outside change of what had not reached the disk.
* Removing a temporary file of one's own does not fail silently.
* Process numbers are not reused between check and signal. The fallback of `stopProcess` when the
  group cannot be signalled, a kill of the child, has no step of its own: the child may stop at any
  time (`ChildStops`). The processes that FrankenPHP starts are not modelled: `forceStopProcess`
  kills their group, an ordinary stop does not, and no document promises their end. Of what `Run`
  returns only the failure to end the child is kept.
* A project does not change while it is looked at. Errors of discovery are told apart as
  invalid, missing and ambiguous only.
* A recipe stands for its defects: the patterns of names, digests and URLs are the sets of defects
  they refuse, not matched character by character. Manifests have one runtime.
* Driver: packets have no contents but the kind of answer they are and the flag for more results;
  the sequence numbers are in step exactly if the packet answers the current command, and are not
  looked at in compressed packets (`compress.go:112`); whether a connection compresses is left open
  in each step (`ReadStale`). What was read ahead is lost when the connection is closed, as the
  code looks at `mc.closed` before it reads. When replies are unread the buffer may or may not be
  busy (`WriteRefused`). Every operation but one that asks for rows of its own may be begun while
  rows are open (`Overlapping`): there is one `cursor`. TLC takes `exec`, the theorems any. That a transaction or a statement is open makes no difference to the
  connection, and is not kept. `connCheck` may find the socket dead at any time (`ResetSession`).
* Driver, not modelled: the data source name (`dsn.go`), collations, the cryptography of
  authentication, the conversion of values and arguments and the client-side interpolation of
  parameters. They are functions of data, without state. Two pieces of state are left out, too:
  the isolation level that stays pending when `begin` fails (`connection.go:625`) and the long data
  the server keeps when the command that follows is refused (`packets.go:1030`).
* Not modelled: parsing of flags and of JSON, YAML and CSV; the text of messages; the command
  that opens the browser; the embedded catalogs; the workflows and scripts of the repository;
  `phite composer` as a composition of the two caches (planned).
