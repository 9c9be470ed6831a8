# TLA+ models of toksearch_d3d

`toksearch_d3d` gives TokSearch access to DIII-D data: signals that read PTDATA,
IMAS fields and the CAKE catalogue, a connection factory for the D3DRDB database,
a native PTDATA index plugin, and the scripts that release the package. This
directory holds TLA+ models of its stateful and concurrent parts, TLC
configurations that check them, and TLAPS proofs about them. Source paths below
are relative to the repository root.

## 1. The system

| Part | Source | State it keeps | Operations | What is hard |
|---|---|---|---|---|
| CAKE cache | `toksearch_d3d/signal/_cake_cache.py` | a file, sidecar, lock file and temporary files in the user's cache directory, shared by every process; a memo of validated URLs per process | `ensure_local_cake_db(source, force)` | concurrent processes and threads, fork, a crash between two writes, a remote that changes under the call, a lock without timeout, paths named by basename only |
| CAKE signal | `toksearch_d3d/signal/cake.py` | one module-global SQLite connection | construction, `get_db_conn`, `gather`, `cleanup` | one connection shared by signals of different databases; a file replaced under an open connection |
| PTDATA signal | `toksearch_d3d/signal/ptdata.py` | one `PtDataReader` per process, guarded by pid | `reader`, `close`, `gather`, `cleanup` | fork, settings captured at construction, version pins |
| IMAS signal, transport | `toksearch_d3d/signal/imas.py` | process-wide MDSplus connections (in toksearch's registry) | `_fetch_requirement`, `_fetch_remote_requirement`, `cleanup_shot`, `cleanup` | a session the relay retires after any failure; retries; errors that must not be retried |
| IMAS signal, gather | `toksearch_d3d/signal/imas.py` | `raw_data`, accumulated during one gather | resolve/fetch loop, times axis, channel names, entity hint | optional values whose failure must not fail the gather; bounded loops |
| IMAS layout | `toksearch_d3d/signal/imas_layout.py` | none (pure) | `apply_layout`, `apply_layout_prefix` | holes, ragged data, keeping axes and the leaves of a batch aligned |
| IMAS xarray output | `toksearch_d3d/signal/imas.py` | none (pure) | `fetch_as_xarray`, `_channel_result_to_dataset` | axes matched to dimension arrays by length alone; channels keyed by names that need not differ |
| PTDATA index plugin | `src/ptdata_plugin/sqlite_index.c` | a table of open index databases | `get_shot_file_path` | table bounds, stale handles |
| Environment bootstrap | `toksearch_d3d/__init__.py`, `fdp.py`, `data/` | process environment | import | order of side effects |
| D3DRDB | `toksearch_d3d/sql.py` | none | `connect_d3drdb` | little: routing between live and snapshot |
| Release channel | `.github/scripts/channel_tools.py`, `.github/workflows/conda_build.yaml` | labels of package files on the channel | upload, `retire`, `archive`, `promote`, `relabel` | two requests per file, jobs that run at the same time, a job killed in between |
| Versioning and packaging | `versioneer.py`, `toksearch_d3d/_version.py`, `pyproject.toml`, `.github/workflows/conda_build.yaml` | the version file of every tree, sdist and installation; keywords of an archive; tags | the cascade of `get_versions`, `render`, `write_to_version_file`, build and publish jobs | one tree has several sources of a version; a commit has several tags, pushed at any time; trees inside other repositories |
| Tools, LLM presets, benchmarks | `toksearch_d3d/tools`, `llm`, `benchmarking` | none | file conversion, constants, measurements | nothing concurrent |

Interactions. Constructing a `CakeSignal` calls `ensure_local_cake_db`, and its lookups
later open the returned path, which other processes may replace meanwhile. `ImasSignal`
fetches its PTDATA requirements through a `PtDataSignal` of its own and its remote ones
over a connection shared with every other signal of the process. `PtDataSignal` reads
through the per-process registry. A pipeline forks workers that inherit all module state,
and calls `cleanup` on its signals at the end of a chunk of shots. Workflow jobs meet only
through the labels on the channel. A tag starts the job that computes a package's version
from the repository, and the publish job's gate compares that version with the tag; a built
package carries the version in a file that the running package reads again.

What makes each part correct:

* **CAKE cache**: no process ever sees half a database; what was validated is no older
  than the remote was when the call began, and of the source asked for, also where two
  sources share a path; the file never goes back to an older version; the memo names only
  files that exist; waiting callers do not download again; every call ends.
* **Worker state** (PTDATA and CAKE signals): no reader crosses a fork or outlives the
  cleanup of a PTDATA signal; a pin is honoured or the fetch fails; a chunk is resolved in
  one content of the database the signal was given.
* **IMAS transport**: one failed call costs at most one requirement; values come from the
  tree asked for.
* **IMAS gather**: a failure costs only what needed the failed fetch; the layout decision
  depends on the data only; nothing is fetched twice; the gather ends.
* **IMAS layout**: data and times stay aligned, entity axes are untouched, no value is
  invented, leaves of a batch stay on their common axis.
* **IMAS xarray output**: an axis gets its own label and a coordinate of its length; no
  channel is lost or given another's data.
* **Release channel**: only released versions reach main, no published file loses its
  last label, jobs that succeed did what they promise.
* **Versioning**: a package is called as the tag it was built for; a version names one
  source, as far as git saw its changes; what was built keeps the version it was built with.

## 2. Modules and how they correspond to the code

| Module | Models | Extends / used by |
|---|---|---|
| `CakeStore` | what the cache promises its clients: the abstract specification | instantiated by `CakeCache` |
| `CakeCache` | `ensure_local_cake_db` in any number of threads and processes | `MCCakeCache`, `CakeCacheProofs`, `CakeFreshProofs` |
| `WorkerProcess` | reader registry and connection cache across fork, chunk, environment and file changes; version pins | `WorkerProcessProofs` |
| `ImasLink` | remote requirement fetches over the connection registry | `ImasLinkProofs` |
| `ImasGather` | one `gather`, from the resolve loop to the decision of the layout | `MCImasGather`, `ImasGatherProofs` |
| `ImasLayout` | `apply_layout` and `apply_layout_prefix` | extended by `ImasXarray` |
| `ImasXarray` | what `fetch_as_xarray` makes of a gathered value | extends `ImasLayout`; `MCImasLayout`, `ImasLayoutProofs` |
| `ReleaseChannel` | the publish and promote jobs and their scripts | `MCReleaseChannel`, `ReleaseChannelProofs` |
| `Versioning` | versions of trees, packages and installations, and the jobs that publish by them | `MCVersioning`, `VersioningProofs` |

`PROJECT.json` maps every definition to its lines. Definitions headed *Faulty variant*
are not part of a specification: each is a mistake that could be made in the operation
that follows it, and is used to confirm that a property notices it.

**CakeCache.** `file`, `sidecar`, `tmp` and `holder` are the cache directory and the lock;
`memo` is `_validated`, private to a process and copied by `Fork`. `pc` says where a thread
is in `ensure_local_cake_db`. One action is one externally visible step: `Begin` (the
checks before the lock, and the lock-free answer from the memo), `Acquire`, `Stat` or
`StatFails`, `Check` (line 193), `Fetch` and `FinishTransfer` (a transfer is visible while
it is half done), `Publish` (`os.replace`), `DownloadFails` and `Cleanup` (the `except` handler),
`OpenSidecar` and `WriteSidecar` (a sidecar is torn in between, also by a failing write),
`Remember`. `Interrupt` is an exception that arrives in the locked region, `Crash` the
death of a process anywhere, which frees its lock and leaves its files. A database is its
source and version, `SizeOf` what a stat reports of a version; a stat may report no size.
`LocalPath` is the basename and may be the same for several sources. `faults` counts what a
run bounds and the code does not expect: crashes, interrupts, an `os.remove` that fails and
leaves the temporary file (`Cleanup`, the swallowed `OSError` of lines 200-203), a sidecar
that cannot be opened and so stays beside the new file (`RecordFails`).
The fallback after a failed stat or download (serve what is there, or raise) is
`ServeCachedOrRaise`. `StoreSpec` is the refinement: the held copy of a source is what its
local path holds, an answer from a stat without size counts as a cached one only.

**WorkerProcess.** `registry[p]` is `PtDataReaderRegistry.__instance` as process `p` sees
it, with the pid it is stamped with; `conn[p]` is `_conn_cache`. `OwnRegistry` is
`__new__`, `GetReader` is `reader()`. A gather goes through `BeginPtData`, `GetReader`,
`Fetch` and, where the header is kept, `ReadHeader`; a CAKE gather through `BeginCake`,
`GetDbConn` and `Lookup`. `chunk[p].signals` is the pipeline whose chunk the process works
on, one of `Pipelines`. `Cleanup` is the end of a chunk and does what the pipeline's signals
do: a `PtDataSignal` drops the reader, a `CakeSignal` closes the connection, an `ImasSignal`
does neither, since its `cleanup` never touches the registry its PTDATA requirements are
read through. `ChangeEnv`, `StoreVersion` and
`ReplaceFile` are the world outside. `pin` is chosen once, as a pipeline's shot list does;
`PassedPin` is what reaches the fetch, which for an `ImasSignal` is nothing. The rest of
`chunk` is history: the environment when the reader was last dropped or the process forked,
the files when the chunk began, the connection it first used.

**ImasLink.** `link[s]` is what the registry holds for a server: none, a live or a dead
session; `opened[s]` the tree that session has open. A fetch is `Connect` or `DialFails`,
`OpenTree`, `Get`, with `SuspectError` (one of `_CONNECTION_SUSPECT_ERRORS`),
`DataAbsent` (tree errors) and `OtherError` at every call, and `DropConnection`, whose
`disconnect` may raise without evicting. `Expire` is a relay that retires a session.
`faults`, `inherited` and `clung` are history: failures of the network during this fetch,
the state its session had before, and whether a `disconnect` raised.

**ImasGather.** `facts` is the input, chosen in `Init`: mode, layout and what is true of
the shot. `paths`, `todo`, `iter`, `ready` and `pending` are the state of the current
resolve/fetch loop, the same for the requested paths and for each optional value; `phase`
says which. `raw` is `raw_data`. An optional value that is there may still be odd: what
converts and scales it (`_to_numpy`, `np.asarray`, the factor of line 589) runs outside the
`try` of `_fetch_dim`, so that `gather` raises. `MayRaise` names the values and purposes for
which it may, and `ConversionRaises` chooses; the conversion of the requested value is the
business of `ImasLayout`. `ImasComposer` is external: `Resolve` returns the next
unfetched round of requirements of a path, as the loops expect.

**ImasLayout.** A value is the list of the shapes of its outer entries, a kind and whether
it is boxed (an object array). Each entry is followed by its position, and a cell 0 is one
filled with NaN, so that a property can say which entry ended up where. `GatherLeaf` and
`GatherPrefix` apply the functions to an input drawn in `Init`.

**ImasXarray.** A gathered leaf is turned into an array by `FetchLeaf`: `Result` is the
dimensions as they were gathered, with the times a layout left; `AxisDims`, a recursive
function over them, gives each the first axis of its length that is free (`Label`), `SqueezeAxes` and `Renumbered` drop axes of one
entry and move the labels with the axes they stand on, `DataArray` is xarray's own check.
A value split by channel goes through `GatherChannels` (`SplitByChannel`, a key per channel)
and `FetchChannels` (`ChannelDataset`, a `Variable` per channel). xarray is external, and
only its refusals are modelled. Names are numbers, one below the number of channels stands
for its own numeral, which is what an unnamed channel is called.

**ReleaseChannel.** `labels[v][b]` is the server's state. A job is a state machine over the
steps of the workflow and script: `Tag`, `Upload`, `List`, `Retire`, and `relabel` as
`Before`, `Post`, `Delete`, `After`. `BreakOff` ends a job before any request. `Archive` is
the download with its checksum. Jobs interleave freely, as nothing in the workflow
serialises them.

**Versioning.** A version is the record of what its string says, and a tag's name is a number
in the order the strings sort in; separators and `plus_or_dot` are left out, no name has a
`.post` segment. `VersionOf` is the cascade of `get_versions`: expanded keywords, a rewritten
version file, git, the name of the parent directory. `Render` is `render`, with every style.
`tree[s]` is what lies in a directory, with the repository git finds from there (`git`) and
its `_version.py` (`file`): `Clone` (with all of the history, or the last commit only),
`Archive`, `Copy`, `Sdist` and `Install` make the trees, the last two inside the
repository they were built in or away from it. `Edit` changes files of any of them, other
than its `_version.py`: git sees that in a checkout, nothing sees it elsewhere (`touched` is
history). A copy may lie in a directory, or below one, that is named like a release (`dir`);
`FromParentDir` believes the name, and `ByName` says that a version has no other source. `Build`, `Publish` and `Rerun` are the jobs of
a staging tag. Git is external; the history is a line on one branch, which is not named
`master`, and `describe` takes any of the nearest matching tags. The recipe's own copy of the
sources is made by the build tool and not modelled.

## 3. Runs

| Run | Module | Shows | Distinct states |
|---|---|---|---|
| `cake_threads` | MCCakeCache | whole and fresh files of one's own source at a shared path, one download among those who wait, no leftover, every call ends | 0.8 M |
| `cake_processes` | MCCakeCache | the memo (inherited too), monotony of the file, refinement of CakeStore | 2.4 M |
| `worker_process` | WorkerProcess | fork, settings across chunks of two pipelines, one content per chunk | 2.8 M |
| `worker_pinned` | WorkerProcess | *two findings*: neither a header nor PTDATA in an IMAS value follows the pin | violated |
| `worker_own_database` | WorkerProcess | *finding*: a CAKE lookup uses another signal's database | violated |
| `imas_link` | ImasLink | no cascade of failures, right tree, lost sessions dropped | 19 k |
| `imas_gather` | MCImasGather | decision by the data, losses that stay where they belong, no refetch, termination | 0.27 M |
| `imas_names_lost` | MCImasGather | *finding*: a lost fetch of names unprotects an entity axis | violated |
| `imas_layout` | MCImasLayout | alignment, no fabrication, rectangularity, batches, labels of axes, channels of a split | 1.35 M |
| `channel` | MCReleaseChannel | main, labels, evidence, one candidate, whole versions | 2.2 M |
| `channel_partial` | MCReleaseChannel | *finding*: promote succeeds with part of a version | violated |
| `versioning` | MCVersioning | packages as tagged, refusals, versions that identify their source, installations that keep theirs | 0.8 M |

### Bounds and why they are enough

* *Cake.* Two threads of one process share a temporary name, two processes share file,
  lock and sidecar but not the memo: both pairs are run, since the hazards are pairwise.
  The threads ask for two remote sources of one basename, which is where a path can come to
  hold another source's database, with two calls, one later version and two faults: a
  sidecar that could not be replaced, then anything. The processes ask for one remote source
  and a local path: three calls let one call find what two others left, two later versions
  (0, 1, 2) make an update during a stat and another during the transfer, and one crash is
  enough, since a second one starts from a state whose files the first one could leave. The
  proofs lift all of these bounds.
* *Worker.* Two processes make one fork, the registry is the parent's; the proof covers
  generations. One change each of environment, stored versions and file separates
  before from after. Two pipelines, one of IMAS signals only and one of everything else,
  take turns in a process: one leaves the reader in place that the other finds. Two
  databases only where the run is about them. Pids are not reused in the model.
* *ImasLink.* Two servers show that failures do not cross them, two trees that values do
  not. The number of fetches is not bounded: `faults` counts per fetch only.
* *ImasGather.* Three leaves (an entity axis, its times, a scalar), two candidates each for
  times and names, four requirements some of which are shared, loops of up to three
  iterations for paths of at most two rounds, so that the bound is reached only by paths
  that never resolve. Every combination of facts, failures and odd values is enumerated.
* *ImasLayout, ImasXarray.* Up to three entries of six shapes (a scalar, a vector of none,
  one, two or three numbers, a matrix), all kinds, all layouts, absent, flat and
  two-dimensional times, batches of up to three leaves, no dimension, times alone or beside
  a flat or a matrix one, splits of up to two channels with equal, numeral and missing names. Decisions compare entries with
  each other and lengths with lengths: two different non-empty shapes and an empty one
  give every pattern of comparison.
* *ReleaseChannel.* Two versions of two files, two jobs at a time, one of which breaks off.
  The proofs lift this to any number of each.
* *Versioning.* Two staging tags and a release tag on two commits give every pattern of tags
  that share a commit, precede it or come after a build; two directories, interchangeable,
  compare any two trees, and hold a tree and what was copied or built from it, in a directory
  named after either tag or after none. A copy of an sdist in
  the repository of another tree needs a third, and so do names that are no number: both are
  covered by the proofs.

`CHECK_DEADLOCK FALSE` is set where the system may stop: all calls of the bound made
(cake), a gather over, all jobs done. The worker and link models never stop.

### Fairness

`CakeCache!FairSpec` assumes weak fairness of each thread's steps inside a call, and
nothing about calls, crashes or the remote. Both pelican commands carry a timeout, so
that stat and transfer end; the operating system releases the lock of a dead process.
Weak fairness of each thread does not promise it the lock while others keep taking it,
but the number of calls is bounded in the run, as is the work of a pipeline.
`ImasGather!FairSpec` assumes weak fairness of the single-threaded gather: the external
fetch returns or raises. No other specification states fairness.

### Findings

1. `cake.py:102`: `get_db_conn` ignores `self.cake_db_location` once any connection exists.
2. `ptdata.py:201`: the header of a pinned fetch is read by point name and shot, and is of
   the current version; `docs/ptdata.md:96` calls a pin a guarantee.
3. `imas.py:404`: `ImasSignal.gather` accepts `version` and `snapshot` and drops them.
   One run shows this and the one before: a trace that ends with both of the wrong version.
4. `imas.py:566`: when the fetch of entity names fails, the axis they would protect is
   compacted or filled without an error, contrary to the comment at `imas.py:515-519`.
5. `channel_tools.py:118`: a promotion that races a retirement of the same version moves
   what is left and reports success; `promote` says it moves one version.

Known limits that no property forbids, first those the properties are worded around:

* Two remote sources with the same basename share a cache file. `OwnSource` says that a call
  which checked the remote has its own source's file there until it lets the lock go. But the
  fallback after a failed stat or download, and the memo, look at the path only and may serve
  the other source's database, and so does a call that comes after a fault between
  `os.replace` and the sidecar: the sidecar then still names the source that was replaced.
* A temporary file whose removal fails stays for good, as nothing looks for it later;
  `NoLeftoverTmp` is about downloads without faults.
* In a process that runs IMAS signals only, the PTDATA reader outlives every chunk and keeps
  the settings it was constructed in (`imas.py:872-879`, `imas.py:403`), although
  `ptdata.py:65-67` says that a change takes effect on the next chunk, after `cleanup()`.
  `SettingsFresh` counts chunks that end with a PTDATA signal in their pipeline.
* An odd optional value makes `gather` raise, although a missing one does not
  (`ConversionRaises`); `OnlyOwnLoss` is about gathers that return.
* An archive, an sdist, a copy or an installation that is edited keeps the version of the
  clean tree (`versioneer.py:1278-1281`, `versioneer.py:1833-1837`), and a directory can be
  named after any version: `VersionIdentifiesSource` excepts both, so that it says what a
  version is worth: the commit always, the changes as far as git saw them.

Besides, `retire` does not compare versions, so the job of an
older tag retires a newer candidate; after a promote job that broke off half-way, `retire`
refuses until promote is run again; an optional path that needs exactly
`max_resolve_iterations` rounds is fetched and then dropped; for a value without entries
`filled` and `compact` return different shapes. With `split_by='channel'`, two dimensions as
long as a channel make xarray refuse it, although `imas.py:820` promises coordinates;
channels of equal names overwrite each other; one number per channel always fails; and a flat
`times` that all channels share is cut up, one number to each as an attribute. Ragged `times`
are an object array of one dimension, which can label the channel axis. `pyproject.toml:50-54`
reads staging tags, the committed `_version.py:54` release tags: a checkout run in place
reports a version of the other kind than the package built from it.

## 4. Proofs

Every theorem is proved by TLAPS for all values of the constants under the named
assumptions of the module (types of the constants, `None` distinct from what it stands
beside). No bound of section 3 is used: `MaxCalls` and its like are arbitrary numbers.

* `CakeCacheProofs`: `CacheTypeOK`, `CacheNoTornFile`, `CacheNoRedundantDownload`,
  `CacheNoLeftoverTmp`. That the published file is whole is
  not inductive: a thread publishes whatever its temporary file holds. `Inv` adds that a
  thread inside the `with` block holds the lock of its path (`LockInv`), so that no
  second thread of its process can be writing the same temporary name, and that the
  temporary file of a thread that transfers is its own and whole when it publishes (`TmpInv`).
  The lock is also what makes a check made inside it still true when the download begins.
  `CacheLocksHeld` is the other direction of `LockInv`: the holder of a lock is inside the
  block of that path, in a process that runs, whatever failed, was interrupted or died. With
  `CacheCallsAdvance`, that a call only moves forward over its at most nine steps, it is what
  `CallsReturn` needs besides fairness: who waits, waits for a call that can go on and ends.
* `CakeFreshProofs`: `CacheServedFresh`, `CacheOwnSource`, `CacheNeverRegresses`,
  `CacheMemoBacked`, `CacheImplementsStore`. `CacheServedFresh` assumes that versions of a
  database differ in size (`SizesDiffer`: the code takes equal size for equal content), and the
  refinement also that basenames differ (`PathsDiffer`: `CakeStore` keeps a copy of each
  source); the others assume neither, so that `CacheOwnSource` covers the sources that share a
  path. Its invariant says that without faults a sidecar names the source of the file beside
  it, unless a thread with the lock is between the two. `FreshInv` follows the argument a reader would give: what a thread was
  told is of a version not older than its call (`Told`), what it transfers covers that and
  the file it will replace (`Knows`), and a sidecar never claims more than the file beside it
  (`SidecarInv`), which is where replacing the file first, then the sidecar, matters. The
  refinement maps `RemoteGrows` to `Grow`, `Publish` to `Replace`, `Begin` to `Ask`, each step that
  ends a call to `Reply`, `Crash` to `Vanish`, and everything between to a stutter.
* `WorkerProcessProofs`: `WorkerTypeOK`, `WorkerReaderOwned`, `WorkerSettingsFresh`,
  `WorkerChunkConsistent`, for any pipelines. The properties speak of calls; `KeptInv`
  speaks of what is kept between calls. Its centre is that an inherited registry carries
  the pid of a live process, so that a new process never takes it for its own.
* `ImasLinkProofs`: `LinkTypeOK`, `LinkNoCascade`, `LinkOwnTree`, `LinkLostDropped`. `Progress`
  counts how far the failures of a fetch have got at each step of each attempt; the count at
  the loss follows from it. It also says that a fetch that is at `get` has its own tree open.
* `ImasGatherProofs`: `GatherTypeOK`, `GatherNoRefetch`, `GatherOnlyOwnLoss`,
  `GatherShapedByData`. For the first two, `IInv` says that what is pending has not been
  fetched (`FetchedOnce`) and that nothing is fetched after the layout has begun (`Phases`).
  For the others, `DataInv` says what a gather knows of what it passed over: after `i`
  iterations the first `i` rounds of every path are fetched or pending, and what is pending is
  for one of its paths (`LoopSound`); a search stands at one of its candidates, and those before
  it were lost for a reason of their own (`Walk`, `Lost`); so the times found are the first that
  were not lost (`TimesSound`), and the targets done with are hinted exactly if they have an
  entity axis whose names were not all lost (`SearchSound`). It needs `ScalarAssumption`: a
  value without an outer axis has no names that enumerate it. `GatherRunsDown` and
  `GatherNeverStuck` are what `GatherEnds` needs besides fairness. `Distance` is what a gather
  has left: its stage, with the targets whose names are still to be asked for, then the
  candidates, the iterations, and the requirements of the current round; every step lowers it
  lexicographically. It needs the composer's tables to be finite.
* `ImasLayoutProofs`: `LayoutBatchKept`, `LayoutEntriesKept`, `LayoutShapeAsPromised`, for
  values of any shape and batches of any length: no layout of a prefix moves an entry, data and
  times of a leaf are filtered by the same positions, an axis that is not known to be time
  stays whole, and only empty slots are filled. What a mask keeps is counted by `Rank`, which
  grows by one at each entry kept (`RankStep`): so the k-th kept exists (`RankOnto`) and is
  one (`RankApart`), and `_compact` keeps each entry that is not empty.
  `XarrayAxesLabelled` and `XarrayChannelsKept` are about what xarray is given, for arrays of any
  rank and any number of dimensions and channels. What `AxisDims` computes is shown along the
  dimensions: a least count at which the labels fail (`CountedUp`) is neither zero nor after one
  at which they hold (`LabelRight`), and `LabelsExist` shows the same way that the recursive
  function has a value at all. `LabelsRight` is the strengthening: after `n` dimensions the
  labels are names of the first `n`, no two alike, on axes of their lengths, and the first
  dimension has the first axis it fits. `KeptAxes` carries that over the axes dropped, by the
  ranks of those kept, and `LayoutArrayed` says that the first axis of every layout is as long
  as the times it left. For channels, a key's row is one of the channels called so
  (`RowsOfKeys`), and with names of their own each channel is.
* `ReleaseChannelProofs`: `ChannelTypeOK`, `ChannelOnlyReleased`, `ChannelNeverLost`,
  `ChannelArchived`, `ChannelOneCandidate`, `ChannelWholeUndisturbed`, for any number of
  versions, files, concurrent jobs and failures. `JobsOK` says that a promote job moves its own version only and that a file has
  its new label while it waits to lose the old one. The last three are about jobs that do not
  overlap, and `SoloInv` says what a publish job then relies on (`Retiring`): its listing of the
  versions it has still to look at is up to date, the files it moves are archived, and the
  versions it is done with are off staging, wherever jobs before it broke off. Without
  breaks, `CalmInv` says more: between jobs all files of a version have the same label, and
  the files of the version a job moves are each where its progress says (`HalfMoved`).
* `VersioningProofs`: `VersioningTypeOK`, `VersioningPublishedAsTagged`,
  `VersioningRefusedOnlyIfShared`, `VersioningIdentifiesSource`, `VersioningReportsItsLabel`.
  `IInv` adds to the types that a tree is sound (`TreesSound`: what git, the keywords, the file
  and the label of a tree say is of its own commit, and tags stay where they were pushed) and
  that what a job built is of the commit its tag is on (`JobsSound`). `Identifies` is what a
  version tells of a tree: its commit, and whether it was edited, unless it was edited where git
  does not see it. That two trees of one version are the same follows from comparing the fields
  of two rendered versions, style by style.

Only model-checked: liveness (`CallsReturn`, `GatherEnds`). Fairness is out of the prover's
reach. To the theorems above it adds that a step which can be taken is taken, and that a lock
which others keep taking is had in the end, as the number of calls is bounded.
Every safety and action property of the passing runs is a theorem.

## 5. Not modelled

* `_spec_fields` and `list_imas_fields` of the IMAS signal: they read the composer's tables and
  keep nothing; the merge of channels with different time bases is xarray's.
* The PTDATA index plugin: one memoised lookup in C. Inside its table it can only go stale,
  when `TOKSEARCH_INDEX_DIR` changes; outside it (shots from 1,000,000 on, and negative ones)
  the behaviour is undefined in C and a model would have no property to hold. Both are
  listed as hazards.
* The environment bootstrap: its hazard, an import that comes too early, is in the load
  order of native libraries, which the Python text does not show.
* D3DRDB, tools, LLM presets, benchmarks: no state.
* Of versioning: versioneer's set-up command, which edits a repository once; its
  configuration errors; tags with a `.post` segment, which two of its styles count on from;
  editable installations; the deployment of the documentation.
* In the modelled parts: wording and logging; calibration, units and text points;
  provenance; forks during a call and the reuse of a pid by a descendant; what SQLite does
  with a connection inherited by fork; dimensions other than times in a gather (they run the
  same loop and are never filtered); promotion of mixed kinds within one value; a forced
  upload over an existing file, a publish job that is run again, building and testing.

## 6. Plan

Done, in this order: CakeCache with CakeStore and its proofs, the refinement included;
ImasLink; ImasGather; ReleaseChannel; WorkerProcess; ImasLayout; Versioning; ImasXarray; the
proofs of ImasGather, Versioning, ImasLayout, of the channel's jobs that do not overlap, and of
what xarray is given; that a gather and a call of the cache run down.

Left, most important first:

1. Composition: `CakeSignal` over `CakeCache` (a lookup through a path another process
   replaces) in place of `ReplaceFile`.
2. `WorkerProcess`: pids that are used again by a descendant.
