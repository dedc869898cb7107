# TLA+ specifications of orma

orma is an APM for PHP. A PHP extension (`ext/`) measures every request inside
the worker that serves it, and sends one frame per request over a unix socket to
a Go daemon (`internal/`, `cmd/orma`). The daemon aggregates the frames by
minute, writes closed minutes to SQLite, and serves web pages from there.

```
 PHP worker (one per request at a time)                daemon (one process)
 +---------------------------------------+    unix    +------------------------------------+
 | observer  hooks  API                  |   socket   | handle (a goroutine per connection)|
 |     \       |     /                   |            |     | Add, under a.mu              |
 |   span table + arena + file table     |            |  windows in memory                 |
 |           | RSHUTDOWN                 |            |     | flush (goroutine of Run)     |
 |        encoder ---- sender -----------|----------> |  store (SQLite, 1m/5m/1h tables)   |
 +---------------------------------------+            |     | rollup, purge, alarms, pages |
   Spans, Statements, Request    Delivery             +------------------------------------+
              Codec -----------------------------------> Aggregator, Rollup, Alarms, Report
```

The project follows a transaction through that picture. `Spans` and
`Statements` are what happens inside the request that measures it, `Delivery`
is its way to the daemon, `Aggregator` its way to the database, `Rollup` what
becomes of it there, `Alarms` (on `Histogram`) what is said of it while it is
fresh. `Ledger` is the one abstract promise that both ways keep. A second chain
follows the contents of one request and nothing else: `Request` is what the
extension records, `Codec` its frame written in C and read in Go, `Report` the trace and
the page made of it. `Lifecycle` is the daemon as a process among others, `Setup` the
files and the schema an installation leaves.

## Inventory

State each part keeps, the operations that change it, what is hard about it,
and what makes it correct. The hazards are listed one by one, at their lines, in
`PROJECT.json`.

| Part | State | Operations | Hard behaviours | Correct when |
|---|---|---|---|---|
| Observer (`ext/orma_observer.c`) | stack of frames, `skipped`, `txn.chiamate` | begin, end, reset | begin and end paired by a counter and by an address PHP reuses; depth cap, stack cap, threshold, fibers, fatal errors | begin and end stay in step; functions form a tree |
| Span table and arena (`ext/orma_span.c`) | spans, arena, file table | open, close, record, attributes, close_open, reset | table and arena full, arena relocated, closing twice or never, four resets | what is delivered is closed, once, inside its parent; offsets lead to the right string |
| Hooks (`ext/orma_hooks.c`) | statement map, profile | replaced handlers, prepare/execute | handles reused, pointers into the arena, longjmp | an execution shows its own statement |
| API (`ext/orma_api.c`) | flags of the transaction | start/end span, name, attribute, notice_error | any order, twice, never | a closed span is final |
| Transaction, errors (`ext/orma_txn.c`, `orma_error.c`) | one record, 32 events | begin, end, record_event | caps, chained engine hooks, naming | bounded number of names; fatal events counted |
| Encoder (`ext/orma_proto.c`) | string table (1024), frame | encode | full table, lengths cut to 16 bits | what it writes is what the decoder accepts |
| Sender (`ext/orma_sender.c`) | descriptor, its pid, three counters of losses | open, write, poll, close, drop | fork, partial writes, one retry, budget, daemon that restarts or does not read | streams stay framed; losses are declared once; PHP never waits |
| Ingestion (`internal/ingest`) | connections, counters | Open, Serve, handle, Close | stale socket, truncated frames, end of file | a rejection has a cause |
| Decoder (`internal/protocol`) | none | Decode | limits, string indices | total, agrees with the encoder |
| Aggregation (`internal/agg`) | open windows, slowest, counters | Add, flush, Run | many goroutines, late data, failed writes, caps, shutdown | nothing vanishes silently or counts twice |
| Store (`internal/store`) | tables of three resolutions | WriteWindow, Rollup, Purge, migrate, queries | one connection, late data, crash during migration | tables agree, purge keeps what rollup still needs |
| Queries of the pages (`internal/store`) | none | Trace, Waterfall, Rilievi, Summary, lists and series | children before parents, parents missing, folded queries, filtered rows | a page accounts for every span, once; a finding blames what was slow |
| Histogram (`internal/metrics`) | buckets | Add, Merge, Percentile, Apdex | bucket borders, ranks, zero | an estimate is wrong by less than a bucket |
| Alarms (`internal/allarmi`) | alarms in force, losses already told | Valuta | counters that move meanwhile, few requests, queries that fail | alarms agree with the requests behind the histograms; every loss is logged, once |
| Start, stop, maintenance (`cmd/orma`, `internal/pidfile`) | pidfile, socket, goroutines | start, stop, restart, reload, purge | two daemons at once, shutdown order | one daemon; a stop ends |
| Installation (`internal/install`, init, enable, purge of `cmd/orma`) | the extension, its INI, the unit, the configuration | Estensione, Rimuovi, Abilita, Servizio | interrupted anywhere, PHP that complains about what is half there, or does not answer | PHP is never broken by it; a purge leaves nothing |
| Schema (`store.migrate`) | tables, `user_version` | open, drop, create, mark | three steps, several openers, several versions | a daemon finds the tables of its version |
| Configuration, process spawning, web pages | | | plain input and output | see "Not modelled" |

How they interact: the extension calls are synchronous, inside one PHP worker;
worker and daemon share nothing but a socket; goroutines of the daemon share
`a.mu`, the maps behind it, atomic counters, and one database connection;
`cmd/orma` cancels a context and waits for three channels to stop them: those of
`Run`, of the maintenance and, if it has no error to return already, of `Serve`.

## Modules

| Module | Models | Checked by | Proved in |
|---|---|---|---|
| `Ledger` | the abstract promise: pending, then settled once | as `LedgerSpec` of two modules | |
| `Aggregator` | `internal/agg`, `handle` calling it, `WriteWindow` as a transaction, shutdown in `doStart` | `MCAggregator*.cfg` | `AggregatorProofs` |
| `Delivery` | `ext/orma_sender.c`, `orma_post_deactivate`, `handle`, forks, deaths, daemon restarts | `MCDelivery.cfg` | `DeliveryProofs` |
| `Spans` | observer, span table, hooks and API as spans, request callbacks | `MCSpans.cfg` | `SpansProofs` |
| `Statements` | arena, interned files, statement map, over several requests | `MCStatements*.cfg` | `StatementsProofs` |
| `Rollup` | the tables of minutes, five minutes and hours: `WriteWindow`, `Rollup`, `Purge`, the table a page reads | `MCRollup.cfg` | `RollupProofs` |
| `Lifecycle` | instances of the daemon around one pidfile and one socket; stop, restart, reload, purge | `MCLifecycle.cfg` | `LifecycleProofs` |
| `Request` | transaction, errors, attributes, profile and spans of one request | within `Report` | |
| `Codec` | `ext/orma_proto.c`, the length check of `handle`, `internal/protocol` | within `Report` | |
| `Report` | `buildTrace`, trace written and loaded, `Waterfall`, `filtraPerDurata`, `Rilievi` | `MCReport.cfg` | |
| `Setup` | `internal/install`, init, enable, purge and export of `cmd/orma`, `migrate` | `MCSetup*.cfg` | `SetupProofs` |
| `Histogram` | `internal/metrics`: operators only | within `Alarms` | |
| `Alarms` | `internal/allarmi`, `Summary`, the counters of `Stats`, the maintenance that calls it | `MCAlarms.cfg` | `AlarmsProofs` |

`Report` extends `Codec`, which extends `Request`: each adds the variables and the
actions of its part, and `Report` has the only `Spec` of the three. `Alarms` extends
`Histogram`.

The `MC` modules only give constants their values. `Spans` and `Setup` need none and
are run directly.

### Aggregator

A transaction is a record of what `Add` reads. A window is the set of
transactions accounted in it, each under the name it was accounted as: the maps
of `store.Window` are functions of that set, and `Series` rebuilds the one whose
length the code looks at (`len(w.Metrics)`).

| Variable | Code |
|---|---|
| `conn` | the transaction each `handle` has decoded and counted, before it gets `a.mu` |
| `windows`, `slowest` | `a.windows`, `a.slowest` |
| `run`, `all`, `current`, `ready` | where `Run` is, and the locals of `flush` |
| `db`, `lost`, `finestreScritte`, `finestrePerse` | rows written; windows whose write failed |
| `phase`, `cause` | of `doStart`: serving, context cancelled, process gone; whether `stop` has an error to return |
| `manut`, `served` | whether the maintenance has returned; `Serve` running, its result in the channel, or taken from it by the `select` of `doStart` |

Steps are cut where the code can be interleaved: `Receive` (decode, count, sum the
declared losses, choose the minute) and `Add` (under the lock); `StartFlush`
(reads the clock before it asks for the lock), `TakeWindows` (the critical
section), one `Write` per window in any order, each with either outcome,
`EndFlush`. `Tick` moves the clock between any two of them. `Cancel` is what makes the
`select` of `doStart` call `stop`: a signal, the web server, or the result of `Serve`. `Exit` ends
the process when all that `stop` waits for has happened: `Run` and the maintenance have
returned and, unless `stop` has an error to return, the channel of `Serve` holds its result
(`ServeAwaited`). That channel is written once: when its result has been taken, `stop` must not
wait for it, and does not, because the result is an error (the listener is closed only
after the context is cancelled). What the connection goroutines are doing does not matter: nobody
waits for them.

Abstracted: the figures in a metric (they are sums over the set), host and SQL
tables, the events, the profile; `WriteWindow` commits whole or rolls back.

### Delivery

A frame travels as two chunks, length and body, because that is what `handle`
reads with two `io.ReadFull`, and it is enough for a write to stop half way. A
process is idle, in `orma_sender_send` (`sending`, or `polling` in its wait), or
dead. `Fork` copies the globals, as the code's check on `sock_pid` expects.
`DaemonEnds` and `DaemonStarts` lose what the kernel had queued. A daemon may
start again in a version that decodes none of the frames (`upgraded`). Counters of
losses are sets of the frames counted, so that "declared once" can be said.

`orma_write_all` returns an error or a timeout; a timeout is not retried, an error
is, once, from the first byte, on a new connection. The budget is the choice of
`WriteTimeout` in any wait. A rejected frame closes the connection. The frames in `Large` are
longer than `MaxFrameSize`, which the encoder does not know: `RefuseLength` rejects them when
only the length word has been read, with what the worker wrote, or is still writing, behind it.

### Spans

PHP is modelled by its call stacks, one, or two with a fiber. A call is named by
the value `txn.chiamate` takes; the address of its frame is its place on its stack,
which later calls use again. `Call` and `Return` are begin and end of the
observer, with the depth cap, the stack cap, the threshold, the unrolling of the
stack and the table of spans. `EnterHook` and `LeaveHook` bracket an original
handler, inside which PHP may run again. `Bailout` is a fatal error: internal
functions are left by a longjmp, observed frames are ended one by one, then
shutdown functions run. Left out: the status of a function's span (whether an
exception is pending), trace identifiers, and the profile of internal functions.
`EndSpan` takes only references that `orma_start_span` gave.

`all` (`orma.detail = 2`) is fixed for the process and `fibers` for a request:
`Paired`, `FunctionTree` and `SpansNest` are about scripts without fibers, because the
code pairs begin and end by the order of one stack. `Delivered` (one span a call,
none open, none silently missing) and `ClosedIsFinal` hold for every script.

`SpansNest` says that children fit in their parent and that hooks nest. Only
functions are summed in it: a hook whose handler calls back into
PHP overlaps, under the same parent, the functions called from it.

### Statements

A string is one cell of the arena, an offset is the number of the cell, a pointer
is good as long as `base` does not change. `Grown` doubles the capacity and may
move it, as realloc may. `Prepare`, `Query`, `Execute` are the hooked handlers,
`PrepareUnseen` a statement prepared by a way no hook replaces, `Free` the end of
a PHP object, whose handle is then reused. `NextRequest` is the end of a request
and RINIT of the next: arena, file table and map are emptied by different
functions, and must be emptied together.

### Rollup

A table is the number of times it counts each transaction of one series, so that
"twice" and "missing" can be said; a row exists when it counts something, and
`Stamp` is its `bucket_ts`. One unit of the clock is a minute.

| Variable | Code |
|---|---|
| `rows` | `metrics_1m`, `metrics_5m`, `metrics_1h` |
| `at`, `written` | the minute of each transaction; the windows committed |
| `step`, `level`, `now`, `unito` | where `Rollup` and `rollupTra` are: reading a level, about to commit the map read |
| `base`, `lastNow`, `seen` | what was in the database when a rollup began, and when the last one that completed did |

`ReadRows` and `CommitRows` are two actions: the single connection is free in
between, and `WriteWindow` gets in. `RollupFails` at any point is an error or the
end of the daemon. `Purge` is on the same goroutine, in the order of the code, and
may stop after any table. What is left out: tables that are only pruned, VACUUM.

`MaxLate` bounds the age of a minute when its window is written (the window is
that of the start of the request, so a long request is late), `MaxGap` the time
between two rollups that complete. `PagesMissNothing` is about the two adding up to no
more than the three buckets recomputed; for what happens beyond see "Where code and
documentation disagree".

### Lifecycle

A process goes through the steps of `doStart` (`pc`); each system call on the
pidfile or on the socket is an action of its own, `Kill` may come between any two
and leaves the files, and a free pid may be given to a new instance or to another
program. `pidfile` and `sock` are the contents of the two paths: a pid, an empty
file, a socket whose process is gone. `maker` remembers who created the
pidfile, so that `CleanEnd` can say of an empty one whose it is. `Close` and `Release` act on the path, not
on who has it, as in the code. One command at a time runs beside the instances:
stop and restart wait for a pid to vanish or time out, purge checks and then
removes.

`overlap` says whether a start may run at the same time as another start or as a
purge. With it, nothing protects an instance: two starts that read an absent
pidfile together both go on, and each then removes files of the other. The
properties are stated without it, which is what systemd, or one operator, gives.

### Request, Codec and Report

One request, from RINIT to the page a developer reads. `phase` is its place on the
way: running; measured (RSHUTDOWN); discarded, or interned and encoded (post_deactivate);
transaction, spans, profile as the decoder reads them; decoded or refused; kept; shown.

| Variable | Code |
|---|---|
| `uri`, `txn`, `spans` | `REQUEST_URI`; `ORMA_G(txn)`, with events, attributes and profile in it; `ORMA_G(spans)` |
| `tab`, `frame` | `orma_strtab`, with the length it had when it was written; the buffer |
| `pos`, `left`, `got` | how far the `reader` is; spans still to read; the `Transaction` decoded so far |
| `trace`, `soglia`, `rows`, `findings` | `store.Trace`; the threshold of the page; `Waterfall` filtered; `Rilievi` |

The script does a few things, in any order: names the transaction, marks it
background or ignored, adds an attribute, raises an error, throws, notices an error,
calls a function, calls a profiled one (with another inside), records a span. Each is
the function of `orma_txn.c`, `orma_error.c`, `orma_api.c` or `orma_hooks.c` with its cap.
PHP may still raise errors between RSHUTDOWN and the encoding. Which calls become
spans is the subject of `Spans`: here any body may, children before parents, with a
parent that may never be recorded.

A frame is a sequence of fields with the number of bytes the writer gives each. A
reader that asks for another width than was written, or another order, gets nothing
sensible and the frame is refused or differs: that is how two programs written apart
are held together. Strings are members of a small set with a length each; the
table has indices, its reserved index 0, and its limit. The encoder interns everything
once before it writes the table and again while it writes the rest, as the code
does: the two passes must agree.

`Waterfall` is a recursive function over place and depth, with the folding of
equal queries in it; `filtraPerDurata` is the fold from the right that the loop of the
code is; findings are the four rules of `rilievi.go`, and their cut to `maxRilievi`
keeps the most expensive. Times in the model are milliseconds, so the thresholds of
`rilievi.go` are multiplied by twenty or forty, to stay in integers.

Left out: hosts, memory and processor times as anything but numbers that must arrive
at their place; random identifiers (a span is named by its place); lines of a
position (present or not); truncation of strings at 65,535 bytes.

### Setup

Two machines that meet in `doPurge`: `step` is the next step of the command that runs,
`opening` what each opener of the database does next.

| Variable | Code |
|---|---|
| `conf`, `unit`, `so`, `ini`, `linked` | the files; `so` half copied, for another PHP, or good; `ini`, in each of the two places it may be, with the collection on or off |
| `noisy` | PHP prints its warnings on its standard output |
| `spoiled`, `purged` | `orma.so` has changed under an INI that names it; the last command was a purge that reported nothing |
| `unheard` | PHP left a question of this purge without an answer; a purge that is cut, or reports a problem, forgets it |
| `bin` | the version of the binary on the disk |
| `shape`, `mark` | the version of the tables, `PRAGMA user_version` |
| `torn`, `mixed` | an opener ended with the two different; two versions had the file open together |

`Interrupt` may come between any two steps of a command, `Close` between any two of an
opening. `valore` asks PHP and takes whatever comes on its standard output: when PHP cannot
load the extension and is `noisy`, the answer starts with a warning, and what is built
from it (`Garbled`) names no file. Any question may also fail, or be asked of another PHP than
the one of the installation. `Estensione` gives up then; `scriviIni` writes in the directory
PHP scans if it was not told the version, or if there is no `mods-available`; `TrovaIni` and `Rimuovi` go on without a word, and what they
cannot place is not looked for (`heard` in `PurgeSo` and `PurgeIni`). `Phpenmod`, `RemoveConfig` and `Upgrade` are the
administrator. Without systemd, or when its installation fails, there is no unit. The file
operations themselves are atomic, except the copy.

### Alarms and Histogram

A minute is a sequence of requests, and a row what the code keeps of it: counts and a
histogram. The requests stay beside the row, so that what the evaluator
concludes from buckets can be compared with what it is about. `TakeStats` and `Valuta`
are two actions, because the aggregator counts on between the copy and its use.
`Restart` loses the counters and the memory of the evaluator, and not the rows.

`AlarmsAreTrue` compares with `judged`, the requests of the last summary large enough to
be judged: an alarm that is on is right, one that is off is wrong by less than the
bucket the threshold is in; a rule whose threshold is zero is off, as in the code. Counters
of a bucket wrap at `Word`: `TrafficAssumption` says that the requests of the minutes looked at
are fewer, which for the code means fewer than 2^32 in `FinestraMinuti` minutes. The bounds of the buckets are a constant that grows, as the geometric
progression of the code does.

## Runs

| Run | Shows | Bounds |
|---|---|---|
| `aggregator_safety` | No transaction is forgotten, doubled or split between names; caps, traces and slowest keep their rules; an open minute stays; the goroutines implement `Ledger`; what is in memory before the last flush is settled; a stop ends, with or without an error, whether or not the result of `Serve` was taken | 3 transactions (same name, another name and application, slow, failed, without timestamp, with a query), 2 goroutines, clock to minute 3, caps of 1 |
| `aggregator_shutdown` | violation: what connections add after the last flush is lost and counted nowhere | 3 transactions, 2 goroutines |
| `delivery` | Streams framed, rejections explained, losses conserved and declared once, frames settled once; `orma_sender_send` returns, with a daemon that refuses, stops or does not read | a worker and its forked child, 2 requests each, the first frame of the child too long, 2 connections, buffers of 3 chunks |
| `spans` | Pairing, tree of functions, children within parents, hooks within functions, nothing open or silently missing; with fibers too, one span a call, closed is final | 3 calls, 2 contexts, stack of 2, table of 2, 3 other spans |
| `statements` | Offsets lead to their statement and their file through growth, relocation and reset | 2 objects, 2 statements, 2 files, one interned, first capacity of 4, 12 cells |
| `statements_moved` | violation: a pointer into the arena outlives a copy | as `statements` |
| `rollup` | Nothing counted twice, nothing lost to the purge before its time, pages find what they ask, a row never loses what it had | 2 transactions, rows of 1, 2 and 4 minutes, retentions of 9, 13 and 14, lateness 2, gap 4, clock to 19 |
| `lifecycle` | One instance, reachable, clean at its end (a pidfile it could not write apart), never purged while it runs | 3 pids |
| `report` | What was recorded is what is decoded, whatever is at its limit; only its length has a frame refused; the page shows every span once with its own time, hides only short rows, and blames code for code | 3 things recorded, table of 3 spans, 14 strings, 800 bytes, 1 attribute, 1 error kept, 2 segments, 6 spans to choose from, thresholds 0 and 70, queries folded and suspected from 2, 2 findings |
| `setup` | A first installation breaks no PHP wherever it stops, a purge that PHP answers is complete, a daemon finds the tables of its version | 2 versions, a daemon and an export |
| `setup_purge` | violation: a purge that PHP answers, and that reports success, leaves the INI | as `setup` |
| `alarms` | Alarms agree with the requests, losses are logged once, and every one in the end | windows of 2 minutes, 5 kinds of minute, 3 requests to judge, 5 buckets, 2 losses and 1 lost window between restarts |

Why these bounds are enough for the case to happen. `Aggregator`: a third minute
lets a late transaction reach a minute already written, and one being written;
caps below the number of names let the valve close; two goroutines and a flush
give every pair of lock orders. Frames arrive before the last minute of the
bound, so that every window can still close. `Delivery`: three chunks of buffer
block a writer in the middle of its second frame; two requests let a loss be
declared by the following frame, and one frame too long be followed by another behind it or by a
retry; one child is enough for an inherited descriptor
and a connection with two holders. `Spans`: three calls with a stack of two
always have one skipped, and a table of two fills up. `Statements`: a first
capacity of four is crossed inside one span (name, file, system, statement), and
twelve cells cross a second doubling. `Rollup`: the steps keep their ratios small
(two minutes in a bucket, two buckets in an hour) so that every retention expires
before the clock stops; two transactions share a row or not. `Lifecycle`: two
instances and a third pid for another program or a restart. `Report`: three things
recorded fill the table of spans, and a fourth span is then refused; two equal queries
under one parent, or under none, or under two, all come up with one query recorded twice and a
function; a query and a call of the network are there with what tells them at the daemon and without; fourteen strings are fewer than some requests need and 800 bytes fewer than some
frames take, so both limits are met and not met. The numbers of the code are larger (3
folded queries, 8 findings, 1024 strings, 4 MiB): the limits are constants, and nothing else in
the operators depends on them. `Setup`: a third version meets the
database of another version as the second does; a daemon beside an export is every
pair of openers. `Alarms`: two minutes make a summary that
outlives one of them; the durations lie on both sides of each threshold, and of the
bound of the bucket the threshold is in. Names of bounds:
`Horizon`, `MaxReq`, `BufCap`, `Conns`, `MaxCalls`, `MaxOpens`, `MaxTime`, `MaxCells`,
`MaxLate`, `MaxGap`, `MaxItems`, `MaxLosses`, `MaxLostWindows`; the other numbers are
limits of the code. Symmetry is used only in runs
without liveness: objects, statements and files in `statements`, transactions in
`rollup`, pids in `lifecycle`.

Deadlock is checked in every run but `report`, where a request ends: it is discarded,
refused or shown. The `Aggregator` stops too (the process ends), and says so with
`Terminated`.

### Fairness

`Aggregator`: weak fairness of the clock, of goroutines that hold a transaction,
of the ticker and of each step of `flush`: the Go scheduler runs what can run.
Strong fairness of the final flush: `select` picks at random among the ready
cases, so a cancelled context cannot lose to the ticker for ever. Weak fairness of the end of
the maintenance, whose rounds are finite and whose `select` sees the same context, and of the
closing of the listener, which has `Accept` return. None of
`Receive`, `Cancel` and `AcceptFails`, none of the outcome of a write. `Delivery`: weak fairness of
the sender of each process only: a worker inside a C function runs, and its poll
has a timeout. Nothing is asked of the daemon, which may stay down or never read. `Alarms`: weak
fairness of the ticker of the maintenance, strong fairness of an evaluation that
succeeds: a query of the store may fail any number of times, not for ever. None of the
traffic, and none against restarts. The other modules state no liveness:
`PagesMissNothing` says what a rollup that completes has done, not that one completes.

## What is proved

Every theorem is about all values of the constants that satisfy the assumptions of its
module, which `TLC` evaluates in the runs. Each proof module starts from an inductive
invariant, a conjunction of named parts; before it was proved, `TLC` checked it on the
run of its module.

Most proofs are about steps. Two are about what the code adds up, the durations under a
function (`SpansNest`) and the requests in the buckets and rows (`AlarmsAreTrue`). The
library states induction for an operator, which no installed prover instantiates, so these
proofs use it for sets of numbers: the numbers for which a statement fails have, were there any, a
least one (`WFMin` with `NatLessThanWellFounded`). In this way it is shown of each recursive
function that one which satisfies its equation exists (it is written down in closed form, by a
cardinality, or by adding one element to the sum of the others), that every such function has the
same values, and so that the one `CHOOSE` takes has them.

### `AggregatorProofs`

For every set of transactions, every set of connection goroutines, every value of the
options and of the horizon (`withDefaults` makes the caps positive; timestamps fall
before the horizon; the sentinel is no transaction).

- `TypeCorrect`: `Spec => []TypeOK`. Needs that a capped name is still a name and
  that `SlowestAfter` keeps within the entries.
- `Conservation`: `Spec => []AccountedOnce`. The partition (in hand, in memory, in
  the batch, in the database, lost) is not inductive alone. `OneHand` (no two
  goroutines hold one transaction) is needed for `Add` to take the transaction
  out of every hand, and `BatchOnlyWhileWriting` for `TakeWindows` not to
  overwrite a batch. With both it is: one lemma per action that moves a
  transaction, on top of lemmas about merging, dropping and splitting families of
  windows.
- `ImplementsLedger`: `Spec => LedgerSpec`. `Receive` is `Accept`, a write is
  `Persist` or `Lose` of its window, everything else stutters; the invariant above
  says the sets it moves were pending.
- `CapIsRespected`: `Spec => []CapHolds`. Inductive strengthening `CapInv` (all windows
  within the cap, series finite); the step uses that a name gets a series of its
  own only below the cap, or when it has it already.
- `CapStaysStable`: `Spec => []CapIsStable`. `Stable` says of one window that an entry is
  under its own name or under `Overflow`, and that an entry under `Overflow` met a full set
  of series. Series are never taken away from an open window, so that a name once
  overflowed finds it full again, and a name with a series finds its series.
- `TracesStayChosen`: `Spec => []TracesAreChosen`. `Traced` and `Followed`, for the traces of a
  window and the entries `slowest` follows. That an entry in `slowest` is in its own window needs
  `AccountedOnce`, because `Add` must not add the same transaction again.
- `OpenMinuteIsKept`: `Spec => OpenMinuteStays`. Rests on `current` never being ahead of
  the clock, and on `FinalInv`: a flush of everything exists only after
  cancellation.

### `DeliveryProofs`

For every set of processes, workers and children, every set of connections, any number of
requests and any capacity of the buffers. The parts of the invariant, each of which the
next ones need:

- `Typed` and `Descriptors`: a process that has a descriptor holds its connection; all who
  share one, after forks, agree on the process that opened it (`sock_pid`); a process that is
  sending has none, or one of its own. That is what the check of `getpid` at the top of
  `orma_sender_send` is for.
- `Ends`: the listener waits for a body exactly when it has read a length, and a closed
  connection holds nothing.
- `Streams`: what was read and is still to read of a connection is framed, the owner's next
  chunk continues it, and an unfinished last frame is the one being written or one given up.
  A retry starts from the first byte on a new connection, which is why the half frame stays on
  the old one, which nobody writes any more.
- `Fates`: a frame that is buffered, received or given up belongs to a send that is over, and
  the three are disjoint.
- `Counters`: what a worker has counted, and what a frame declares, was lost, and
  `LossesConserved`. A declared count is that of the process that sends it, until the send ends:
  a success empties the counter in the same step.

From these: `StreamsAreFramed`, `LossesAreConserved`, `RejectionsAreExplained` (a step of `handle` that
rejects has read a chunk which `Streams` explains: the whole frame of another version, a length
over the limit, with the frame behind it complete or not, or half a frame given up), and `ImplementsLedger`, step by step:
`EndRequest` is `Accept`, a body read is `Persist`, giving a frame up is `Lose`, and `Fates` says
that what is settled was pending.

### `SpansProofs`

For any number of fibers, any depth, threshold, table and length of the request.

- With fibers or without (`Base`): `Chain` (frames are in the order of their calls, and each
  names the one below as its parent), `Table` (an open span is known by its place, a function
  by its call, which is on the stack no more), `Under` (what is recorded under a frame
  started after it), `AllClosed`, `Resting`. From them `DeliveredInOrder`: a call leaves the stack when
  it is recorded and no call gets its number again, so it has one span, although a fiber
  may leave behind a frame whose address a later call takes. And `ClosedSpansAreFinal`.
- Without fibers (`Matched`): the frame `i` is that of the `i`-th user function on PHP's stack, and
  `skipped` counts those above. The pairing alone is not inductive: it needs that when one call
  is skipped so is the next (`skipped > 0 => BeginSkips`), because otherwise a frame would be
  stacked above a skipped call and the first return would be taken for the wrong one. This is
  the argument of the comment in `orma_observer_begin`, and `ObserverStaysPaired` its conclusion.
- `FunctionsMakeATree`: `Matched` says that what ends is the last frame, `Under` and `Table`
  that it is at least as slow as each function recorded under it, so it is recorded too.
- `HooksLieWithin`: `Inside` says that a hook PHP is still in is under a frame lower on the
  same stack, so that it is closed before the function of that frame is recorded. It is
  `HooksNest`, one half of the property `SpansNest`.
- `ChildrenLieWithin` is the other half, `ChildrenFit`, and `WaterfallAddsUp` the two together. That children
  fit in a parent is inductive only with what is said of parents not yet recorded (`Fitting`): what is
  recorded under a frame fits between its start and the start of the frame above it, or now, and so do the
  calls made. When a function ends its own record joins those of its caller, and the time from its start to
  now, which was not the caller's before, makes room for it (`OneMoreFits`, `MoreRoom`). That a sum over
  a set does not depend on the order in which `MapThenSumSet` takes its elements (`AnyOrder`, `SameSum`), and
  that one more element adds its own number (`OneMore`), are lemmas on finite sets, by
  induction on their cardinality.

### `StatementsProofs`

For any objects, statements and files, any first allocation and limits. `Offsets`: what
an offset was taken for is still there, in the map, in the file table and in the spans of the
request. It is preserved because everything the arena goes through, until it is emptied with
all of them, is an extension (`Extends`): more cells behind, wherever the cells are in memory. A
pointer is not in it: `statements_moved` shows why. `MapLeadsToStatements`, `FilesAreReadBack`.

### `RollupProofs`

For all steps and retentions `Validate` accepts and for any lateness, gap and horizon. `Rollup`
assumes that an hour is more than five minutes: two rows of one then reach as far back as three of
the other.

- `RollupIsIdempotent` (`Spec => []CountedOnce`) needs that the map read and not yet
  committed counts each transaction once, too.
- `TypeCorrect` says, beyond the types, that no coarse row is of a bucket in progress:
  the lemma `FloorBelow` is the arithmetic of `now - now%passo`, and `StampStays` that no
  step moves a transaction already counted.
- `RowsNeverShrink` (`Spec => NeverShrinks`). `Sources`: what a coarse row counts is still in the
  table below, as long as the purge may not have taken it (`MinutesKept`, `SourcesKept`), and the map
  read contains what the rows it is to replace count (`ReadsWell`). The retentions
  reach further back than the rows recomputed.
- `NoHoleInThePages` (`Spec => []PagesMissNothing`). `Times` says what the clock of the model
  allows: a window is written at most `MaxLate` after its minute, a rollup completes at most `MaxGap`
  after the last. `Complete` says, within `MaxLate + MaxGap <= 3 * Passo5m`, that a bucket
  that is over at the last rollup is complete, or that the rollup in progress will read all of
  it: the transactions that came since are within the three buckets it recomputes.

### The others

`LifecycleProofs` holds for every set of pids. The inductive invariant `Exclusive`
says, for starts that do not overlap, that whoever is past `Acquire` owns the pidfile;
that nobody is while another one is between the check and the writing; that a bound
socket belongs to its process until it closes it. From it: `InstanceIsAlone`,
`ServingIsReachable`, `EndIsClean`, `PurgeIsAlone`. The order of the deferred calls is
what it rests on: the pidfile goes last. `EndIsClean` needs, besides, who made the pidfile: one
whose `WriteFile` failed leaves it empty, and no other that ends leaves one it made.
`TypeCorrect` is the type invariant.

`SetupProofs` holds for every set of versions that leaves out 0 (the `user_version` of a new
file) and every set of openers with the daemon in it: the two assumptions of `Setup`.
`InstallSafe` (`Spec => []InstallBreaksNothing`) needs that the extension is good when the INI
is about to be written, and that an INI beside one that is not good saw it change. `PurgeSafe`
needs, at each step of `Rimuovi`, what the steps before have removed if PHP has answered so
far (`unheard`). `SchemaSafe`
is the delicate one: with any number of openers, while versions did not mix and
nothing was left half made, the tables are missing, or of the one version in use (`OneVersion`,
`OwnTables`), or every opener is still to drop those of another version (`AllDrop`);
with nobody left to create, they are there (`Recreated`); and an opener that finds them
gone leaves a mark that tells (`Marked`). `TypeCorrect` is the type invariant.

`AlarmsProofs` holds for any thresholds and bounds of the buckets, and any traffic that satisfies
`TrafficAssumption`.

- `LossesAreReportedOnce`: the copy is never ahead of the counters and, while `Valuta`
  works, what was reported never ahead of the copy.
- `AlarmsTellTheTruth` (`Spec => []AlarmsAreTrue`). `RowsInv`: each row counts the requests of its
  minute, in its numbers and bucket by bucket (`Counting`, `Tally`), and they are few enough for the
  rows together. Then what `Valuta` sums counts the requests of all the minutes, without
  wrapping (`MergeCounts`, `RowCounts`, `SummaryCounts`); the running totals of `Percentile` and
  `Within` are numbers of requests up to a bucket (`SeenCounts`, `WithinCounts`); the
  percentile is the first bound with enough requests up to it (`PercentileFinds`), so that a
  percentile above the threshold means that fewer are at or under the threshold, and one that is not
  leaves less than a bucket in doubt (`PercentileTells`). `RulesTell` draws from it, rule by
  rule, what the alarm says of the requests.

### Only model-checked

- Liveness under fairness, which the prover does not do: `Settled`, `ShutdownEnds`,
  `SendReturns`, `LossesSurface`.
- `RoundTrip` and `OnlySizeRefuses` of `Codec`; `RowsCoverSpans`, `SelfTimeAddsUp`, `HiddenRowsAreShort`
  and `FindingsBlameCode` of `Report`. They are about what nested recursions compute (a frame that is
  flattened twice, a table of strings that grows while it is read, a visit of a tree), each of which would need
  its function in closed form first, as in `SpansProofs` and `AlarmsProofs`. The machine around them
  is sequential, a request that is encoded, decoded and shown once: what could go wrong depends on
  the shape of the data, which the run enumerates, and not on an interleaving.

## Where code and documentation disagree

1. The last minute can be lost at shutdown (`aggregator_shutdown`,
   `cmd/orma/main.go:634`): accepted connections are neither closed nor waited
   for, and `Add` goes on after the last flush. Those transactions are not in
   `finestrePerse`.
2. A pointer into the arena (`statements_moved`, `orma_hooks.c:275`):
   `orma_stmt_execute_call` reads the statement through a pointer taken before two
   copies into the same arena, the second of which, or the copy of the statement
   itself, may have moved it. Comments in `orma_span.c` and `orma_hooks.c` explain
   why offsets and not pointers must be kept.
3. A purge that leaves the INI (`setup_purge`, `install.go:93`): `Rimuovi` removes
   `orma.so` before it asks PHP for its version. From then on the INI names an
   extension that is not there; where PHP prints the warning on its standard output,
   `valore` takes it as part of the version, `mods-available/orma.ini` is not found, the
   file stays and `doPurge` reports no problem. `install.go:78-79` says that both are
   removed.
Further disagreements, read in the code while modelling it, with no run of their own.

Measuring:

- the cap on names compares with `len(w.Metrics)`, the series of every application,
  categories included (`aggregator.go:351`); `DESIGN.md:84` says names per application;
- a query inside a function that falls under `orma.function_ms` keeps it as its
  parent, and is delivered without it although the table has room
  (`orma_observer.c:207`); `DESIGN.md:170-173` says it cannot be. The page then shows it at
  depth 0, which `RowsCoverSpans` allows;
- with a fiber suspended inside a skipped call, the end of a stacked call of the main
  script is taken for the skipped one (`orma_observer.c:184`; the comment at line 149 argues
  from depth); `Delivered` shows that the damage stops short of doubled spans;
- `profilo_profondita` is not decremented when a fatal error leaves a profiled
  function, so that what shutdown functions call is not in the total;
- `orma_name_transaction` in a command line script locks the name, and with it
  `background = false`; `DESIGN.md:67` has such scripts in the background;
- the hooks record an execution whose statement they do not know with `db.system` alone, and a call of
  the network without a host with nothing (`orma_hooks.c:264`, `:349`, `:374`). `Rilievi` knows queries by their
  statement and calls by their address, and tells the time of these as "il codice PHP che lavora
  davvero" (`rilievi.go:216`). `FindingsBlameCode` says what holds: this never happens to one whose statement
  or address was recorded, as long as the table of strings has room. The run has both sorts of
  spans: without the first exception (`Told`) TLC blames an `EXECUTE`;
- beyond 1024 strings of a request a statement arrives empty: `Rilievi` takes the query for
  code that waits (the other exception in `FindingsBlameCode`);
- a frame the encoder may legally produce can exceed the 4 MiB of the listener: it is
  refused and declared by nobody (`OnlySizeRefuses`; `Large` in `Delivery`), with the frames
  behind it on the connection;
- a frame the kernel accepted and the daemon never read is a success for its worker
  and is declared by nobody (`discarded` in `Delivery`): the count of losses is a
  lower bound.

Keeping and showing:

- after a stop longer than fifteen minutes the minutes before it are never
  aggregated, and vanish from the pages when the minute table expires
  (`rollup.go:105`); `rollup.go:85` and `DESIGN.md:343` say that the next round repairs it.
  `PagesMissNothing` is stated within that limit: without its condition and with
  `MaxGap = 5`, one minute more, TLC finds the hole;
- `slowest` is keyed by name without its application; `TraceMaxPerWindow` does not bound
  the slowest added by `flush`;
- "scrittura delle metriche" is never cleared, although `allarmi.go:43` says that an
  alarm is written when it comes back too; with fewer than twenty requests the alarms of
  the traffic stay as they were.

Running and installing:

- when `php -r` or `php --ini` fails, `Rimuovi` skips the file it asked about (`install.go:93`, `:102`,
  `:105`), drops the error and returns nil, and `doPurge` prints that it is done, although
  `install.go:78-79` says that extension and INI are removed. In the model this and the warning of 3 above are
  the only ways: `PurgeCleans`, without either, is proved, and without `~unheard` TLC finds the
  extension left behind;
- a start whose pidfile cannot be written (a full disk) ends and leaves it there, empty
  (`pidfile.go:40`, `Release` does not know it for its own). The next start overwrites it;
  until then stop, reload and restart fail on it (`CleanEnd`);
- a pidfile left behind whose pid is in use again, by another program or, as in a
  container, by the new process itself, has the start refused (`pidfile.go:31`), although
  `pidfile.go:22-24` says that a bad shutdown must not prevent it; `orma stop` signals
  whatever process has that pid;
- an upgrade whose extension does not load removes it (`verifica`) and leaves the INI of
  the version before: PHP then complains at every start (`spoiled`). `copia` truncates
  the file PHP has mapped;
- `main.go:292` says to install the extension again with `--init`, which refuses a
  configuration that exists; removing it and repeating turns on a collection that
  `--disable` had turned off;
- an export of another version, or one that found the database stale, drops the
  tables under a running daemon (`mixed`), and a crash between the creation of the tables and
  `user_version` leaves them with a mark of another version (`torn`).

## Plan

The modules planned are written, and every safety property of a run is proved except those of
`Codec` and `Report`. What is left, in this order:

1. Lemmas on `Codec` about what one field of a frame adds to it, towards `RoundTrip`, and on
   `Filtered` as a fold from the right, towards `HiddenRowsAreShort`.
2. `Delivery` and `Aggregator` meet in `received`: the set at the end of the first is the
   set at the beginning of the second. A module that composes the two ledgers.

The pool of the database (`store.go:300`, one connection) was planned as a module and
is not one: no operation issues a query while it holds rows or a transaction, so there
is nothing for a model to interleave that `Rollup` does not.

## Not modelled

- Configuration: parsing and validation, no state; its limits are the assumptions on
  the constants of `Aggregator` and `Rollup`.
- SQL obfuscation (`orma_sql.c`): a scanner of characters without state.
- Process spawning (`proc`): one system call with attributes.
- Web pages: rendering of read-only queries, HTTP input and output. Of the queries,
  lists and time series are SQL that reads; the table they read is chosen in `Rollup`.
- Version, build files and tests.
- Of modelled parts: lines of positions, the encoding of histograms as bytes, the
  tables that are pruned without rollup, VACUUM, status and the delegation to systemctl,
  the installation of the hooks and what each reads of its arguments, the start and the stop
  of the PHP module.

PHP, systemd, the kernel's sockets and the clock are not code of this repository: they are
modelled from how the code uses them and marked external in `PROJECT.json`.

## Running

The runs whose configuration ends in `Shutdown`, `Moved` or `Purge` stop at their
counterexample.

```
tlc -workers 2 -config MCAggregator.cfg MCAggregator
tlc -workers 2 -config MCAggregatorShutdown.cfg MCAggregator
tlc -workers 2 -config MCDelivery.cfg MCDelivery
tlc -workers 2 -config MCSpans.cfg Spans
tlc -workers 2 -config MCStatements.cfg MCStatements
tlc -workers 2 -config MCStatementsMoved.cfg MCStatements
tlc -workers 2 -config MCRollup.cfg MCRollup
tlc -workers 2 -config MCLifecycle.cfg MCLifecycle
tlc -workers 2 -config MCReport.cfg MCReport
tlc -workers 2 -config MCSetup.cfg Setup
tlc -workers 2 -config MCSetupPurge.cfg Setup
tlc -workers 2 -config MCAlarms.cfg MCAlarms
tlapm DeliveryProofs.tla
tlapm SpansProofs.tla
tlapm StatementsProofs.tla
tlapm AggregatorProofs.tla
tlapm LifecycleProofs.tla
tlapm RollupProofs.tla
tlapm SetupProofs.tla
tlapm AlarmsProofs.tla
```
