# A TLA+ verification of mod_performance

mod_performance measures what each request of an Apache server costs (CPU,
memory, I/O, time) and keeps the figures in a log or a database. This directory
models how the measurements are collected (the threads of the web server that
report, the daemon, the parent that keeps it alive, the database connections)
and what is made of them: the figures of a row, the queries and the pages. Paths
below are relative to the repository (`src/` in `PROJECT.json`).

Contents: [the system](#the-system), [components](#components),
[modules](#modules), [runs](#runs-bounds-and-what-they-show),
[findings](#findings), [fairness](#fairness), [proofs](#proofs),
[not modelled](#what-is-not-modelled), [plan](#plan).

## The system

Three kinds of process take part.

* **Web server workers** (`mod_performance.c`: `performance_module_handler`,
  `ap_modperf_out_filter`, `performance_module_leave_handler`). A request that passes the
  filters connects to the daemon's unix socket, sends BEGIN (its thread id and the counters
  of the thread at that time), is served, sends END with the counters of that later time,
  and closes the connection. An internal redirect or a subrequest runs the handler again, as
  it does not look at `r->main`: another BEGIN on another connection, and nobody closes the
  first. Handler and log hook share only the number of a descriptor, stored per thread
  (`key`, and `sd_global` for the output filter), while descriptors belong to the process
  and are given out again when closed.
* **The daemon** (`performance_module_server`), three threads:
  * *main* is the listener, `performance_server_main_cycle`: `poll` over an
    array of descriptors, `accept`, blocking `read`, and a push of every message
    and of every connection that ended to lists for the cleaner. Process signals
    are delivered to main: SIGHUP and the restart timer raise
    `daemon_should_exit`, SIGALRM deletes old rows, and with MySQL another timer
    optimizes the table. The last two use the database in the handler.
  * the *cleaner*, `proceed_data_every_second`: every 100 ms it empties the lists
    (`clean_item_list_ut`) and samples the memory of the processes being
    tracked (`prcd_function_ut`).
  * the *saver*, `proceed_data_every_second2`: every second it writes the
    finished rows to the database (`remove_counters_ut`).
* **The parent** (`performance_module_start`, `performance_module_maint`) forks
  the daemon, forks another when it has died, and replaces it when the server
  restarts. Only the parent removes the socket file, and the daemon does not look
  at the result of `bind`: a file in its way makes `listen` fail, and a daemon
  that fails there is not started again.

The reports are pages of the web server itself (`performance_module_handler`,
`form_page_content`): each is one query or two against the table the daemon
writes, through a second connection of the adapter (`m_db_r`, `p_db_r`), and
for some a picture that the browser asks for in a request of its own. Nothing
is kept between pages but the custom reports parsed at the start, so the links
of a page carry all its arguments.

The state all this is about, with the default `PerformanceCustomPool On`, is in
`tid_pid_list_ut.c`:

| state | written by | read by | protected by |
|---|---|---|---|
| `list_1_ut` | listener (if trylock succeeds) | cleaner | `mutex_list_ut` |
| `list_2_ut` | listener (if trylock says EBUSY) | cleaner | nothing |
| `remove_list_1_ut` | listener, sampler | cleaner | `mutex_remove_list_ut` |
| `remove_list_2_ut` | listener, sampler | cleaner | nothing |
| `tids_ut` (running requests) | cleaner | cleaner, sampler | `mutex_tid_ut` |
| `counters_ut` (finished rows) | cleaner, saver | saver | `mutex_counters_ut` |
| the database handles | the thread that reconnects | every call | `mutex_db` for writes, `db_lock_rw` around the library, nothing where a handle is given up |
| the table `performance` | saver, the daily delete, other servers | pages | the database |
| the timers | main, handlers on main | | the kernel; gone with the daemon |
| `fds` (poll array) | listener | listener | one thread; but the cleaner may close a descriptor in it |
| `daemon_should_exit` | handlers, main | all | nothing (volatile int) |

What makes it hard: the listener must not block, so it pushes without a lock
when the lock is taken; messages of one request travel through different lists, and
those of a thread's next request may be read before them;
entries are keyed by thread id but removed by descriptor, and descriptors are
reused; signal handlers run arbitrary code, locks included, on top of main; the
exit path frees everything before the other threads are joined; and the poll
array is edited while it is being scanned.

## Components

| component | state | operations | correct means | modelled in |
|---|---|---|---|---|
| Hand-off lists (`tid_pid_list_ut.c`, `ut/utarray.h`) | four arrays, two mutexes | `add_item_to_list_ut`, `add_item_to_removelist_ut`, `clean_item_list_ut` | every accepted message is handled once, in order, and soon | `Handoff`, `InOrder` |
| Accounting tables (`tid_pid_list_ut.c`) | `tids_ut`, `counters_ut` | add, save, remove by tid, remove by descriptor, save to the database | a row pairs BEGIN and END of one request; none is lost or saved twice | `Accounting` |
| Listener (`mod_performance.c`) | poll array, loop locals | accept, read, hang up, drop | every connection is watched by one slot, read out and taken down; the listener waits in `poll`, and in `read` only over what `poll` did not report | `PollLoop` |
| Threads and exit (`mod_performance.c`, `tid_pid_list_ut.c`) | mutexes, exit flag | the loops, `destroy_tid_pid_ut`, the joins | exclusion, no deadlock, the daemon ends when told to | `DaemonThreads` |
| Handlers and timers (`mod_performance.c`, `timers.c`) | pending signals, timers | alarm, defrag, restart, `gettimeinterval` | handlers do not lock main out; what is due once a day is done once a day | `DaemonThreads`, `DaemonClock` |
| Worker hooks (`mod_performance.c`, `send_info.c`) | `sd_global`, thread key, the process's descriptors | connect, BEGIN, END, close | END travels on its own connection; a missing daemon does no harm | `Worker`; environment of `PollLoop` |
| Parent (`mod_performance.c`) | `daemon_proc`, socket file | start, maint | the file is the daemon's own; a dead daemon is replaced | `DaemonLife` |
| Database adapter (`sql_adapter.c`) | two handles, two locks | connect, reconnect, insert, delete, optimize, queries | reconnects exclude queries; filters, limits and periods select what was asked | `Database` (connections), `Queries` (what is selected) |
| Row filter and measurements (`performance_module_save_to_db`, `math_get_*`, `send_info.c`) | none | stamps, differences, HARD/SOFT minimum time, host filter | a row's figures are those of the request, within the precision claimed | `Measure` (not the readers of /proc) |
| Reports (`reports.c`, `form_page_content`, `custom_report.c`) | parsed templates | a page, a picture, a link, parsing | a page shows what its heading says, all of it, once | `Reports`, `CustomReports` |
| Charts (`chart.c`, `html-sources.c`) | none | bars, pies | every point is in one column, every row in one slice | `Charts` (not legends, colours, HTML) |
| APR lists (`tid_pid_list.c`) | the lists over APR pools | as the hand-off lists | the same | `AprLists` (the lists, not the tables) |
| Configuration, client library, PHP extension, debug, packaging | | | | no |

`PROJECT.json` lists them all with their sources, and under `hazards` every
place in this code that is hard to test, with the properties that watch it.

## Modules

A module models one component; the components meet in the state named above,
so each module takes what the others establish as its environment, or extends
it:

```
 DaemonLife      parent, daemon and socket file
    |   extended by DaemonClock (timers and settings of the daemon), and by
 Worker          threads of httpd: connect, BEGIN, END, close
    |   is the client of
 PollLoop        which messages are read, when a connection is taken down
    |   pushes
 Handoff         one push, access by access, against one pass of the cleaner
    |   (AprLists is what stands here with PerformanceCustomPool Off;
    |    InOrder is what both are to implement)
    |   "a push is one step" (unless straddled)
 Accounting      the lists and the tables, from message to saved row
    |   the same walks, seen from outside
 DaemonThreads   who holds which mutex, signals, exit
    |   the saver's and the handlers' calls
 Database        handles, reconnects and locks of one process
    |   what gets through
 Reports         rows saved and deleted, pages, pictures, links
    extends Measure (figures), Queries (selections; CustomReports), Charts
```

**`Handoff`** has one action per memory access of the `utarray` macros:
`Reserve2`, `Load2` and `Store2` are the parts of `utarray_push_back` on
`list_2_ut`, the two stores in either order because nothing orders them for the
other thread. The cleaner's walk (`Handle2`), its end (`End2`) and the clear
(`Clear2`) are separate too. A push under the mutex is not split. When `realloc`
moves the array under the walk, the walk goes on at any index that it can have.
`straddled` is a history variable: a push without the lock was still going on
when the cleaner released it. **`InOrder`** is what the pair of lists is for: a
channel that is in order until it degrades.

**`AprLists`** is the hand-off that `PerformanceCustomPool Off` selects. A push is
one step, as the race of `Handoff` would be the same; what differs is the walk.
`proceed_list_need` takes an element off the end of the array for every one it
has handled and counts up to the number left (`Handle`, `Pop`). `met`, `before` and
`piled` are history: what this walk found, what had been handled before it, and
whether any walk found two messages. It refines `InOrder` with `exact` being
`~piled`.

**`Accounting`** has the four lists, `tids_ut` (a sequence, as uthash iterates
in insertion order), `counters_ut` and the database (a bag of rows, so that a
row saved twice shows). Of each request there are the `slot` of its connection (`none`,
`open`, `cut` when the descriptor was closed under it, `closed`) and the last message
`got` from it. The listener's end has `Accept` (lowest free
descriptor), `ReadBegin`, `ReadEnd`, `Disconnect`, `TakeDown`, and `NotOpen` for the
POLLNVAL of a connection that was cut. It reads the connections in any order, those
of one thread included, because the scan skips the slot after one it drops: the
BEGIN of a thread's next request may come before the END of the one before, which is
then `overtaken` (history). The cleaner
handles one list element per step; a BEGIN that finds an entry of its thread overwrites
it and closes the descriptor in it (`AddNew`, `Close`), whoever has that number by now.
The saver moves all rows in one step, as it holds
`mutex_counters_ut` throughout. A row's figures are abstracted to the BEGIN and
the END they were computed from. The header of the module states what it
assumes of the workers: a thread finishes one request before it begins the next
(redirects and subrequests are not in it), and no two threads report one tid.

**`PollLoop`** has the poll array with its descriptors and `revents`, the loop
variables `i` and `ret`, the kernel's side of each connection and the clients, whose
requests may be redirected and then leave their connection open.
One action per branch of the loop. `polled` tells a slot that `poll` has written from
one that `Accept` has just appended: the code never sets the `revents` of the latter, and
the memory that `realloc` gives may hold any of the bits the loop looks at, in any
combination (`Garbage`). `reading` is the connection whose message the listener waits for
in `read` (`Block`). Nothing but the other side ends that wait: a signal does not (EINTR is
retried), nor does the cleaner that closes the descriptor in another thread. `queue` is what the
lists hold for the cleaner, and `given` counts the messages that went there. `misled` and `cut`
are history: the connections that were dropped on `revents` that `poll` did not write and no
read confirmed, and those whose descriptor the cleaner closed, as it does with that of an
entry which a second BEGIN overwrites. The memcpy between
overlapping slots is modelled as a move to lower addresses, which is what
it was written for.

**`DaemonLife`** has the current daemon with its stage (`starting`, `bound` or
`unbound`, `listening`, `serving`, `dead`), what the parent is in the middle of
(`starting` after a death or during a restart, `killing` between the unlink and
the kill), and whose file is at the path. `Reap` is `performance_module_maint`
for a death, with the unregistering that it calls itself through; `RestartBegins`
and `RestartKills` are the two halves of a restart that httpd carries out on the
subprocess. `caught` is a history variable: a restart found the daemon before
its `bind`, so the file is removed first and made afterwards.

**`Worker`** extends it by a process of httpd. Each thread is a record: its place
in the request, its locals (reset when dead), and what the code keeps per
thread: `key`, `global` (`sd_global`), `used` (`filter_used`). `fds` says what
each descriptor stands for, `conns` what has been written to each
connection. A request that is redirected and those it is redirected to form a
`chain`, ended by one log hook. While the content is made the handler may run for
subrequests (`Subrequest`), over the same key and `sd_global`; in filter mode with a filter of
their own, which marks itself used and sends no END, because httpd takes the end of
the stream off a subrequest's output before. `Connect` and `Probe` are one turn of the loop of
`connect_to_daemon`; `Outcomes` is what `connect` may answer given the file and the
daemon. `filterMode` is `registered_filter`. `sd_global` is not written without
the filter, which alone reads it.

**`DaemonThreads`** abstracts lists and tables to the number of items a walk
may still meet and keeps who is inside which mutex, who waits, the stack of
handlers on main, which mutexes are destroyed and whether the tables are freed. A round
of main is `BeginRound`, for each slot `BeginRead`, then `ReadFails` or `Try` and `Pushed`, and
`EndRound`; between `BeginRead` and what follows main may wait for as long as the client likes,
since stale `revents` lead it into a read of a connection that has nothing to say.
A lock of a destroyed mutex returns at once, because no caller looks at the
result. Using freed tables may end the process (`Crash`) or not.

**`DaemonClock`** extends `DaemonLife` by the seconds of the day, the timers of the
daemon that serves, and the two settings, which are a time of day, a number of
seconds, or both readings of one text. Every step of `DaemonLife` is one here too;
`Serve` sets the timers, a death drops them. `Tick` lets a second pass unless a
signal would then wait longer than `Lag`.

**`Database`** takes a call of the adapter apart where another thread can come in
between: the read lock and the ping, the write lock and the connect, the handle
given up with no lock held (`Drop`), the look at the handle, the escaping of an insert's
texts, for which MySQL is given the handle with no lock held (`Escape`), the locks, the
query, and what is fetched from the handle afterwards. An insert, and a delete with MySQL, give
`mutex_db` back before they fetch the error (`Release`, `Late`). A handle is `open`, `null`, or
`freed` but not null (`PQfinish` before the pointer is written). Using one that is not
open, or unlocking what nobody holds, is undefined: `bad` names the thread, and the
model stops there. The six calls stand for all, by the order in which they
look at the handle and take the locks. A signal handler that deletes or optimizes is a thread of
its own on top of the one it interrupts (`Beneath`), which does not run meanwhile (`Runs`): it
waits for `mutex_db`, or for the write lock, that its own thread may hold (`SelfLocked`), and
where that thread is reconnecting, its read lock is refused and it goes on without
(`EnterRefused`). The table is created at start-up, by a process without other threads.

**`Queries`** has one operator per query of `sql_adapter.c`: the rows its SQL selects
from the table, grouped, joined and ordered as the text says, and the answers each
kind of database can give (`Answers`: with SQLite rows are shown before an error
is met; the others fetch a stored result). **`CustomReports`** is the scanner of
the administrator's file, token by token. **`Measure`** is the arithmetic from two
readings to a row, with times in units in which the code's division by
`SEC2NANO` is exact. **`Charts`** says which column or slice a figure is put in. The angle of a
slice is computed there as the code does, as a product with a rounded quotient: where the
exact angle is a whole number of degrees the product may be a little larger, and the
angle a degree more. `RoundsUp` are the figures with which it is.
**`Reports`** composes them: `Serve` measures and saves a request, `OtherServer` one of
another server, `Alarm` deletes, `Open` and `Look` show a page or a picture, `List`,
`ReadCount` and `FollowLink` are a user's walk through the listing, whose two queries
and whose pages others can come between. Averages are exact (in twelfths), text is
compared and sorted but not spelled out, and HTML is left out.

The seeded faults in each module (operators commented as such) are the
mistakes that the properties are checked to detect; no specification uses them.

## Runs, bounds and what they show

| run | checks | instance | states |
|---|---|---|---|
| `handoff` | `InOrderUnlessStraddled` `List1HandledOnce` `ImplementsInOrder` `AllHandled` | 4 messages; arrays grow from 1 slot | 53 000 |
| `apr` | `FirstHalfOnly` `ImplementsInOrder` `Drains` | 8 messages | 61 000 |
| `accounting` | `RowsPairOneRequest` `RecordedOnce` `LostOnlyByRemoval` `NoStaleEntries` `EndedIsSaved` | 2 workers, 3 requests, 2 descriptors, read in any order, one worker may die | 726 000 |
| `accounting_loss` | `CompletedIsRecorded` (violated) | one request of each worker | |
| `threads` | `LockOrder` `SomeoneMoves` `EndsOrSelfLocks` | 1 item per walk or round, 2 signals, both handlers, dead processes | 374 000 |
| `threads_dead` | `ExitCompletes` (violated) | alarm handler only; every read returns | |
| `poll` | `WatchedOnce` `ReadOut` `WaitsOnlyIfGarbled` `TakenDown` | 3 connections, 3 descriptors, both requests of a worker may be redirected, the other worker may end, new slots hold anything | 717 000 |
| `life` | `Reachable` `DefragOncePerDay` `ComesBack` `RestartsApart` | 3 daemons, days of 6 seconds, 16 seconds, signals up to 1 second late, 12 pairs of settings, with and without a file left in the way | 1 600 000 |
| `worker` | `KeyIsOwn` `BeginThenEnd` `LeaksOnlyIfRunAgain` `ServedInBoundedSteps` | 2 threads, 2 requests with a subrequest each, 2 descriptors, 2 daemons, both work modes | 3 450 000 |
| `worker_filter` | `MonitoredOnly` (violated) | 3 requests, output filter, no subrequests | |
| `database` | `ConnectAlone` `BadNeedsAnother` `NothingOnlyIfGiven` `CallsReturn` | the start-up, the daemon's saver (2 calls), main and a signal handler (1 each), or two page threads (2 each); the server away twice, MySQL and PgSQL | 135 000 |
| `reports` | `DescNeverSkips` `AscNeverRepeats` `MaximaPerHost` `CountedUnderOwnHost` `BarsShowPoints` `PieIsWhole` `TimesWithinASecond` `ParsedAsWritten` `TrimmedWereInvisible` | 3 rows from 4 different requests, 3 days of 1 second, pages of 1 row, 29 query strings, SQLite and MySQL with and without a host id, a clock set back | 511 000 |

Why the bounds are enough for the cases that matter:

* `handoff`: with four messages there can be one in each list, one being
  pushed and one left over from a pass, and the second array is reallocated
  twice (its first allocation is a constant, 8 in the code; `Block = 1` makes
  the growth happen). What the theorems below prove needs no bound.
* `apr`: eight messages that wait for one walk are halved three times, and odd and even
  numbers occur; what is proved needs no bound.
* `accounting`: a worker with two requests lets an END of the first meet the BEGIN
  of the second, and the BEGIN of the second overtake the END of the first; two descriptors
  for three requests force reuse, so that what an overtaking closes may be a
  connection of the other worker; a dying worker exercises the removal without END. The
  run of the finding gives each worker one request, so that no overtaking is in it.
* `threads`: one item per walk is enough to be inside any table when anything
  else happens; two signals are needed for nesting and there are only two
  handlers. A walk of more items repeats the same lock and unlock, a round of
  more slots the same read and push.
* `poll`: three connections are what the chain drop, skip, reach-the-new-slot needs. With
  three descriptors a new slot is reached by the same scan with whatever its `revents`
  holds. A worker with two redirected requests leaves the listener in a read that never
  ends, or its first connection cut under the second. The descriptors are as many as
  connections, so `accept` fails for want of files in the system only, at any time; what is
  proved needs no bound.
* `life`: three daemons meet every case (a death and a restart in any order, one
  of them caught before `bind`). Days of six seconds hold the times 0, 1, 2 and 5, so
  that midnight lies between and a daemon may start before, at and after each; 16
  seconds are two whole days and more. `Lag = 1` lets a handler run in the next
  second, and across midnight.
* `database`: two threads on one handle are the race; the second failure meets
  the reconnect of the first. Two calls let one find what the other left. A
  handler on top of main, which is in a call of its own, is the lock taken twice; a
  second call of main would be the first again.
* `reports`: with pages of one row, three rows make three pages; two hosts, one
  of which sorts among the labels, and equal and different figures occur in the
  samples, and one request, during which the clock was set back, has a negative time
  and with it no label; History of 1 day of 3 lets rows be deleted while they are paged
  through. The plot has two columns and a pie two colours, so that the last
  column, the first, and the rest slice all occur.
* `worker`: two descriptors for two threads and the rest of httpd are enough for
  none to be left and for a number to be reused by another thread or a file. One
  subrequest for a request is enough for the key to be overwritten before END, and in filter
  mode for a filter that is used before the request's own. The threads are alike
  (`SYMMETRY`). The second daemon is the one whose pid the workers do not know. What is proved
  about `KeyIsOwn` needs no bound.

`CHECK_DEADLOCK FALSE` stands where the system may stop: `Accounting` and
`PollLoop` end when all requests have run, `DaemonClock`, `Database` and `Reports` at
their bounds (and `Database` at a misuse or when a handler locks its own thread out),
`Worker` when its requests have run and leaked every descriptor, and in `DaemonThreads` a thread may
wait for itself with nobody left to run, which is what the runs are about.

What the properties say, and the code they are about, is in the comments above
them. In short: apart from the findings, messages are handed over exactly and in
order, rows are saved once and pair the right messages (unless a later request of the
thread was read first), no descriptor is
watched twice or forgotten (unless its slot began with garbage, or the kernel hands
out a number again while a slot still has it), and the daemon ends when told to (unless a
thread locks itself out or a client keeps its listener in a read).

## Findings

Each of these has a run in which TLC finds the property violated.

* **A finished request can lose its entry** (`accounting_loss`,
  `tid_pid_list_ut.c:248`). END queued for the next pass, its connection's
  remove item handled in this one; or a remove item of an earlier user of the
  descriptor.
* **A dead process stops the cleaner for ever** (`threads_dead`,
  `tid_pid_list_ut.c:408`). `mutex_tid_ut` is locked twice by the sampler. No
  more messages are handled, and the daemon can be told to exit but does not.
* **The output filter leaves a stale key** (`worker_filter`,
  `mod_performance.c:2548`). The filter closes the descriptor, the log hook
  returns early, the number stays under the key. The next request of the thread
  that runs no filter sends END to whoever has the number, and closes it.

Deviations without a run of their own. Most are what a property has to allow for,
and the place where it does is named; the others were met while reading.

*The hand-off*

* A push without the lock can be lost (`tid_pid_list_ut.c:150`): when it spans the
  release of the mutex, the cleaner walks and clears the list under it. This is
  where `Handoff` degrades the channel.
* With `PerformanceCustomPool Off` a walk over n messages throws away half of
  them and handles half of the rest again (`tid_pid_list.c:210`, `FirstHalfOnly`). A
  BEGIN handled again can close the descriptor it came from.
* After a drop the next slot of the poll array is skipped (`mod_performance.c:1601`),
  so messages of one thread on two connections can be reordered: a row may pair the BEGIN of
  one with the END of the other, and a BEGIN may close the descriptor of a connection it has
  nothing to do with (`RowsPairOneRequest`, `LostOnlyByRemoval`).

*Threads and handlers*

* The alarm and the defrag handler both take `mutex_db` and neither masks the other,
  so one on top of the other, or on main's own delete, locks main out
  (`mod_performance.c:1436`). `EndsOrSelfLocks`, `SomeoneMoves` and `CallsReturn` except a
  thread that waits for itself.
* A read that waits for a client is not ended by a signal (`mod_performance.c:513`), so the
  daemon does not end while it lasts (`EndsOrSelfLocks` has that as its premise).

*Database*

* A reconnect that fails leaves no handle for good (`sql_adapter.c:473`), and every
  later row is dropped; `NothingOnlyIfGiven` says that this is the only way.
* The handle is given up with no lock held: another thread may be about to use it
  (`BadNeedsAnother`). So are the escaping of an insert's texts (`sql_adapter.c:841`) and
  the fetch of the error after `mutex_db` was given back (`sql_adapter.c:857`), which can
  meet another thread's query or reconnect (`ConnectAlone`). With PgSQL the reconnect looks
  at `p_db_r` whichever it is about.
* One branch of the maxima query unlocks where it should lock (`sql_adapter.c:1955`).
* Children of httpd share the sessions opened before the fork (`sql_adapter.c:522`).
* A text that is read as a time of day is read as a number of seconds too:
  "24:00:00" is no time of day and means every 24 seconds (`DaemonClock`).

*Figures and pages*

* `send_info.c:118` divides microseconds so that fractions of a second vanish: a
  time is off by up to a second (`TimesWithinASecond`), and so is what
  `PerformanceMinExecTime` is compared with.
* All four pictures of averages per host are drawn from the CPU (`reports.c:855`),
  whatever their titles say (`common.c:440`, `reports.c:864`).
* The first column of a plot is never drawn, as `BarsShowPoints` says.
* A pie may end at 361 degrees, as its angles are products of rounded quotients
  (`chart.c:1068`, `PieIsWhole`).
* The `PAGINATION` of a custom report is parsed and ignored (`custom_report.c`).
* With SQLite and `PerformanceHostId` the pages have no rows.
* A link of the pager loses the end of a filter that contains "page".
* The report by time ranges sorts its headings among the labels: a host that begins
  with a digit may stand behind them (`CountedUnderOwnHost` excepts it).
* With `PerformanceHistory 0` the daily delete takes rows that a page still shows
  (`TrimmedWereInvisible` is about positive histories).

Two more are visible in the properties that allow for them, without a run of their own.
`revents` of an accepted slot is never set (`mod_performance.c:1521`), so the listener can
wait in `read`: `WaitsOnlyIfGarbled` says that this is the only way. It may wait there for
ever, when the connection is that of a request that was redirected (`TakenDown` excepts
this). With POLLHUP or POLLERR alone in that memory it closes a connection of which it has
read nothing (`ReadOut` excepts such connections), and with POLLNVAL it drops the slot of
the connection it has just accepted, and the descriptor stays open and unwatched
(`WatchedOnce` and `TakenDown` except it). And a restart that catches the daemon between
fork and `bind`, or a file that a killed server left under a name without pid, ends with no
daemon at all, since `DAEMON_STARTUP_ERROR` is final: `ComesBack` excepts just these two.

## Fairness

* `Handoff`: both threads run (WF of each), and the cleaner's request for the
  mutex is granted eventually (SF of `Lock`): the listener holds it for one push
  at a time. Nothing makes a message arrive.
* `Accounting`: WF of the cleaner and of the saver, which loop for ever over
  finite lists. Nothing is asked of workers or listener.
* `DaemonThreads`: WF of cleaner and saver and of main's own moves (`MainMoves`): `poll` times
  out after a second, and a round over the array is finite. A read that main is in owes
  nothing, since it depends on the client; `EndsOrSelfLocks` asks instead that main is out of
  it again and again. `threads_dead` adds that every read returns (`ReadFairSpec`), so that its
  counterexample is not one of these. SF of granted
  locks and of handlers, since a mutex is released again and again. Signals,
  process deaths, poll errors and the request to stop may never come.
* `PollLoop`: WF of listener and cleaner, SF of `Accept`, since descriptors and files
  that are short are freed again, and WF of a client that has begun a
  request (it sends what it has to send and closes, or is redirected). Nobody has to connect or to
  end its process, so a connection left by a redirect may stay open for ever, and a
  read of it with it.
* `AprLists`: WF of the cleaner, which makes a pass every 100 ms. Nothing makes a
  message arrive.
* `Database`: WF of each thread's steps as long as no handle has been misused: calls
  into the library return, and a lock that stays free is taken. A thread under a handler
  stands still. WF does not keep a writer from starving while others come and go, so
  `CallsReturn` is about when no more calls are begun.
* `DaemonClock`: the fairness of `DaemonLife`, below, for the same steps. The clock and
  the timers owe nothing.
* `Reports`: none.
* `DaemonLife`: WF of the parent, which polls for dead children and finishes a
  restart, and of the daemon's start, which does not block. Deaths and restarts
  may come or not, up to the bound.
* `Worker`: none. `ServedInBoundedSteps` is an action property: a thread with a
  request can always step, and each of its steps brings it nearer to the end,
  whatever the others do.

## Proofs

All theorems hold for every value of the constants that satisfies the named
assumptions (`HandoffAssumption`, `DaemonAssumption`, `LifeAssumption`,
`WorkerAssumption`, `ClockAssumption`, `DatabaseAssumption`, `ReportsAssumption`,
`QueriesAssumption`, `ChartsAssumption`, `AprAssumption`, `AccountingAssumption`,
`PollAssumption`, `FilesAssumption`), which
say what kind of value each is and, for `Accounting`, that no two threads report one tid.
Of `Charts`, that doubles come out too large for figures that are not zero (`RoundsUp`).
Of `Reports`, that a query string gives numbers and filters (`Query`), that readings
of /proc are counters (`Request`), of which the ticks of a thread do not go back, and
that the order in which the database sorts texts (`Collation`) has a place for the hosts
of the requests, for the labels of execution times and for NULL. Of a file of custom
reports (`WellWritten`), that no name, key or value holds a character that ends it, that
the fields of a report differ, as it is told by its name whether a field is sorted, and
that what a report sorts by are the numbers 1 to 3, those the model has words for.

**`HandoffProofs`** — `TypeCorrect`, `Exclusion`, `InOrderHandling`,
`Refinement`, `List1Once`. The invariant comes in three parts. `Safe` is inductive alone:
types, how far the counts can have got (a pending push has not counted yet),
and who is inside the mutex. `Shape` says where a push without the lock can be
while it has not straddled an unlock: only while the cleaner is in its critical
section, so the cleaner does not touch the list. `Ordered` says which message
each place holds: the handled ones are 1..n, those in the list being walked
continue from n, then the other list, then the one in flight, and nothing is
missing (`Total`). `Shape` and `Ordered` hold only as long as `straddled` is
false; a step can only set it, so each step is proved from a state where it was
false too. `InOrderUnlessStraddled` alone is not inductive: it does not say
what waits in the lists. `Refinement` maps a turn of either walk to `Handle`, a
successful or busy trylock to `Accept`, an unlock that is straddled to
`Degrade`, and everything else to a stutter. `List1Once` holds also when a push
has straddled the unlock: `OnceInv` says that the messages of `list_1_ut` are
distinct, that none of them is in `list_2_ut` and that one being pushed is new, and
what the unlocked push damages is only the other list.

**`AccountingProofs`** — `TypeCorrect`, `OneRequest`, `Once`, `Lost`, `NothingStale`.
The two message lists are read as one `Queue`: the one being walked first, the other behind it. A push
appends to it and a turn of the walk takes its head, whichever lists they use, and
passing from one list to the next changes nothing, because `list_2_ut` is empty
outside the walk (`Drained`). On that queue the invariant is about each worker's line of
requests (`LineInv`). What is queued was read, BEGIN before END (`WasRead`, `Ordered`). A later
request can be ahead of an earlier one in three places: its BEGIN was read while the other's END is to
come (`Behind`), is queued in front of a message of the other (`Passed`), or was handled while
one waits or the entry stands (`Past`); in all of them the other is `overtaken`. A request whose BEGIN
was handled, and whose END is to come or waits, has its entry, as the worker's only one, or has
lost it to a remove item or to an overtaking (`Ready`). So the entry that an END finds by its
tid is that request's own unless one of the two was overtaken. `RowsInv` adds that
all rows differ, in `counters_ut` and in the database together, and carry an END
that was handled; an END is handled once, and of a request whose END was handled no message
and no entry is left (`Done`). With `EndIn` (an END that was read waits or was handled) this is
`NothingStale`.

**`DaemonThreadsProofs`** — `TypeCorrect`, `MutualExclusion`, `OrderedLocking`,
`NoWaitCycle`. The invariant adds to the types where each thread
is: at each stage, which mutexes it can hold and wait for (`MainPlace` and its
companions), and that nobody but handlers on the stack holds `mutex_db` on
main. Exclusion is inductive next to that, because a lock is entered only when
it is free. `OrderedLocking` follows from the places without another induction.
`NoWaitCycle` (of `SomeoneMoves`) is the point of the order: whoever waits in vain waits for a
holder that runs, has locked itself out, or waits for a mutex of a higher rank,
and there are three ranks. So the only deadlocks of this daemon are threads that
lock a mutex twice, which is what `threads_dead` exhibits;
`EndsOrSelfLocks`, the liveness counterpart, is checked by TLC.

**`DaemonLifeProofs`** — `LifeTypeCorrect` and `FileIsOwn` about `DaemonLife`;
`ClockIsLife`, `ReachableByClock`, `DefragIsDaily`, `RestartsAreApart` about
`DaemonClock`; `TypeCorrect`, `KeyOwned`, `BeginsAndEnds`, `LeaksRunAgain`,
`NearsEnd` about `Worker`. `Reachable` is inductive next to the types of `DaemonLife`: a file is
removed only together with leaving the stages in which it matters, and only `Bind`
makes one, when there is none. Every step with a clock is one of `DaemonLife` or a stutter, so
what is proved there holds here. The properties about days do not say where the
timers stand, so they are not inductive. `ClockInv` says it: the defrag timer
aims at the moment whose number among the days' times is one more than the runs
there were (`DefragAims`), the last restart by the clock was at such a moment or up
to `Lag` later (`RestartWas`), and a restart timer aims at a later one
(`RestartAims`). The arithmetic of `gettimeinterval` (the next time of day, today or
tomorrow) is the lemma they rest on.

In `Worker`, `KeyIsOwn` is about the key alone. The invariant adds that the local `sd` is
owned in the same way between `connect` and BEGIN, that no two threads serve the same chain
(so that two descriptors owned by two threads are two), that a thread without a request has
an empty key, and that no output filter is there in log-hook mode. A connection is made on a
free descriptor, and the only close is of an own one (`OwnClosed`), so nobody else's is
lost; writing changes no connection but its log (`SentKeeps`). For `BeginThenEnd` the
invariant also says (`Logs`) that a daemon connected to is there or gone for good
(`PeersWere`, `Past`), that a thread about to send BEGIN has a connection on which nothing
was sent, and that the connection under a key carries BEGIN, unless its daemon was gone
then. A gone daemon does not come back, so END cannot arrive where BEGIN did not.
`LeaksRunAgain` is about both modes, and rests on a second invariant next to the first,
`LeakInv`: every open connection is one that its thread will find, in `sd`, or under the key
and with the filter in `sd_global` too (`Holds`), or one whose thread has connected again
later, after a redirect or for a subrequest (`Superseded`), or, in filter mode, one that a
used filter of a subrequest may keep the log hook from (`Skipped`). That a thread connects
again for nothing else is `Redirects`, that it has its filter by then and is not the
redirect-handler with canonical names `Connects`, and that a filter is used only by a
subrequest or at the end of the content `UsedLate`. A stale number closes descriptors of
others, which can only leave fewer open. `NearsEnd` is the half of `ServedInBoundedSteps`
without ENABLED: eleven steps, and five for each subrequest. It adds that a probe comes
after the first refusal only (`Tried`), so that the two attempts to connect are a bound of
their own.

**`PollLoopProofs`** — `TypeCorrect`, `Watches`, `ReadsOut`, `WaitsByGarbage`. None of
the three properties is inductive. The invariant says where a connection is: in
the backlog or behind one descriptor, never in two places (`Placed`). It counts each
request's messages (`Counts`): those given to the lists and those unread are together
what the client has sent, unless the connection was cut or dropped on garbage or the process
died, and what the daemon does not have any more has nothing unread. Of the read that the
listener waits in it says that it is over the slot being looked at, for the connection behind that
or for one whose descriptor the cleaner has closed meanwhile (`Reads`). Of the array it says
that `l_sock` is the first slot and no other, and that in a slot `poll` has written what hangs up has
something to read (`Shape`), so that a `POLLHUP` is acted on only after a read that failed. As long as
no number came back too soon, slots and open descriptors correspond, but for what garbage
dropped, a slot in which `poll` wrote POLLNVAL is of a closed one (`Watched`), and what is still to be
scanned is as `poll` reported it, where it did (`Current`): nothing can be unread and then not,
except by the slot's own step. Nothing is assumed of what other slots hold. The arithmetic of
a dropped slot, where each one behind it moves down while the index moves on, is in
`OldFacts` and `Dropped`.

**`DatabaseProofs`** — `TypeCorrect`, `ConnectsAlone`, `MisuseNeedsAnother`,
`NothingDoneAccounted`. The invariant says where in a call each thread can be
(`Flow`), which locks it holds there (`Mutexed`; with MySQL `Locked`: the readers
counted are the threads at the places where the read lock is held, the writer is
alone), and what a caller that has looked at the handle knows (with MySQL `Known`):
the handle is still open, or another thread gave it up meanwhile. The escape of an insert and
the late fetch of an error are places where no `mutex_db` is held, and the first holds no lock
at all, so what `ConnectAlone` says is about the other places only; a signal handler whose read
lock was refused is at a handle its own thread connects (`BadNeedsAnother`).

**`ReportsProofs`** — `TypeCorrect`, `TimesAccurate`, `OnlyOldRowsGo`, `NeverSkips`,
`NeverRepeats`, `MaximaRight`, `BarsRight`, `PieRight`, `CountedRight`,
`ParsedAsWrittenHolds`. The first is the invariant of the table, the clock and
the screen. `TimesAccurate` is arithmetic about two stamps; `OnlyOldRowsGo` compares the
days the delete takes with those that any page's period reaches.
The two properties of walks are about what a user has seen and say nothing of what is
still ahead, so they are not inductive; `WalkInvariant` is what they rest on. The rows of
the table differ in their ids and a later id has no earlier moment (`RowsInv`); the
query string of a walk's screen is one that its links make from the first (`WalkInv`).
Where a row stands is its rank among the rows listed (`Rank`), and page n shows the
ranks from (n-1)·`PerPage` to n·`PerPage` (`PageShown`). Newest first (`DescInv`), a row that was
there at the start and could still be shown has been seen, or its rank is behind the page on
the screen and that page has a next one; oldest first (`AscInv`), what has been seen has a
rank no further than the page on the screen. What others do between two
pages (`Around`) can only raise the ranks of rows newest first, because what is deleted or expires is
older than what stays, and only lower them oldest first (`RankGrows`, `AroundSurvive`); a
link that loses the filter adds rows, which raises ranks too. So the one order never
skips and may repeat, and the other never repeats and may skip.
`MaximaRight` is inductive once every figure of every row is a number, none but times
negative (`FiguresInv`),
as a finite set of numbers has a largest one (`Extremes`). That a page sorted by id has
each row once, at the place of its rank, is `ByIds`; it and the lemmas on ranks treat `By` for
every set of rows, by counting the rows below one instead of by induction on the set.
`BarsRight` is about what is drawn. A fold of the community modules is a recursion over
the subsets of a set, and induction over subsets is a lemma here that takes a set in
the place of a predicate (`SubsetInduction`); with it a sum is the same in any order, and of figures
that are not negative it is no less than each (`AnyOrder`, `SumAbove`). The columns of
a plot follow on each other (`ColumnsGrow`), so a second is in one of them (`OneColumn`),
and the highest column is as high as the plot (`ShareOfPlot`). The invariant is that a
bar graph is drawn of such figures (`BarsInv`).
`PieRight` adds that a sum stays the same when what is added is renamed, reordered or
taken in parts (`SumMoved`, `SumReordered`, `SumOfBoth`): sorting the slices and putting
the smallest together loses nothing (`PieSorted`, `PieNormed`), so the last angle is the
whole circle or a degree more (`PieAngles`), whichever products come out too large in doubles
(`DegreesBounds`). The invariant is that a pie is drawn of figures that are not
negative (`PieInv`), which the shares and averages of hosts are (`SharesType`,
`AveragesType`). What sorts rows is treated for any order of them (`Orders`, `Sorted`):
that the keys of a query order its rows needs that names are told apart by their place
(`PlacesDiffer`) and that there is one row for a host.
`CountedRight` counts requests by the row that each is counted in (`Counts`,
`CountsAll`), whatever the order (`RowsCountAll`). The rows of the page by host are those
of requests and one heading for each host, no two alike (`TimesType`); a heading sorts
before its host's rows, and what lies between is of the same host
(`TimesUnderHeading`).
`ParsedAsWrittenHolds` is about the scanner of the administrator's file, for files of any
length. Nothing changes the reports once the server has started (`FromFile`), so what is
left is that `parse_reports` makes of the text of a file what `Describes` says. Induction over texts,
entries and sections is a lemma that takes a set in the place of a predicate
(`SequenceInduction`), and a fold over a sequence is its function applied to one element
after the other (`FoldAppend`); with it each operator of the scanner and of the
description has one lemma for one word, entry or section more (`StripStep` to
`SortedStep`). `Stands` says where the scanner is behind a text: what it reads, what it has
passed of that, and the reports so far. A name, key or value is passed as it stands
(`ScanText`), the character that ends it is one step of each kind (`ScanSection`,
`StoreAt`), and the report this leaves is the one the entries so far describe
(`ItemMore`, `ItemsSection`, `ItemsEntry`). The last value of a text is read but
not stored yet, as either a ";" follows (`BeforeSection`) or the file ends
(`ReadReports`); what the induction over sections and entries carries (`ReadTo`) therefore
says what the reports are once it is.

**`AprListsProofs`** — `TypeCorrect`, `HalfOfEach`, `Refinement`. `FirstHalfOnly` is
inductive next to the types: it already says what is left of the list and how far
the walk can be. For the refinement the invariant says that the messages that wait
are numbered on from the last one handled, those of the list being walked first
(`Numbered`), as long as no walk found two; a walk then has one turn or none.

Only model-checked: every liveness property (`AllHandled`, `Drains`, `EndedIsSaved`,
`EndsOrSelfLocks`, `TakenDown`, `ComesBack`, `CallsReturn`), which the proof system
cannot treat under fairness, and of `ServedInBoundedSteps` that a thread can go on,
which is said with ENABLED.

## What is not modelled

* The readers of /proc, kvm and the CPU frequency: their figures are inputs.
* HTML, legends, colours and wording of pages; `chart_create_polyline`; text of log lines.
* Quoting and escaping of SQL, and loading the client libraries at run time.
* Parsing of the configuration: settings are constants.
* The client library and the PHP extension (one more client of the same socket),
  debug output, packaging and patches.
* The tables over APR pools: they do what `Accounting` says, but visit entries in
  hash order, and the sampler's list of dead threads is handled outside the mutex.

Inside the modules: the internals of `malloc` under a signal handler, partial reads and
writes of one message, POLLERR as an answer of `poll`, which a unix stream socket does not
give here (as garbage it is there), and in `Charts` products of doubles that come out too
small, which the code's rounding up hides as long as sums stay far below 2^53. `Accounting`
has no redirects, subrequests or threads that share a tid; `Worker` has the first two, which
are one to `PollLoop`: a connection that is left. `Database` has no second alarm on top of
the delete that main makes at its start, which is taken to be over within `DELETE_INTERVAL`.
Real time is modelled in `DaemonClock` and `Reports` only; elsewhere an interval may or may
not be over at each round. In `Worker` and `DaemonLife`: `PerformanceBlockedSocket On`,
where `connect` may wait; a `write` that fails although the daemon lives; stopping the
server; failures of `fork`, `chmod` and `chown`; the functions exported to other modules;
MPMs that run the log hook on another thread than the handler; and a subrequest whose output
httpd cannot write, as its filter then sends END at once and another END may follow to a
number already closed.

## Plan

Done, in this order: `InOrder`, `Handoff`, `Accounting`, `PollLoop`, `DaemonThreads`,
`DaemonLife`, `Worker` and the proofs about `Handoff`, `DaemonThreads`, `DaemonLife`
and `Worker`; then `Measure`, `Queries`, `CustomReports`, `Charts`, `Reports` that
composes them, `Database`, `DaemonClock`, `AprLists`, and the proofs about the
last four of these, about `Accounting` and about `PollLoop`.

What is left:

1. `PerformanceBlockedSocket On` in `Worker`: a `connect` that waits, and its timeout.
2. Redirects and subrequests in `Accounting`: a second BEGIN before the END.
3. The tables over APR pools as a second implementation of what `Accounting` promises.
