# A TLA+ model of Slurm-web

Slurm-web shows the state of Slurm clusters in a browser. A **gateway** serves
the single-page frontend, authenticates users and proxies requests to one
**agent** per cluster; the agent queries **slurmrestd**, caches answers in Redis
and reads the output and check files of jobs. A job page opens a *live session*:
one WebSocket, relayed by the gateway, on which the agent streams the job's
output, its structured checks, its GPU telemetry and its state.

This directory models the parts of the system that are hardest to test: the live
session, from the job's files to the text on the page, with the polling it falls
back to; the client of slurmrestd, its token and its cache, which the threads of an
agent share; what the agent answers each user from that cache; how the gateway
discovers its agents while requests use them; the polling of the pages; and the
crawler that makes the fixtures of the tests. `PROJECT.json` lists the
components, the runs, the hazards, the theorems, and for every definition the
lines of the source it stands for.

## Inventory

| Component | State | Operations | Hard because |
|---|---|---|---|
| Job output and log channel (`views/agent.py`, `JobPipelineConsole.vue`) | output files; per session: paths of the job, a byte cursor and the last path told per stream, `log_paused`; per page: byte offset and text per stream | subscribe, pause, resume, push a chunk, append a chunk | files grow, start over, or are not there yet while they are read; reconnects with frames in flight |
| Checks (`contrib/slurm-check`, `views/agent.py`) | one event file per task; the session's sequence cursor; the page's list and cursor | append an event, snapshot, push new events | writers on several nodes, read file by file, one cursor for all |
| Gateway relay (`views/gateway.py`, `live.py`) | two sockets, two threads | authenticate, look up, dial, forward, pump, close | either thread may end the other's socket |
| Page socket (`useJobLiveSocket.ts`) | socket, timer, failure count, `ready`, `everReady`, `stopped` | connect, reconnect, fall back, restart, close | timers, late events, job switches |
| Other live channels (`views/agent.py`) | last GPU and job value sent | push when changed | latest value only |
| slurmrestd client (`slurmrestd/`) | discovered versions, adaptation chain, token and its expiration | discover, request, adapt, renew | threads share one client, without a lock |
| Cache (`cache.py`) | Redis values, counters, key sets and totals | get, put, count, reset | several commands each, not atomic together |
| Agent views (`views/agent.py`) | – (the shared cache) | authorize, look up, filter, answer; count nodes and jobs | one cache for users with different rights; elements with several states |
| Gateway agents (`apps/gateway.py`, `views/gateway.py`) | agents known, time of the next refresh | discover, look up, proxy, list clusters | refreshed by requests, in and out of an event loop |
| Fallback transport (`JobPipelineConsole.vue`, `views/agent.py`) | timers, event source, offsets | poll, stream, reset | overlapping and late answers |
| Pollers and getters (`DataPoller.ts`, `DataGetter.ts`) | generation, timer, data | poll, set parameter, stop | answers out of order |
| Crawler of the tests assets (`dev/lib/crawler`) | a development cluster, dumped files, `status.json`, what to clean up | reset, set up, dump, save, clean up | dies or fails anywhere, then runs again over what is left |
| Log parser (`logParser.ts`) | lines, sections, partial line | append, flush, reset | chunks cut anywhere |
| Authentication, stores, router, paging, metrics, commands, views | – | – | sequential or pure |

Correct means, for each: the *log channel* loses, repeats and reorders no byte,
and shows all in the end; the *checks channel* repeats no event, never goes back
and misses none; the *relay* forwards verbatim, ends both sides when one ends and
tells a refusal as a refusal and nothing else as one; the *page socket* keeps one
attempt going, gives up only on a transport that never worked, and does not
retry a refusal; the *client* never answers with data it has not adapted; the
*cache* never serves older data than it promises and its statistics add up; the
*views* show each user exactly what the policy gives; the *agents* look-up never
fails a request for a cluster that is there; the *fallback*, the *pollers* and
the *getters* never show an answer to another question; the *crawler* dumps what a clean
cluster says, with its status; the *parser* gives lines
the numbers they have in the file, wherever the chunks were cut.

## The modules

```
LogFile ── LiveLog ──(implements)── LogDelivery      LiveEndings ─┬─ LiveRelay  ── LiveRelayProofs
              ├─ MCLiveLog ── MCLivePause   (TLC)                 └─ LiveSocket ── LiveSocketProofs
              └─ LiveLogProofs   (TLAPS)             LiveChecks  ── LiveChecksProofs
SlurmrestClient ── SlurmrestClientProofs             GatewayAgents ── GatewayAgentsProofs

TokenRenewal    ─┐            PagePoller    ─┐
CacheStatistics ─┼─ AgentProofs              ├─ PageProofs
AgentViews      ─┤            JobFallback   ─┤       MCParts: the seven modules
ClusterStats    ─┘            AssetsCrawler ─┘                on the left, for TLC
```

### LogFile, LiveLog, LogDelivery

`LogFile` is the world's side: `file[s]` holds the sizes reached by the
generations of the output file of a stream. A generation begins when Slurm opens
the file again, emptying it (a requeue). A byte is told apart by its generation
and position; whether `decode("utf-8", errors="replace")` kept it is in `whole`.
`Look` and `ReadEnd` are `_read_log_chunk`.

`LiveLog` is the whole channel. The session's loop (`JobLiveSession.run`) is
`Turn`: one control frame is handled, or none, and a round of service begins,
refreshing the job when due *and* when Slurm answers. `push_log` then serves the
streams in turn, one action per outcome: merged into stdout, path unknown,
refused, file absent, or looked at (`LookAt`, the `stat`) and read (`ReadOn`, the
`open` and `read`). The two are separate steps, so the file may grow or start
over between them. Frames travel one queue per stream: the page treats the streams
independently and nothing compares frames of different streams. The page's side
is `appendLog` and `togglePause`. `Disconnect` loses everything in flight both
ways and stands for every failure of network, gateway and session, exceptions of
`push_log` included; `Connect` opens a session that starts from what the page
holds. Each connection has one subscribe frame, sent by `onopen`.

`LogDelivery` is what the channel promises: for each stream the page shows bytes
of the file in order, with no gap, and never goes back to an older generation.
It does *not* promise that all bytes on show are of one generation: a file
emptied and written again past the offset is not seen as rotated by
`offset > size`, and the page then shows the new bytes after the old ones. The
promise says exactly that much, by `Faithful`. `EventuallyShown` does ask for one
generation: in the end the page shows all the bytes of the file that is there and none of an
older one, if no file ever grew back unseen to where the reading stood (`Hidden`).
Its other exemption is a channel that is paused because a path was refused.

`MCLivePause` adds a memory for `PauseHolds`: that a session took the user's pause
and the user has not resumed since. No step depends on it.

Two assumptions about Slurm: output paths, once known, stay known (the
accounting record has them too, and the default `acctjob` filter of
`conf/vendor/agent.yml` keeps them), and a job whose output moves to another file
starts it from empty, so that a new path is a new generation. `Lossless` needs the first: for an
unknown path the agent answers offset 0, which the page takes over.

Left out: what `LogModel` makes of the text, the clearing of the view, and
switching jobs (see `LiveSocket`).

### LiveChecks

A process of a task *stamps* an event (`time_ns()`), then *appends* it: two actions, since
slurm-check does them at different times, takes no lock and runs on every node of the
job. Any number of emits are under way at once, of different tasks or of one (every
process of a batch script reports as task 0), and their lines appear in any order.
Numbers are distinct; nothing else is assumed of clocks. The session reads the files
one action each, of each its last `KeptOfFile` lines (2 MB), keeps the `Kept` events of
the highest numbers of what it read (10 000), then sends the snapshot or the events past its
cursor. The page keeps the last event of each check. Its numbers went through
`JSON.parse`: past 2^53 they are multiples of `Grain` (`Rounded`), and so is the cursor it
sends back. A half-written line fails to parse and is skipped, exactly as if it were not written
yet. The `stalled` state a snapshot derives from the clock is display only and left out.

`since` and `late` are history for the properties: the lines that appeared in a file after
this pass over the files had read it, and those that appeared too late for this session, which
had read their file and went past their number (`Missed`), or was past it already. A new session starts
with neither, since its snapshot reads all the files anew. `OnlyLateMissed` says that an event
behind the session's cursor is shown, in flight, late or forgotten; forgotten (`Forgotten`) means that
`KeptOfFile` lines follow it in its file, or that `Kept` events have higher numbers.

### LiveRelay and LiveEndings

`LiveRelay` has the browser, the gateway's request thread (`Request`), its pump
thread (`Pump`) and the agent's handler, one program location each. The two
threads share both WebSocket objects; a location is split wherever the code makes
a call on one: `finish_websocket` is two steps, its error frame (`SendError`) and its close
(`FinishBrowser`), and the pump may send, or close, between them. The library is modelled by how it is used: frames received
are handed out before `ConnectionClosed` is raised; `send` and `close` raise when the
end is known to be closed, which it becomes some time after the peer is gone.

`LiveEndings` lists how a socket may end for the page. It links the two modules:
`LiveRelay` *guarantees* it (`EndingsCovered`) and `LiveSocket` *assumes* it. The request
thread's error and close (4502) and those of the agent that the pump passes on may
interleave, so an end may have the error of one and the code of the other, and frames of the
agent may follow the gateway's error. The page takes them all: `ready` may come after an error.

### LiveSocket

Every handler of the composable is an action; so are the console's mount, unmount
and job switch. The backoff's length is abstracted: a set timer fires in the end.
A socket told to `close()` delivers nothing more, as the HTML standard says, and the
code ignores its close event (`socket !== current`). The branch for browsers
without `WebSocket` is left out.

The code assigns `stopped` at every error frame instead of accumulating it: when
the agent's refusal (4403) is followed by an error frame of the relay (4502), the
second one clears it, and the page retries. `refused` therefore means that the *last* word
was a refusal, and `RefusalIsFinal` claims no more than that.

### SlurmrestClient

One client object serves every request thread of an agent, without a lock. A call
looks in the cache (`Hit`, `Miss`); a call that misses asks the client, which
discovers the API version first if none is known (`Discover`, `PingAnswered`,
`PingRefused`, `Publish`), builds the adaptation chain (`Build`, `SetChain`),
queries (`Query`), adapts (`Adapt`) and stores (`Put`). A step ends wherever the code
reads or writes what another thread may have changed: the version and the chain are two
attributes, and `discover()` reads the version back before it builds the chain. An
answer is told apart by two things only: the version it came in and the chain it was
adapted by; it is right when they match. A wrong chain may also make an adapter
raise, which is no better. The ping view calls `discover()` whatever is known; a
version that is known is not looked for again but its chain is built anew, which is why
`HealedByPings` holds. `Upgrade` changes what slurmrestd serves, so that the
version in use may be refused from then on: the code never looks for another.
Redis may expire a value at any time (`Expire`), which covers every expiration delay.

Left out: the token (`TokenRenewal`), the counters and the age of answers
(`CacheStatistics`), the filtering of fields, and the second query of `job()`, which is
of the same kind as the first.

### TokenRenewal

`headers()` in mode auto, by any number of threads: `Call` looks whether there is a
token, `Generate` sets the expiration, `Store` the token, `Gap` compares the
expiration with the margin of 60 s, `Send` reads the token. The expiration and the token are
two attributes; between the two settings, other threads see the next expiration with
the old token. Times are what is left of them, so that the state is finite; a thread
takes at most `Delay` ticks from one line to the next (without such a bound a thread that sleeps
for a lifespan sends what it read long before, whatever the code does). The local and
static modes set their attributes once.

### CacheStatistics

`_cached()` with `CachingService`: a look-up, a query and a put, then the three
commands of `count_hit()` or `count_miss()`, against the commands of
`reset()`, each command one step. `Fail` and `ResetFails` are a Redis or slurmrestd
failure between two of them. An answer is told apart by its age, which grows while a
thread still holds it. `apart` remembers that a reset ran during a count or that a failure
cut either: then the totals drift from the counters, and a counter whose key
has lost its place in the key set is never deleted by a later reset. `TotalsAgree`
states the sum of the counters of a side as the number of pairs of a key and a number up to its counter
(`InCounters`), which needs no recursion.

### AgentViews

`jobs()`, `job()`, `jobs_past()` and `stats()` with the policy and the cache: what the policy
gives (`Ask`), the shared answer (`LookUp`, `QueryJobs`, `Keep`), and what of it is shown
(`Show`). An answer is the state told of each job. The names of users are compared
in lower case (`Folded`). `jobs()` and `jobs_by_node` choose from the answer kept under
the key of `jobs`. `stats()` calls `jobs()` outside `handle_slurmrestd_errors`, so
that a failure there is a 500 of another form: `ViewFails` covers both. It also covers
a cache that fails when the hit or the miss is counted, after the answer was found or stored.

### ClusterStats

The loops of `resources_states()`, `jobs_states()` and `stats()`, an element at a time:
the order in which states are looked for, the cores and GPU of mixed and allocated nodes, and the sum
of the entries of a gres string. Parsing the string is abstracted to its entries. Two
facts about Slurm are assumed by `StatsAssumption`: allocated and idle cores make the
cores of a node, and a node uses no more GPU than it has. The overview page of
metrics names fewer states of nodes than are exported (`error` and `fail` are not listed
there); nothing depends on it.

### GatewayAgents

The `agents` property and every look-up of it by a request. `Check` compares the time with the
timeout; a thread that finds it over polls all agents (`Polled`, `PollRaises`), replaces the
dictionary (`Store`), then sets the timeout (`Arm`); nothing keeps other threads
from doing the same. `validate_cluster` is `Valid` or `NotFound`;
`job_check_events`, `job_live` and `racksdb` look up once more before the event loop
(`StillThere`, `Gone`); `request_agent` does so inside it (`Ask`, `AskFails`), where a discovery
cannot run. Agents go down, come back, are upgraded, or answer in a way the code does
not expect ("odd"). `moved` and `steady` are history for the properties. A version
is a release number: how two version strings compare, part by part, is abstracted, so the
mixed comparison of numbers and words in `version_greater_or_equal` is not examined.
`outcome` "other release" marks a query sent to the path of a release the agent no
longer runs; it lasts until the next discovery, as `EventuallyAccurate` says.

### PagePoller

`useClusterDataPoller`, in one thread: a step is what runs from an event to the next
await. A loop is its generation; `Poll` is a request out, `Rest` what `start()` does after it,
`Fire` the timer, `SetParam` the three setters. `abort()` marks the requests as cancelled: they end
later, by an error. The `_stop` flag alone would not do, as a restart
clears it while the old request is still out: this is the mutant of `OneLoop`.

### JobFallback

`pollLog()` reads what it asks for before its await and where the answer goes after
it. The module has the polls out at once (`Slots`), the switches of stream and job,
the pause and the clearing of the view. `crossed` remembers that an answer came for
what was no longer shown or asked: nothing in the code drops such an answer, it is
appended to the model shown by then. `ShownAsInFile` says that nothing else goes wrong. It is no
refinement of `LogDelivery` for that reason.

### AssetsCrawler

A run of the crawler over the assets selected of a component: `Crawl` resets the
cluster, the setup makes jobs, nodes down or a reservation step by step, the dumps
write files and record statuses, `Save` writes `status.json`, `Cleanup` undoes
what `_cleanup_state` says. The state is assigned when the whole setup returns: a setup
that raises leaves nothing to undo, and only the next reset, which resumes nodes and
cancels jobs, heals it. `Die` is any exception that is not a `CrawlerError`, or the user.
Each asset of the four components is one record: its outputs, its setup, its dumps;
`SelectionsAssumption` says that `--assets` selects among them, by their names. What
`asset.exists()` tests (the outputs) and what is dumped are two lists in the
code, and they differ for `login` and `metrics` of the gateway, which are therefore crawled
again by every run. Modelling it also showed, outside what is modelled here, that the retry of
`DevelopmentHostClient.exec` does not return its result.

### MCParts

The seven modules above share no state. `MCParts` explores them in one run, one
at a time (`part` says which): its states are the disjoint union of theirs, and
each property constrains the one part it speaks of.

## The runs

| Run | Shows | Bounds |
|---|---|---|
| `live_log` | types, `Lossless`, `CursorsAgree`, implements `LogDelivery`, `EventuallyShown` | stdout of two bytes read one at a time, started over once; stderr of its own, merged, or refused; one lost connection; one control frame queued (260,052 states) |
| `live_log_pause` | *violated*: `PauseHolds` | same; the trace has a pause that was taken and a connection lost after it |
| `live_log_intact` | *violated*: `Intact` | same, with a two-byte character |
| `live_checks` | `DuplicateFree`, `OnlyLateMissed`, `NeverOlder`, `EventuallyCurrent` | two tasks of one check, four events, two lines read of a file and three events kept, numbers rounded to even ones, one lost connection (360,952 states) |
| `live_checks_skipped` | *violated*: `NoEventSkipped` | two tasks, two events, no limit reached, no rounding, no lost connection |
| `live_relay` | `Verbatim`, `EndingsCovered`, `NeverFalselyRefused`, `EventuallyReleased`, `EventuallyEnded` | two control frames, two frames of the agent (79,985 states) |
| `live_relay_refusal` | *violated*: `RefusalReaches` | only the subscribe frame |
| `live_socket` | `OneAttempt`, `NeverGivesUp`, `RefusalIsFinal`, `EventuallyServed` | the real patience of 3, five faults, three jobs |
| `slurmrest_client` | types, `ChainMatches`, `WrongOnlyByRace`, `HealedByPings` | two threads, three versions, two mishaps (bad ping answers and upgrades) |
| `gateway_agents` | types, `FailsOnlyByRefresh`, `SteadyAgentsKnown`, `EventuallyAccurate` | two threads, two agents of which one changes twice, three releases, a timeout of one tick |
| `gateway_clusters` | *violated*: `UnreachableAreLeftOut` | one thread, two agents, one change |
| `parts` | `ExpiredOnlyDuringRenewal`, `ServedFresh`, `TotalsAgree`, `ExactlyTheirJobs`, `CountedOnce`, `OneLoop`, `ShownAsInFile`, `CrawledFromClean`, `StatusOfEveryFile` | token: three threads; cache: two threads, three requests, one reset; views: two threads, three requests, three users of different rights; figures: three nodes of five kinds, three jobs of four; poller: two choices, six polls; fallback: two polls out, two jobs, two changes; crawler: ten selections of assets, two runs |

Why these are enough. A cursor can be wrong in three ways: by a chunk, across a
restart of the file and across a reconnect; one of each, with a second chunk to
fall behind or get ahead by, in every interleaving, has them all, and the proofs
below lift the bounds for the safety part. stderr's own file stays
empty in the run because the streams do not interact beyond the shared pause
and the order of service. Two tasks are what it takes for one file to be read before the other; four events
over two lines of a file and three in all let either limit move past an event the page has not seen,
and let two emits of one task overlap while the other task writes. Numbers rounded to even ones
put the page's cursor above and below what it received. The
relay's threads are finite-state but for the frames: two in each direction are
enough for one to be in each place of the path. Two threads are what a race of the
client takes; three versions let a chain be wrong in both directions, and two mishaps let two discoveries disagree and the version in
use go away afterwards. Five faults are enough to exhaust the
patience, succeed, and fail three times more. Two threads and a timeout of one
tick let one thread discover while another is anywhere in its request and the agents
expire under both; one agent that changes twice goes away and comes back, or
is upgraded past what is known, while the other is the steady one. Three threads
take the token: one renews, one is late, one reads. Three requests
are a miss, an overlapping miss and a hit of what the later put left. Two polls out are
an overlap, two jobs a late answer; two runs of the crawler one that dies and one that
finds what it left, and the selections pair assets that disturb each other.

Three runs turn the deadlock check off: a relay ends, a page may be left polling,
refused or unmounted, and each part of `parts` stops at its bounds. The others run with it on.

Fairness is weak, except where the code itself waits on something recurring:
the page's backoff timer fires (`Connect`, `Timer`), threads and the session's
loop run, a socket delivers what was sent while it is up, the WebSocket ping or TCP tells
an end that its peer is gone. `SF_vars(Turn(TRUE))` says that slurmrestd answers
some refresh of a session that keeps asking. A thread of the agent that
began a call goes on; nobody owes a call, and `HealedByPings` has its pings as its
hypothesis. The gateway's threads run and its clock ticks (`GatewayAgents`): requests keep coming
because the pages poll, and an agent that is asked answers or its connection fails.
Users, jobs, tasks and Slurm owe nothing. The
bound on lost connections is what makes the liveness properties of a lossy network
meaningful: the network works in the end.

### What the violated runs say

* **`PauseHolds`.** A pause is lost on reconnect. In TLC's trace the user pauses, the session
  takes the pause, the connection is lost and the page opens another: `subscribe()` sets `log_paused`
  to false and the page does not repeat its pause. The button shows "paused" and the
  text moves. `live-checks.adoc:83` says that pause holds the stream.
* **`Intact`.** A multi-byte character across the end of a chunk, or read half
  written, becomes U+FFFD on both sides. The offset moves on, so it stays so until
  the page is loaded again.
* **`NoEventSkipped`.** One cursor for all events: one whose line appears after one of a higher
  number was sent is never sent to this session's page. In TLC's trace two events are stamped, the
  second is written first, the snapshot reads one task's file before the first is written to it and
  the other's after, and goes out with the cursor past both. Two processes of one task
  can do the same. `OnlyLateMissed`, which holds, says that nothing else loses events.
  `live-checks.adoc:78` promises a frame per new event.
* **`RefusalReaches`.** When the agent refuses, the request thread, failing to
  forward the subscribe frame, may close the browser's socket with 1000 before the pump
  has passed on 4403. The page then reads a normal close and, unless the error
  frame came first, reconnects. `live-checks.adoc:90` promises the code.
* **`UnreachableAreLeftOut`.** An agent that stopped after it was discovered makes
  `get_cluster()` raise a connection error, and the gathering with it: the user gets an error
  instead of the list of the other clusters, until the next discovery drops the
  agent. The docstrings of `get_cluster` and `get_clusters` (`views/gateway.py:95` and `:134`) say that such
  clusters are filtered out; only those that answer with an error status are.

## The proofs

`LiveLogProofs` proves for **every** read limit, file size, number of generations,
layout of the output paths and number of lost connections (the assumptions of
`LogFile` and `LiveLog`):

* `TypeCorrect`: `Spec => []TypeOK`
* `LosslessAlways`: `Spec => []Lossless`
* `CursorsAlwaysAgree`: `Spec => []CursorsAgree`
* `Implements`: `Spec => DeliverySpec`, the refinement of `LogDelivery`

`Lossless` is not inductive: the page appends what a frame tells it to append, so
one must know that the frame in flight begins where the text ends. The invariant
`IInv` adds what makes it so:

* `Chained`: the frames in flight continue the page's text one after the other,
  and a rotated one begins at 0;
* `ReadsOn`: the session's cursor is where the chain ends;
* `Handshake`: a connection begins with one subscribe frame, carrying the page's
  own offsets, and nothing is sent before it is handled, so the chain is empty
  when the cursor is set;
* `LookIsCurrent`: between the look and the read the cursor does not move;
* `Untouched`, `MergedOnly`, `KnownPaths`: while a path is unknown or merged the
  agent answers offset 0, which is right only because nothing was read of that
  stream; the session knows of the paths nothing or all.

`InitInvariant` and one lemma per action (`...Preserves`) give
`StepPreserves`; `FrameSent` and `AppendedText` are the two facts all rests on:
sending prolongs the chain at its end, receiving consumes it at its start.

`Implements` shows that the page's text and generation make the steps of `LogDelivery` or none.
The abstract page appends bytes that the file has, or starts over on a later
generation: both are facts about the frame that arrives, which the session cut from the file
at some earlier look. `DInv` therefore says of every frame in flight that its bytes are of the
generation it names, as far as that one was written (`Sourced`), and that generations follow
each other in the text and in flight (`InOrder`, `LookIsNewer`); and that a session that has
read of the current generation is not past its end (`Reaches`), so that a file found shorter
than the cursor is a new one. Steps of the files are steps of the abstract file, and the rest
stutters.

`LiveChecksProofs` proves, for any number of tasks, checks, events and emits at once, any limits
of what is read and kept, any rounding and any number of connections lost:

* `NoDuplicates` (`DuplicateFree`), `OnlyLateLost` (`OnlyLateMissed`) and
  `ChecksAdvance` (the action property `NeverOlder`).

Its invariant: numbers are given once (`Stamps`); what either
end holds is the number of an event in the files (`Sources`); nothing is sent before the snapshot
(`Handshake`); a line of a file already read was read, or came since, or is forgotten
(`ReadBack`), and none that came since is shown while a snapshot is
being taken (`SnapshotSees`); the session's cursor is past all it has sent, the snapshot first
(`Ahead`); a snapshot in flight takes nothing back that the agent still has
(`SnapshotKeeps`); and the two properties themselves. `Recent` loses only what `Forgotten` says
(`RecentProperties`), and what is forgotten stays so (`ForgottenStays`). `ReadBack` speaks of one
file at a time, with `since` for what the pass has missed, which is why `NoEventSkipped` fails and
`OnlyLateMissed` holds. No step of the proof looks at what `Rounded` gives: the page's cursor may be
any number.

`LiveRelayProofs` proves, for any number of frames in either direction:

* `RelaysVerbatim` (`Verbatim`): upwards, what the agent heard, what is on its way and what
  the gateway has not received are what the browser said, cut in three (`Upwards`); downwards,
  what the browser was given is what the agent sent, all but what is still with the pump as long as
  the browser's socket is open (`Placed`), with the gateway's own error at one place among them, if it was sent, and at most a
  close at the end, which has a code only if there was an error frame (`Closing`, `Flow`);
* `EndsAsAssumed` (`EndingsCovered`): what `LiveSocket` assumes of the ends of its
  sockets is what the relay does, so that the two models compose for all bounds;
* `RefusedByWord` (`NeverFalselyRefused`): an end with a permanent code is the word of the
  agent or of the gateway (`Ended`, `Stated`), for the agent's last frame is its error
  (`FromAgent`) and its code reaches the pump from no other (`Reasoned`).

`LiveSocketProofs` proves, for every patience and every number of failures and of
jobs shown, `OneAttemptAlways` (`Spec => []OneAttempt`), `NeverGivesUpEver`
(`Spec => []NeverGivesUp`) and `RefusalsAreFinal` (the action property `RefusalIsFinal`).
Its invariant adds to the two properties that the page
shows "fallback" only while it polls (`Shown`: a timer that fires keeps
"reconnecting" on show and turns anything else to "connecting"), and that a console
polls only once mounted (`Polling`). The work is in `ClosedPreserves`, where a
socket that ends leaves a timer, the fallback or a final state, and in
`ShowJobPreserves`, which must drop the timer before it dials. `Final` adds that a
page refused the job it shows is stopped, which no timer or remount undoes.

`SlurmrestClientProofs` proves, for every number of threads, versions and mishaps,
`TypeCorrect`, `ChainAlwaysMatches` (`Spec => []ChainMatches`) and
`WrongOnlyByRaces` (`Spec => WrongOnlyByRace`). The invariant adds that the version in
use was found and none was before (`Known`) and that a thread past the discovery carries a version that
was found (`Carried`): when one version only was ever found, the chain set last and the
answer at hand are both of that version.

`GatewayAgentsProofs` proves, for any threads, agents, releases and timeout:

* `GatewayTypes` (`TypeOK`), with `TypeInv`: what is stored as known is what
  a discovery has got of all agents, so none is still awaited;
* `RefreshesAlone` (`FailsOnlyByRefresh`): the invariant `Reliance` says that a thread for
  which nothing moved still finds its cluster known and the timeout running;
* `SteadyAgentsServed` (`SteadyAgentsKnown`): `Steadiness` says that steady agents are in
  what every discovery has got, and known from the first one on.

`AgentProofs` has the parts of the agent. `ExpiredTokens` rests on a bound for
what may still be left of the token when an expiration is read. `CacheFreshness`
bounds the age and the remaining life of what is stored *together*, so that what is put late
does not last longer. `JobsOfEachUser` says of every answer held or cached, whoever asked, that
it is the whole of a state that was told. `FiguresAddUp` adds to the sums that each
share of cores and GPU is a natural number. `TotalsAddUp` (`TotalsAgree`) needs to know, of
statistics that nothing has set apart (`Together`), that a key is listed before it is
counted, that nothing is counted while a reset runs, and what the reset has done when *n* of its
commands are left (`Cleared`): totals first, then the counters of one list, then
of the other, the lists last. `Remaining` says that the commands left are the last of
`Commands`, so that how many are left says which is next. A count adds one pair to
`InCounters` and a thread to `NotInTotal`, the total takes that thread out: their cardinalities
move together, by the library's facts on finite sets.

`PageProofs` has the page: `OneLoopRuns`, whose invariant ties the generation of each
request out and of each timer to the flag and to `_timeout`, and `FallbackFaithful`, whose invariant says
of every poll out that what it carries are the bytes of its own question.

It also has the crawler of the assets, for any selections of the assets of the four components, any number
of jobs that fill the queue and any number of runs. `CatalogueFits` goes through the assets once:
only `nodes` puts nodes down, only `reservations` books, and does nothing else, and each
response has one file whatever its status but for the login message (`Fits`). `AlwaysFromClean`
(`CrawledFromClean`) then rests on `OnlyOfTheAsset` and `BookedByTheAsset`: what was made since the
reset is of the asset crawled, and its reservation is either the last thing its setup made or is to be
deleted. `StatusesKept` (`StatusOfEveryFile`) rests on `Settled`: memory and files agree at every step, and
`status.json` with them but for the asset being dumped; `MessagesByStatus` covers the two
files of the login message, where a status is recorded for a file that may be there already.

Every safety property that a passing run checks is stated by one of these theorems.
Only model-checked: everything under fairness (`EventuallyShown`,
`EventuallyCurrent`, `EventuallyReleased`, `EventuallyEnded`,
`EventuallyServed`, `HealedByPings`, `EventuallyAccurate`), which is beyond the prover. The
inductive invariants were checked by TLC on the bounds of the runs before they were proved.

## The plan

Modules, most important behaviour first:

1. done: `LogFile`, `LiveLog`, `LogDelivery`, `LiveChecks`, `LiveRelay`,
   `LiveEndings`, `LiveSocket`, `SlurmrestClient`, `TokenRenewal`, `CacheStatistics`,
   `AgentViews`, `ClusterStats`, `GatewayAgents`, `PagePoller`, `JobFallback`,
   `AssetsCrawler`.
2. `LogModel`: lines and sections as a fold over chunks, against the lines of the
   whole text.
3. `LiveStatus`: the gpu and job channels, latest value only; heartbeat and ping.
4. Pure algorithms: comparison of versions, paging of the jobs list.

Theorems: the safety properties of the runs are all proved. Each module added by the
plan brings its own; the lines of `LogModel` need an induction over the text, which is TLC's.

## Not modelled

The parts above that the plan still lists; and, for good: authentication against
LDAP and OpenID Connect (sequential handlers over an identity library), diagnostics and
the conversion of Prometheus answers (stateless conversions of text), the getters of the pages (one
request when mounted; no caller uses their setters), the event source of the fallback
(what it streams twice replaces itself), commands and configuration
(pure I/O), views and charts (layout), the development tools other than the crawler. The 32-thread limit of
a container is not modelled either: it bounds the number of live pages by design;
`EventuallyReleased` shows that each gives its threads back.
