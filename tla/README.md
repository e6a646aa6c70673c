# A TLA+ model of reqable-mcp

reqable-mcp is a Python daemon that gives an MCP client (Claude Code, Codex)
access to the traffic captured by Reqable. It follows Reqable's LMDB database
into a SQLite cache, answers query tools from the cache, lets a tool wait for
the next capture, and installs rules that a hook script inside Reqable asks for
over a Unix socket and applies to the traffic.

This directory holds TLA+ modules for the parts of it that are hard to test,
TLC configurations that check them on small instances, and proofs that TLAPS
checks. Paths below are relative to the repository; `reqable_mcp/` stands for
`src/reqable_mcp/`.

## 1. The system

| part | code | state | operations | talks to |
|---|---|---|---|---|
| LMDB poller | `sources/lmdb_source.py` | memory cursor `stats.last_seen_ob_id`, last txnid, thread | `start`, `stop`, `_run` (poll, scan, write, announce), `scan_once` | reads Reqable's LMDB, writes the cache, calls `on_new_capture` |
| cache | `db.py`, `schema.sql` | `captures` (uid key, unique `ob_id`), `sync_state` | upsert, cursor get/set, queries | shared by all processes of the user |
| wait queue | `wait_queue.py`, `tools/wait.py` | `_waiters`, each with stamp and event | `add`, `wait`, `notify`, `cancel`, `reap_expired` | `notify` runs on the poller thread, `wait` on a tool's |
| rule engine | `rules.py` | `_rules`, `rules.json` | `add`, `remove`, `clear`, `reap_expired`, `load`, `match_for`, `record_hit` | tools, reaper thread, IPC handlers; the file is shared by all daemons |
| rule tools | `tools/rules.py` | none | eleven installing tools, `auto_token_relay` (two rules), remove, clear | rule engine |
| relay store | `relay.py` | names, values, expiry; 256 names | `set`, `get`, `reap_expired`, `clear` | IPC handlers, reaper |
| dry-run log | `dry_run.py` | 64 rules, 256 entries each | `record`, `fetch`, `clear` | IPC handlers, tools |
| IPC server | `ipc/` | socket path, acceptor, handler list | `start`, `stop`, accept, one request per connection | hook scripts |
| hook script | `hook/template/addons.py` | none between calls: a process per message | `onRequest`, `onResponse`, five IPC calls, 0.3 s each, fail-open | IPC server |
| installer | `hook/install.py`, `hook/deploy.py` | two Reqable config files, backups | plan, apply, uninstall, restore | Reqable's files |
| daemon | `daemon.py`, `__main__.py`, `mcp_server.py` | the parts above, `_started` | `start`, `stop`, `_reap_loop`, IPC dispatch | all |
| proxy guard | `proxy_guard.py` | none | check of environment and system proxy at start | daemon |
| capture tools | `tools/{query,analysis,replay,export}.py` | none | read cached rows, format | cache, body files |
| decoders | `sources/{flatbuffers_reader,objectbox_meta,body_source}.py` | none | bytes to fields | poller |

How they interact. Reqable writes; the poller notices a new transaction id,
walks every record, keeps those above its cursor, writes them and the cursor in
one transaction, and then announces them one by one to the wait queue. The
tools write rules into the engine, which rewrites `rules.json` under its lock.
For each message Reqable starts a hook process; it asks `get_rules`, applies the
rules, stores or fetches relay tokens, and reports hits, each by a call of its
own. A reaper thread drops expired rules and tokens. There is one daemon per MCP
client, and all of a user's daemons share the cache, `rules.json` and the socket
path.

What is hard. Two processes writing one cursor; a crash between commit, memory
cursor and announcement; a transaction id read before the scan it licenses; a
write that fails after the walk; a timeout that strikes between stamp and
return; a clock read before a lock; memory changed before a save that raises; a
tool that needs two saves; a file that every daemon rewrites from its own
memory; a hook that gives up while the daemon goes on. `PROJECT.json` lists each
of these at its line, under "hazards".

What makes each part correct:

- poller and cache: no capture falls behind the cursor unseen; what is announced
  is cached, and announced once; what is captured is announced in the end.
- wait queue: the first match wins, no waiter is leaked, every call returns.
- rules: what was installed survives until it expires, unless a start cannot read
  it; what was revoked never comes back; what has expired goes.
- rule tools: a rule that was accepted and fits the frame can be carried out on
  some message, wholly or not at all; a patch changes what it names and nothing
  else.
- relay: a token is never served past its ttl, nor an older one after a newer one;
  the room an expired one takes comes back.
- hook: a blocked message is not edited, a dry run changes nothing, a hit was
  earned, the token relayed is the server's, and no message stays in its hook
  whatever the daemon does.
- IPC socket: a daemon that is alone can be reached, whatever crash came before
  it; every connection is answered or closed; nothing is left behind.
- installer: Reqable never points to a hook that is not there, the user's other
  scripts survive, what was replaced can be had back.

## 2. Modules

| module | what it is | code |
|---|---|---|
| `CaptureFeed` | abstract: what the synchronisation promises to the tools | - |
| `LmdbSync` | the poller, the cache, the status command, any number of processes | `sources/lmdb_source.py`, `db.py`, `__main__.py` |
| `WaitQueue` | the registry, and calls as processes | `wait_queue.py`, `tools/wait.py` |
| `CaptureWait` | `LmdbSync` and `WaitQueue` composed: one daemon's announcements reach its calls | `daemon.py` start and stop |
| `RuleStore` | rule engine, tools, reaper, `rules.json`, any number of daemons | `rules.py`, `tools/rules.py`, `daemon.py` |
| `TokenRegister` | abstract: a register with deadlines, what a hook takes the relay store for | - |
| `RelayStore` | relay store, its reaper, its loss at a restart | `relay.py`, `daemon.py` |
| `HookTraffic` | hook processes, the calls they make, the daemon behind them; extends `RelayStore` | `hook/template/addons.py`, `daemon.py`, `dry_run.py`, `rules.py` |
| `JsonPath` | the two walks of a dotted path through a JSON body | `hook/template/addons.py` |
| `RuleTools` | what the installing tools and the engine refuse, and what the hook does with the rest | `tools/rules.py`, `rules.py`, `hook/template/addons.py`, `hook/template/reqable.py` |
| `DaemonLife` | start, stop, failure and crash of daemons around one socket path, with connections | `daemon.py`, `__main__.py`, `proxy_guard.py`, `ipc/server.py` |
| `HookInstall` | `install-hook` and `uninstall-hook` beside a Reqable that writes its own files | `hook/install.py`, `hook/deploy.py`, `__main__.py` |
| `*MC` | instances for TLC: filters, messages, rules, proxies, symmetry | - |
| `*_proofs` | theorems, section 4 | - |

### LmdbSync

`lmdb`, `nextOb`, `epoch`, `txnid` are Reqable's side, known only through its
file. `rows` and `cursor` are the cache. `pc[d]` is the next visible effect of a
process: `poll` (the read of `last_txnid`), `begin` (the read transaction),
`walk`, `write`, `notify`, `error`. Each action is what the thread does between
two points where another process, Reqable, or a crash can intervene. The SQLite
transaction is one action: rows and cursor commit together; the move of the
memory cursor follows in the same action, because until then no other process
can observe the difference, and a crash in between is a crash before the next
action as far as the disk goes. `INSERT OR REPLACE` is `Upsert`: a row goes when
a new one takes its `ob_id`. Two records never share a uid, so the replacement
by uid is only that of a row by itself. A record's content is abstracted to what
the scan makes of it (`kind`): stored, skipped, or raising outside the decoder's
`try`. The idle backoff only delays the next poll and is left out. The reader
never sees half a transaction, so `snap` is a set; `TornReads` lets a scan
overtaken by two commits see any subset, which is what `lock=False` permits.
`CommitBatch` of a `status` process ends that process: nothing of it outlives
the scan but the cache.

Also `cmd_status`, whose comment in `__main__.py:63` calls it read-only, is
modelled as what it is: a scan from id 0 that writes rows and cursor.

### WaitQueue and CaptureWait

A call is at `phase[c]`; the lock makes each of `add`, the lookup and the end of
`wait`, `cancel`, `notify` and `reap_expired` one action, and the event wait between
them is not under the lock. `TimeOut` may happen at any time, with the event set or
not: the timeout races the match. `reap_expired` has no caller in the daemon; `Reap`
drops waiters from the lookup of their `wait` on. (Dropped between `add` and the
lookup, a waiter would lose a stamp it may have.) `CaptureWait` lets the poller's
`Notify` of `Server` run `NotifyWaiters` in the same step, as the callback does, and
ends all calls with the daemon.

### RuleStore

A rule is its id, `<<call, half>>`; `expires` is its expiry. `mem[d]` is a
daemon's `_rules`, `file` is `rules.json`. What runs under the engine's lock is
one action with two outcomes, the save succeeding or raising; memory has changed
in both, as in the code. `add` computes the expiry before the lock (`Request`,
`AfterInsert`), `reap_expired` reads the clock before it (`BeginReap`). `match_for`
only reads, and is in `HookTraffic`. `fate` is a history variable: what the callers
of the tools were told. The clock does not run backwards. A failed rollback of
`auto_token_relay` is not modelled: it is for a `ValueError` of the second `add`,
which the tool's validation rules out.

A start reads the file, and may not be able to: `Legible` is all of `rules.json`,
those of its rows that still parse, or nothing when the file is unreadable or of
another shape (`RuleEngine.load` warns and goes on). The daemon then runs without
the rest, whose fate becomes `overlooked`, and its next save writes the file without
it. A file that is not UTF-8 raises out of the start instead (`DaemonLife!Fail`).

### RelayStore and TokenRegister

`set` and `get` read the clock under the store's lock and are one action each;
`reap_expired` reads it before the lock (`BeginReap`, `Reap`), so entries may be
refreshed in between. `Accepts` has what the IPC handler and `set` refuse: a
value too long, a ttl out of range, a new name when the store is full, where
expired entries count. `get` deletes the expired entry it meets. `remove`,
`clear`, `stats` and `list_names` have no caller that changes state.

`TokenRegister` is what the hook relies on: a name holds the token stored last
until its deadline, its replacement or the end of the daemon. It has no cap, no
reaper and no expired entries. `Live` maps the store to it: an entry past its
deadline is no token. Under it `BeginReap`, `Reap` and a refused `Store` are
stutters, and `TokenService`, the abstract specification, is checked as a property
and proved.

### HookTraffic

Reqable runs one hook process per message. A message is a request or, once its
request has left, the response. `Arrive` asks the daemon for the rules; with the
answer the hook has a `Plan`, a set of entries taken in the order `Before`: report
dry-run blocks, abort if there is a real one, otherwise report their hits, apply
the other rules in the order of the two order tables, report their hits, leave.
`step` is the entry the hook is at and `rest` those to come. `CallFor` is the call
an entry makes, if any (`Ask`); `Act` is an entry without one.

A call is a connection. `Handle` is the daemon's handler, `Receive` the reply in
time. `GiveUp` is the 0.3 s timeout, a refused or a reset connection; the call
may still be carried out later (`late`, `HandleLate`), in any order with others.
`Pack` is `_pack_rules_for_ipc` with its sort and its budget: its loop adds a rule
if it fits after those taken before it, and `IsPacked` says just that of the set
the loop ends with, of which there is one (TLC and the lemma `PackIsGood` agree
that there is). `born` is the dictionary's order, on which the stable sorts rely.
`RulesAreValid` is what `RuleEngine.add` has refused otherwise. `RecordDryRun` is
`DryRunLog.record` with both limits. `Crash` resets the connections, empties
relay store and log, and takes the hit counts back to those of the last save,
since `record_hit` does not save. `Install` and `Withdraw` are what the tools and
the reaper do to the engine; `RuleStore` has their inside. What a rule does to
the text of a message is in `RuleTools`.

`Doctored` marks a token read from a response that another rule has already
edited; `TokenIsOriginal` says that no such token reaches the store.

### RuleTools and JsonPath

Each installing tool is an action that takes any arguments a client may send and
ends in a rule or an error; `EngineAccepts` is `RuleEngine.add`. `Effect` is
`_apply_rule` with one operator per kind. A kind that sets more than one thing has
its steps: `Mock` sets code, headers and body in turn, and what raises in between
leaves what was set before (`Raised`), as `_apply_rule` swallows the exception;
`NoHalfApplication` says that no rule the tools accept does. `msg` is the message in
the hook, `todo` the places in `rules` of those still to be applied to it, `Sooner`
the order of the hook's sort, in which rules of one rank stay as the answer has
them: by size, so in any order here.

Of a rule's size the model keeps whether it exceeds the frame by itself (`over`).
`inject_header`, mock headers and the names of parts and relays have no limit; a
text has one, before `json.dumps` escapes its characters. The tools install such a
rule like any other (`Sizes`), and `_pack_rules_for_ipc` leaves it out of every
answer, so no message meets it (`Enter`). Regular expressions are relations:
`PathOf` says which paths a pattern is found in, `SubPattern` what `re.subn` makes
of a text; a pattern outside their domain does not compile. Bodies are texts
(JSON documents or prose), binary, or multipart. `ChangeFile` is what becomes of
the file that a `patch_multipart` rule names after the rule was installed.

`JsonPath` has both walks as the code has them, each a recursive function from the
number of parts behind it to where it is: `Found` for `Extracted`, which reads;
`Cursors` for `Patched`, which creates what is missing and gives up at a scalar in
an array or at an array without the index. `Digits` and `Index` are the code's two
tests of a part: `lstrip("-").isdigit()`, which decides on a new array, and `int()`,
which reads the index; `--1` passes the first only, `+1` the second. The code
changes a document in place; `Built` puts the changed one together from the cursors,
bottom up.

`PatchIsSurgical` compares the document before and after a patch along its path: the
value is at the end, and every container on the way is of the kind it was and has
beside the path (`Aside`) what it had. `AcceptedCanApply` names for each accepted
rule a message (`Fitting`) and says that the rule's side and status bounds let it in
and that applying the rule changes it or stores its token; host, path and method filters
are left aside. Blocks are `HookTraffic`'s. Two kinds of rule are left out as the
caller's own doing (`Vain`): a `patch_multipart` whose file is gone by now, and a
regular expression that changes no text; whether a pattern does is nothing the tools
look into. A third is left out because no hook ever gets it: a rule larger than the
frame (section 3). A `rules.json` edited by hand, whose rules no tool has seen, is
not modelled.

### DaemonLife

`stage[d]` is the last step of `daemon.start` or `stop` that another process can
see, in the order of the code; `Fail` and `Crash` end the process at any of them.
`path` is whose socket the file at the socket path leads to, or `Stale`. Starting
removes what is there (`ClearPath`), binds and listens as three actions, and
stopping unlinks the path whoever bound it (`UnlinkPath`): with overlapping daemons
both go wrong, and the properties say what is left. `conn[h]` is a hook's
connection: queued in the kernel, read by a handler, done or failed; `whole` says
whether its peer ever sends a complete frame. `company` and `orderly` are history
variables for the hypotheses of the properties. Joins with timeouts (`stop` gives
up on handlers and poller) do not block, so the steps that follow do not wait for
what they join.

### HookInstall

One action is one file read, written or copied; `Die` ends a command between any
two. A configuration is kept as who has scripts in it, whether scripts are on and
whose directory `execHome` names. `OpenReqable`, `EditInReqable` and `SaveReqable`
are Reqable, which holds the configuration in memory and writes all of it back.
`raced` records that Reqable ran while a command went on. `Hasty` lets two
commands begin in the same second, which is the resolution of a backup's name.

### Mutants

Definitions whose comment begins with "Mutant of" are slips that a change of the
code could introduce. No specification uses them; they are there to test the
properties (section 6).

## 3. Runs

| run | constants | properties | distinct states |
|---|---|---|---|
| `sync_safety` | 2 processes, 2 captures, failing writes | `TypeOK`, `NoGap`, `AnnouncedIsCached`, `AnnouncedOnce`, `FeedSpec` | 1.0 M |
| `sync_recreate` | 1 process, all kinds of record, torn reads, 2 epochs | `AnnouncedIsCached`, `AnnouncedOnce`, `CursorIsOfARow` | 407 k |
| `sync_badrecord` | 1 process, a record that raises | violates `BadRecordIsSkipped` | - |
| `wait_queue` | 3 calls, 2 captures, a raising matcher | `FirstMatchWins`, `NoWaiterLeaks`, `EveryCallReturns` | 28 k |
| `wait_safety` | 1 daemon, 2 calls, failing writes | `ResultIsCached`, `NoStaleAnnouncement` | 1.2 M |
| `wait_live` | 1 daemon, 1 call, no failures | `EventuallyAnnounced`, `MatchWakesCall` | 80 k |
| `rules` | 1 daemon, a rule and a relay pair, failing saves, loads that may not read the file | `RuleTypeOK`, `SavedSurvives`, `RevokedIsGone`, `InjectHasExtract`, `ExpiredIsReaped` | 170 k |
| `relay` | 2 names, room for one, every class of ttl and value | `TokenService`, `ExpiredEntryLeaves` | 1.7 k |
| `hook` | 2 exchanges, 7 rules, three of them dry, a daemon that crashes | `BlockWins`, `DryRunOnlyWatches`, `HitsAreEarned`, `TokenIsOriginal`, `DryLogIsTrue`, `SmallRulesFirst`, `EveryMessageLeaves` | 390 k |
| `tools` | every tool, 2 rules, 7 messages | `NoHalfApplication`, `AcceptedCanApply`, `PatchIsSurgical`, `PatchReadsBack` | 1.5 M |
| `daemons` | 2 daemons, one strict; 2 hooks; 4 states of the proxies | `AloneIsReachable`, `NothingLeft`, `EveryCallEnds` | 82 k |
| `install` | 3 commands, 1 other script, 2 edits in Reqable | `HookIsThere`, `OthersSurvive`, `ReplacedIsBackedUp` | 1.2 M |

`wait_queue` disables the deadlock check: when every call has returned and every
capture has been announced the model has nothing left to do.

What the runs of the hook and its daemon show, in words. `hook`: whatever calls the
hook gives up on and the daemon carries out later, and wherever the daemon dies, a
request matched by a block rule leaves only if its hook never got the rules, and
then as it came; hits and log entries correspond to messages one by one; a dry
extract, patch or block beside the real ones leaves no trace but its hits and its
log. `tools`: the checks at installation and the code in the hook agree on what can
be done with a rule that gets there. `rules`: whatever saves and loads fail, a rule
is lost only by a load that does not read it. `daemons`: the socket path survives
any crash. `install`: the order "files, then configuration, backups before both" is
safe at every interruption.

### Bounds

Two processes are all an interleaving on cursor and rows needs: the code
distinguishes only "me" and "someone else". Two captures give a batch of two, a
batch that straddles a cursor, a capture that arrives during the scan, and a
status scan that moves the cursor back and forth; epochs matter only as "same id,
other record", for which two suffice. Three calls cover a matching, a
non-matching and a raising waiter of one announcement. For the rules, three ticks
let a rule be installed, be served, expire, and be reaped on a stale clock, and a
rule added late outlives the model, which is a rule without ttl. Three ticks also
leave room for a save that fails and two restarts, with loads that read any part
of the file.

For the relay store one place and two names make the cap bite with a live and with
an expired entry; four ticks let a token be stored, replaced, expire and be reaped
with a stale clock. In `hook` one exchange's token goes to the other's request;
on the first request are a real and a dry block, and on its response, which is
reached when the request's hook fails open, an extract, a patch, a dry extract and
a dry patch, of different sizes, so that `Budget` admits some subsets of them only.
Six are there from the start; the dry patch comes, and the dry extract goes
(`Revocable`), while hooks run; the others stay, so that messages meet them.
`TotalRulesLimit` is one and drops the second dry rule's entries; `PerRuleLimit` is
not exceeded, since a rule meets one message. In `tools` two rules meet on
one message, which is what an order needs, and `auto_token_relay` installs two.
In `daemons`, two daemons overlap in every way, and `Backlog = 1` makes a queue
overflow. In `install`, three commands are install, install again and uninstall;
one other script and two edits let a script come, go and come back.

The proofs of section 4 remove the bounds for the properties they cover. All
bounds are constants used in guards: `MaxOb`, `MaxEpoch`, `MaxTime`, `MaxOffered`,
`MaxClock`, `MaxRules`, `MaxCommands`, `MaxEdits`. `Budget`, `PerRuleLimit`,
`TotalRulesLimit`, `MaxEntries`, `MaxRelayTtl`, `MaxTtl` and `Backlog` are limits of
the code itself at a smaller value. `Hasty = FALSE` in `install`: with two installs
in one second `ReplacedIsBackedUp` is false (see below). `BlocksFit` in
`HookTraffic` assumes that the block rules fit the frame.

### Fairness

`FairSpec` and `CaptureWaitFairSpec` assume weak fairness of the poller thread: it
is a loop whose waits have timeouts, whose reads do not block and whose writes are
bounded by SQLite's busy timeout. `WaitFairSpec` assumes it of a call's thread,
whose event wait has a timeout of 300 s at most. `RuleFairSpec` and
`RelayFairSpec` assume it of the reaper, which waits with a timeout and survives
exceptions. `HookFairSpec` assumes that some hook process that can take a step
does, since each of its waits has a timeout; it assumes nothing of the daemon, so
`EveryMessageLeaves` also covers a daemon that hangs. `LifeFairSpec` assumes that
the threads of a daemon run (acceptor, handlers, and the part of `stop` that ends
them); it does not assume that a hook hangs up. Nothing is assumed of Reqable, of
the clock, of tools, or of writes succeeding.

### What the code does otherwise than it says

`sync_badrecord` checks one statement and finds it violated: `README.md:289` says
that a record that will not decode is skipped. `_project_record` raises outside
the `try`; the walk ends there, and the transaction id is marked as seen. In the
run's trace Reqable writes such a record and then another capture, both still in
the history, and the second is never cached while the daemon runs. The run has
fairness, so it is not stuttering.

Others were met while the models were written; no run checks them. The models
have the steps, and the properties are stated so as not to claim them:

- `checklist.md:67` (in `.spec/reqable-mcp/`, like `spec.md`) promises that a failed
  write is buffered and retried. The batch is dropped and its transaction id marked
  as seen (`lmdb_source.py:250`); it is written only if Reqable commits again.
- `checklist.md:62` promises that a cleared LMDB is detected and synchronised in
  full. Ids at or below the old cursor are skipped for good
  (`lmdb_source.py:149`, `279`).
- `README.md:144`: `wait_for` blocks until the next matching capture. A capture
  older than the call, still above the cursor, is returned too.
- `tools/rules.py:271`: `clear_rules` revokes all rules. A second daemon goes on
  serving its copy, and writes it back with its next save.
- `tools/rules.py:987`: validation closes the window for an orphaned extract rule.
  A crash between the two saves leaves one.
- `tools/rules.py:656`: `patch_body_field` leaves everything else intact. A scalar on
  the way is replaced by a container (`addons.py:229`); `PatchIsSurgical` allows it.
- A `rules.json` that `load` cannot read (`rules.py:251-260`), or a row of it that
  does not parse (`264-268`), is passed over with a warning, and the next save
  overwrites it: rules that had not expired are lost. `SavedSurvives` excepts them.
- `tools/rules.py:362` wants no rule to reach the hook "in a shape it can't apply".
  `inject_header` (`212-217`) and `mock_response` (`501-517`) set no limit to headers;
  a rule larger than the frame is installed, listed, and dropped from every answer
  (`daemon.py:361`). `AcceptedCanApply` excepts it.
- `tools/rules.py:399`: the list of patterns that match everything is not complete;
  `/` is accepted and blocks every path.
- `_pack_rules_for_ipc` says that block rules are always included; beyond some three
  thousand of them they are not (`BlocksFit`).
- `tests/test_hook_install.py:175` says that the backup is the rollback.
  Backups are named by the second (`install.py:173`): two installs within one
  overwrite it. `uninstall_hook` takes the latest `script_environment` backup by an
  mtime that `copy2` preserved (`install.py:268-271`), which after two installs is
  our own file.
- `install.py:188` checks once that Reqable is shut, and `uninstall_hook` not at
  all; a Reqable opened after that loses or reverts changes (`raced`).

## 4. Proofs

All theorems are checked by `tlapm` 1.4.5 with SMT, Zenon and LS4. Each holds for
every value of the constants that satisfies the named assumptions of its module,
and for those stated with it.

`LmdbSync_proofs`:

- `TypeCorrect`: `Spec => []TypeOK`.
- `NoGapHolds`, assuming `~TornReads` and `MaxEpoch = 1` (Reqable's database does
  not start over); otherwise it is false.
- `ImplementsFeed`: `Spec => FeedSpec`, under the same assumptions. `Start`,
  `Poll`, the walk and the error path are stutters; `CommitBatch` is `Store`,
  `Notify` is `Tell`, and the end of a process is `Forgo`.

`NoGap` is not inductive. A commit raises the cursor to the batch's maximum, so
one needs to know that the batch held everything decodable between the cursor and
that maximum (`BatchMissesOnlyNewer`), which follows from the snapshot having
missed only captures newer than all it had (`SnapMissesOnlyNewer`), which in turn
needs ids to grow and to identify captures (`IdsGrow`, `AllWereWritten`). Their
conjunction is `SyncInv`, with one lemma per action.

`LmdbSync_proofs` also has, without any assumption on reads or epochs:

- `AnnouncedIsCachedHolds`, `AnnouncedOnceHolds`, `CursorIsOfARowHolds`.

The invariant is `AnnounceInv`: a database starts over only while nobody has it
open, so whatever a running process holds is of the present epoch (`Current`), in
which ids identify captures (`IdsIdentify`); so `INSERT OR REPLACE` evicts rows of
older epochs at most. `Holds` says where a process's batch lies relative to its
cursor at each stage, and what it has announced.

`CaptureWait_proofs`:

- `ResultIsCachedHolds`, `NoStaleAnnouncementHolds`. A step of the composition is a
  step of the poller or leaves it alone (`StepOfPoller`), so the theorems above hold
  of it; `QueueInv` adds that stamps and results were announced, and after their
  call registered (`HoldsAnnounced`).

`WaitQueue_proofs`: `WaitTypeCorrect`, `FirstMatchWinsHolds`, `NoWaiterLeaksHolds`,
for any calls, captures, filters and raising matchers. `WaitInv` adds that a stamp
is the first capture offered (`StampIsFirst`), that a call which finds its waiter
gone was never stamped (`LostUnstamped`), and that a result is the stamp
(`ResultIsStamp`).

`RuleStore_proofs`:

- `RuleTypeCorrect`: `RuleSpec => []RuleTypeOK`, for any number of daemons.
- `SavedSurvivesHolds`, `RevokedIsGoneHolds`, `InjectHasExtractHolds`, assuming at
  most one daemon (`\A d, e \in Daemons : d = e`), for any number of calls, ttls and
  ticks, with saves that may raise and loads that may read nothing or a part. For
  two daemons they are false (section 3).

The invariant is `RuleInv`: `SavedSurvives` and `RevokedIsGone` with what a save
must not bring in or drop: a rule not yet added is nowhere (`UnbornIsNowhere`,
`TodoIsUnborn`), a daemon that is down remembers nothing (`DownIsBlank`), the
reaper's clock is in the past, so what it drops has expired (`ReapsThePast`), and
the second half of a relay is not begun before the first is saved
(`ExtractFirst`).

`DaemonLife_proofs`, for any number of daemons and hooks: `LifeTypeCorrect`,
`ReadyHandlersHolds` (nothing is read in a daemon whose parts do not exist yet),
`AloneIsReachableHolds`, `NothingLeftHolds`. `LifeInv` says which stages have the
engine (`PartsByStage`), that connections are held by daemons that could have
accepted them (`HeldByDaemon`), what `company` means (`NoCompany`), what the path
leads to for a daemon that has always been alone (`LoneHasPath`), and that without
a crash a path has a living owner or none (`PathIsOwned`).

`HookInstall_proofs`: `InstallTypeCorrect`; `HookIsThereHolds` (the files are there
whenever an entry of ours is in the configuration, in Reqable's memory or about to
be written: `EntryHasFiles`); `OthersSurviveHolds` (what a command has read is what
is there: `Undisturbed`); `ReplacedIsBackedUpHolds`, assuming `Hasty = FALSE`
(`BackupInv`).

`HookTraffic_proofs`, first on the relay store: `RelayTypeCorrect`,
`ReapClockIsPastHolds`, and `ImplementsRegister`: `RelaySpec => TokenService`. The
refinement needs that the reaper's clock is not ahead: what had expired then has
expired now, so `Reap` changes nothing in `Live`. Then on the hooks, for any number of
exchanges and rules:

- `HookTypeCorrect`; `TrafficIsRelay`: `HookSpec => RelaySpec`. Each step of the
  traffic is one of the store's or leaves it alone, so `TokenService` holds of what
  the hooks see, with late calls and crashes.
- `BlockWinsHolds`, `DryRunOnlyWatchesHolds`, `HitsAreEarnedHolds`,
  `TokenIsOriginalHolds`, `DryLogIsTrueHolds`, `SmallRulesFirstHolds`: the six safety
  properties of the run.

The invariant is `HookInv`; a step moves one hook (`Moves`), serves one call or
changes the daemon (`DaemonSteps`), and `HooksStayWell` puts them together.

- `FollowsPlan` says where a hook is in the plan for the answer it got. An entry
  that a hook has left does not come back, and a plan has one entry about a rule
  (`PlanOnce`). So of each report at most one is due: `DryDue` and `HitDue` say
  whether it is still to be made, by the hook or by a late call, and no step makes
  one due that was not (`NeverDueAgain`).
- Hence `LogIsDone` and `HitsAreCounted`: a report that is carried out was due, so
  the message is not in the log yet and has not been counted yet. The count of
  `rules.json` obeys the same bound, so `Crash` keeps it.
- `EffectsAreDue` has what a hook did, and that a rule which edited the message had
  its turn at or after the stage of the entry the hook is at now; `relay_extract`
  comes before all of them, so no token is `Doctored` (`TokensAreServers`).
- `AnswersAreGood` is what is known of an answer: it holds every block rule that
  matched, and of the others the smaller first. It rests on `PackIsGood`, about the
  packing loop: a set that `IsPacked` exists for any finite set of rules, since one
  without the last rule in the order `PackedBefore`, which is total and transitive,
  can be extended by it (a smallest counterexample, `MinimalSet`, stands in for the
  induction); it holds the block rules by `BlocksFit`, as they come first.

`RuleTools_proofs`, for any messages, rules, patterns, documents of any shape and
field paths of any length: `ToolsTypeCorrect`, `NoHalfApplicationHolds`,
`AcceptedCanApplyHolds`, `PatchIsSurgicalHolds`, `PatchReadsBackHolds`.

- The walks first. That the recursive functions `Found`, `Cursors` and `Built` exist
  and obey their equations at every part (`FoundIs`, `CursorsAre`, `BuiltIs`) is
  proved part by part: the lengths up to which there is one include 0 and with each
  length the next, so they are all of `Nat` (`AllNumbers`, from the well-foundedness
  of `<`). What holds at every part of a path is proved the same way.
- Reading what was built goes back through the cursors (`FoundInBuilt`), and the
  cursors are what reading finds, but for new containers where a scalar or nothing
  was (`CursorsFollow`). The two give `PatchedIs`, which is `PatchIsSurgical` and
  `PatchReadsBack` for one patch.
- `ToolsTypeOK` says what each tool lets in: every rule is one of `AcceptedRules`, of
  a side, bounds and an argument that go with its kind. `RuleApplies` takes the
  kinds one by one and shows that each accepted rule applies to its `Fitting`
  message; for a patch that is a chain of nested objects (`ChainIs`,
  `ChainPatched`). So `AcceptedCanApply`, for rules that fit the frame and are not
  `Vain`, rests on the tools' checks alone.
- `LastIsTrue` is what the invariant keeps of the last rule: it is an accepted one,
  without a hit it changed nothing, and a patch that hit left what `Patched` makes
  of the body before. That a mock without a hit changed nothing is no matter of its
  shape: it needs that the headers of an accepted one are a dict (`MockHeaders`).

Only model-checked: the liveness properties (`EventuallyAnnounced`, `MatchWakesCall`,
`EveryCallReturns`, `ExpiredIsReaped`, `ExpiredEntryLeaves`, `EveryMessageLeaves`,
`EveryCallEnds`), which with fairness and `ENABLED` are out of this prover's reach.
`WaitTypeOK`, `RelayTypeOK`, `LifeTypeOK`, `InstallTypeOK`, `HookTypeOK` and
`ToolsTypeOK` are proved and in no run.

## 5. Not modelled

- The byte-level decoders (`flatbuffers_reader`, `objectbox_meta`): their outcome is
  `LmdbSync`'s `kind`.
- The capture tools (query, analysis, replay, export): they read cached rows and
  format them, keep no state, and nothing they do is seen by another process or by
  a later call. Body files and path constants likewise.
- `restore_capture_config`, which nothing outside the tests calls; the environment
  variables that the proxy guard removes, and the parsing of `scutil`.
- Of Reqable's script SDK, all but what the hook uses of it (header assignment and
  lookup, kinds of body, multipart constructors, the setter of the response code).
- The registry of handler threads: dead ones are trimmed only when `accept` times
  out (`ipc/server.py:150`), which costs memory under a steady stream of calls and
  nothing else.
- A failed rollback of `auto_token_relay`, for which validation leaves no cause.
- Two daemons serving hooks at once: each replaces the other's socket
  (`ipc/server.py:94-99`, `131`) and rewrites the other's rules. `DaemonLife` and
  `RuleStore` have the steps; no property is claimed, because the code does nothing
  about it.
- A proxy turned on after the daemon's start, which nothing looks for.

What could follow: a composition of `HookTraffic` with `RuleStore` in place of
`Install` and `Withdraw`.

## 6. Running it

    tlc -workers 2 -config LmdbSync_safety.cfg LmdbSyncMC.tla
    tlc -workers 2 -config HookTraffic.cfg HookTrafficMC.tla
    tlapm HookTraffic_proofs.tla

`PROJECT.json` names the module and configuration of each run, maps each
definition to the lines it models, and lists for each property a mutant: an
operator that replaces a definition by a plausible slip of the code and makes
TLC find the property violated.
