# A verification of the Axor control plane

TLA+ models of the control plane in `packages/`, model-checked with TLC on small
instances, with theorems about the core proved by TLAPS for every instance.
Paths below are relative to the repository; `B/` is
`packages/axor-backend/src/axor_backend/`, `P/` is
`packages/axor-proxy/src/axor_proxy/`, `I/` is
`packages/axor-identity/src/axor_identity/`.

## 1. The system

A *node* is a customer process that runs an AI agent under a governance kernel
(`axor-core`, not in this repository) with an *adapter* that dials out to the
*plane* (`B/`). The plane never dials in. It keeps what operators want of each
node, what each node reports, the event log of every run, and what it derives
from them. A *proxy* (`P/`) sits between an agent and its tools, injects faults
and dispenses credentials. An *identity* service (`I/`) issues tokens. A React
frontend (`frontend/`) shows it all.

The backend is one asyncio process over SQLAlchemy (SQLite or PostgreSQL, at
the database's default isolation: READ COMMITTED on PostgreSQL). Two handlers
interleave at every `await`; each `engine.begin()` block is one transaction.
There are no locks: what is safe is safe by a unique index, by a conditional
UPDATE, or because there is no `await` between two steps. The bus
(`B/broadcast.py`) and the caches live in memory and die with the process; the
tables do not. These three facts — no lock, transactions shorter than handlers,
memory beside tables — are where the hard behaviour comes from, and the models
split handlers exactly there.

### Inventory

| Component | State | Operations | Hard behaviour | Correct when |
|---|---|---|---|---|
| Desired state (`B/plane.py` 66-203, `B/storage.py` 811-997) | `desired_state` row: version, state, commands behind each key | command, cascade leg, consumed (ack), read | optimistic read-modify-write by many handlers; a write signed for one version; acks racing commands; effects after the commit | no accepted write is lost or doubled; a 202 is in the row's history; each signed value keeps its own command |
| Delivery to the node (`B/plane.py` 206-239, `B/broadcast.py`) | topic → queues of 1000 | subscribe, snapshot (two reads), delta, the topic's other messages, overflow, disconnect | write between snapshot and subscription; a queue filled by messages that are no deltas; publish order | no delta falls into a gap; a dropped stream ends; the node accepts the snapshot |
| Event log and live audit stream (`B/routers/runs.py`, `B/storage.py` 550-720) | `events`, `ingest_keys`, `runs`, queues | ingest, publish, replay after Last-Event-ID | at-least-once delivery, duplicates, ceilings, ids committed out of order | a line is stored once, an answered batch is stored, a client receives everything in order |
| Runs, evidence, retention (`B/routers/runs.py`, `B/evidence.py`, `B/limits.py`, `B/storage.py` 1379-1409) | run row, evidence, pin, subgraph cache | ingest, telemetry, derive, pin, cache, drop, prune | derivations that overlap writes; writers that leave the cache; deletes between two transactions; crash before a derivation | an acknowledged claim is audited; a cache is stale for a known reason |
| Telemetry (`B/plane.py` 242-358, `B/monitor.py`) | `reported_state`, `node_activity` | report, fold, page a climb, sweep, claim, page | resends that overtake, slow folds, heartbeat racing a sweep, restart between claim and page | one fold per report, one page per silence, silence noticed |
| Self-heal (`B/plane.py` 576-774, `B/storage.py` 1849-1925) | `heal_attempts`, `probe_reports` | open with a command, close with a report, history | same excision opened twice; two reports closing one attempt; a report from before the cut | each cut has one attempt and keeps its first verdict |
| Facts, attestation, coverage (`B/plane.py` 361-509, `B/attestations.py`, `B/coverage.py`, `B/provenance.py`) | `facts` | append fact, verify, derive | checked in one transaction, appended in another; ids minted again; retention | a fact stops counting only by an attestation that stands and was checked |
| Reputation, topology (`B/plane.py` 799-965, `B/storage.py` 1783-1847) | `reputation_snapshots` | put if newer, closure over session edges | select-then-write race | goes back only where posts overlap |
| Settings (`B/storage.py` 1552-1661) | `settings`: value and revision | get, set, mutate (compare-and-set, 24 passes) | writers of one JSON value | read-modify-write is atomic |
| Vault (`B/vault_creds.py`, `B/vault_dispense.py`, `B/vault_signing.py`, `B/routers/vault.py`) | settings values, audit rows | enrol, rotate, revoke, dispense, seal; create a key, sign, trim and age the log | revocation racing a dispense; two creations of one key; audit before the answer; a log flushed by use | nothing revoked is dispensed; every use is audited; a pinned key stays |
| Notifications (`B/notifications.py`) | subscriptions, last-sent map, task set, dead letters | emit, deliver with retry, drain | cap on work in flight; retry; shutdown | every emission is delivered or buried |
| Licensing (`B/licensing.py`, `B/ee/*`, `B/routers/license_api.py`) | licence set, markers | install, verify, meter, warn, renew | threshold markers racing; renewal racing an install | one warning per threshold; the newest licence stays |
| Corpus and schedule (`B/corpus.py`, `B/lifecycle.py` 288-341) | schedule setting, reports | put schedule, due, report | schedule edited while it runs | one run per period |
| Authentication, tenancy (`B/auth.py`, `B/security.py`, `B/tenancy.py`, `B/routers/keys.py`) | API keys, context variable | resolve, scope, delegate, revoke | delegation, pinned keys | no key grants more than its parent |
| Lifecycle (`B/lifecycle.py`, `B/app.py`) | app.state | boot, rehydrate, background loops, stop | order of start and stop | — |
| Share links (`B/share.py`) | `share_links` | mint, read, revoke | revoked while read | — |
| Replay, traces, Lab files, wrap API, demo, config, migrations | — | translations of formats, plumbing | none of their own | — |
| Proxy run manager (`P/runs.py`, `P/app.py`) | armed runs, call counters, traces | arm, disarm, fault for call, record, submit claim, prune | counters read before an await and written after it | the n-th call, and only it, is faulted |
| Proxy tool route, vault client (`P/app.py`, `P/governed.py`, `P/vault.py`) | governed session, sealed cache | govern, dispense, fault, forward, record | order of the stages, fail closed | nothing is forwarded without a credential it needs |
| Identity (`I/*`) | users, keys, refresh tokens | login, refresh, rotate, revoke | rotation of refresh tokens | a used refresh token is dead |
| Frontend, deployment, site | — | — | not modelled | — |

`PROJECT.json` lists every component with its status and, under `hazards`, each
place where something hard to test happens, with the properties that watch it.

### How the parts interact

`command` writes the desired row, opens a heal attempt when the delta carries
an excision, then publishes the delta on the bus topic `plane/{node}`; the
node's stream forwards it. The node acks one-shots, posts telemetry (which goes
through the same `ingest_events` as a run's own ingest, then folds the last
heartbeat into the reported row, and neither drops a cache nor derives evidence) and posts probe reports (which close the heal
attempts). Ingest publishes each stored row on `run/{run}`, drops the run's
cached subgraphs, and derives evidence when the batch carries the agent's
claim. The stale monitor and telemetry emit to the notifier, which delivers in
the background. Licences, vault credentials, vault keys and schedules are JSON
values in the settings table, so they all rest on `mutate_setting`.

## 2. The models

| Module | Models | State ↔ code | Actions ↔ code |
|---|---|---|---|
| `DesiredRow` | the row, a request, the merge | `state`, `by` = `state_json`, `commands_json` | `Merge` = the merge functions of `bump_desired` and `clear_desired_key` with `_record_commands` |
| `AtomicRegister` | **abstract**: a register written in one step | `reg`, `outcome` | submit, apply, end without a write |
| `DesiredState` | the command channel of one node | `row`; `pc`, `seen`, `tries` are locals of a handler across its awaits; `log` is history | `Receive*`, `Read`, `Write`, `Lose`, `OpenHeal`, `Publish`: one per await of `command`, `cascade_stop`, `consumed`; `Restart` |
| `Broadcast` | one subscriber's queue | `queue`, `listening` | `Put` = `publish` of one message, with the overflow marker; `PutAll` = a handler's loop of them |
| `PlaneStream` | `DesiredState` + `Broadcast` + the node's stream | `link`, `snap`; `node` is the adapter (external); `bus`, `overran` are history | `PublishStep` (a delta), `PublishNotice` (what else goes to `plane/{node}`: `B/plane.py` 345, 487, 626, 831, `B/monitor.py` 82), `Subscribe`, `ReadState`, `YieldSnapshot`, `YieldDelta`, `Disconnect`, `PlaneRestart` |
| `EventLog` | ingest of one run's events | `rows`, `keys`, `nextId`; `own` is an open transaction | `Open` (run row), `Begin`, `Measure`, `Insert`, `Commit`, `Respond`, `Crash` |
| `AuditStream` | `EventLog` + `Broadcast` + a browser | `link`, `backlog`, `delivered`; `received` is the client | `PublishStep`, `Connect`, `Replay`, `YieldReplayed`, `YieldLive`, `Break` |
| `RunViews` | `EventLog` written by both routes (ingest and `POST telemetry`, `B/plane.py` 251-281) + what is derived from it | `cache`, `evidence`, `pinned`; `reader*`, `audit`, `view` are locals; `late`, `silent`, `told`, `outdone`, `met` are history | `Resume` (ingest: drop the cache, derive), `ResumeTelemetry` (neither), `ReadTrace`, `StoreEvidence`, `AskDenial`, `PinRun` = `store_evidence`; `Miss`, `ReadLog`, `CachePut`, `Prune` |
| `Telemetry` | a node's reported row and the stale monitor | `row`, `accepted`, `active`; `prior`, `found`, `mon` are locals | `Ingest`, `ReadPrior`, `SelectRow`, `WriteRow`, `EmitClimb`, `NoteActive`, `InsertActive`, `Answer`; `List`, `Claim`, `Emit` |
| `Heal` | heal attempts and health checks | `attempts` = `heal_attempts`; `todo`, `told` are locals | `Select`, `Insert`, `Post`, `List`, `Close`, `Answer` |
| `Standing` | a node's facts, attestations and reputation (`B/plane.py` 361-509 and 800-846, `B/coverage.py`, `B/attestations.py`) | `recorded` = the run's FACT events, `stored` = `facts`, `held` = `reputation_snapshots`; `stage`/`note` and `step`/`found` are locals; `seen`, `landed`, `raced` are history | `Vet`, `AppendFact`, `TellFact`; `Record`, `PruneRun`; `SelectReputation`, `PutReputation`, `TellReputation`; `Holding` = the facts `coverage` counts, `InEffect` = `covering` |
| `NodeReports` | `Heal` + `Standing` in one process | — | the actions of both, one end |
| `AtomicSetting` | **abstract**: a setting changed in one step | `val`, `outcome` | `Store`, `Refuse`, `Void` |
| `SettingsStore` | one row of `settings` and its writers | `row` (value, revision); `seen`, `tries` | `Read`, `Write`, `Lose`, `Die` |
| `VaultCreds` | one credential, over `AtomicSetting` | `creds`, `sealing`, `audit`; `held` is a local | `CheckSealing`, `ChangeEntry`, `RegisterSealingKey`, `Attest`, `Fetch`, `Audit` |
| `SigningCustody` | signing keys, over `AtomicSetting`, and their log (`B/vault_signing.py`, `B/storage.py` 1994-2077) | `ring` the keys, `custody` the log, `rank` the ids of its rows; `sweep` is the retention pass's locals; `aged`, `trimmed` are history | `CreateKey`, `Sign`, `Append`, `Commit`, `AuditFails`, `Tell`; `SelectKept`, `Trim`, `PruneAudit` |
| `RunManager` | the proxy's armed runs and their traces (`P/runs.py`, `P/recorder.py`) | `armed`, `known`, `counted`, `trace`, per writer of the file | arm, disarm, the fault of a call, append, count, prune |
| `StdioServer` | the stdio-MCP servers a proxy spawned (`P/stdio_mcp.py`) | `queue` is the lock, `ids`, `asked`, `drained` and `owed` the way there, `pipe` the way back; `heard` is history | enter, write, drain, the server's answer, read, give up (time-out, broken pipe), break (a line the reader refuses), a server that ends, close |
| `ToolRoute` | the proxy's routes over both (`P/app.py`, `P/governed.py`, `P/vault.py`) | `tools` = `state.tools`; `pc`/`loc`, `kpc`/`kloc`, `gpc`/`gloc` are locals of calls, claims, registrations (`sent`: what the upstream is shown, each credential under its header); `crossed`, `raced`, `broken` are history | each stretch between two awaits of `tool_route`, `_stdio_dispatch`, `claim`, `mcp_discover` (its handshake may be answered, fail with an `McpError` or break), `_register`, the scripted agent, start and stop of a run |
| `Notifier` | subscriptions and deliveries (`B/notifications.py`, `B/routers/notifications_api.py`) | `rows` the table, `subs` the memory, stamps, `inFlight`, `letters`; `offers`, `gone` are history | subscribe and unsubscribe in their two steps, `Emit`, each attempt of a delivery, `Drain`, `Stops`, `Boots` |
| `Licensing` | one tenant's entitlement (`B/licensing.py`, `B/ee/license.py`) | `stored`, `held`, `marker`; `paste`, `sweep` are locals | verify, store and hold a paste; fetch, store, clear and hold a renewal; look, read, mark and tell a notice; load at boot |
| `Corpus` | pins, schedule and reports (`B/corpus.py`, `B/lifecycle.py` 288-341) | `pins`, `sched`, `reports`; `job` is the loop's locals | pin, put a schedule, fire: pins, rows, report, alarm, stamp; prune a run |
| `Housekeeping` | `Notifier` + `Licensing` + `Corpus` in one process | — | the loops of `B/lifecycle.py`, stop, drain and boot |
| `Sessions` | the identity service (`I/app.py`, `I/storage.py`) | `accounts`, `orgs`, `members`, `tokens`, `signing`; `visits` are requests in hand | every transaction of sign-up, login, refresh, logout, add member; a restart with another signing key |
| `Access` | `Sessions` + the backend's keys and logins (`B/security.py`, `B/identity_client.py`, `B/routers/keys.py`) | `document`, `lastFetch`, `holder`, `keys`, `audit`; `calls` are requests in hand | resolve a credential, refetch the signing keys, mint, log, hand out, revoke |
| `LabExport` | the export of a recorded run (`B/lab_export.py`) | `recorded`, `values`, `reasons`, `package` | the scan of each kind of event; `Convert` |

Common conventions. A step is what the code does between two awaits that reach
the database, the bus or the network; a transaction that only reads, or reads
and writes under one conditional statement, is one step, and one that selects
and then writes is two, because READ COMMITTED (and SQLite's deferred BEGIN)
lets another commit in between. Payloads are reduced to who wrote them (a
request, a line, a report, a check, a call); signatures to whether they are
valid; a process to its identity. Variables marked *history* record what
happened for the properties and are read by no guard, but one: `ReceiveAck`
takes from `log` the values a node can have been given. Definitions named
`Bug*` are seeded faults, each placed before the definition it stands for in a
mutation run; no specification uses one. Each says what plausible mistake it
makes.

Abstract specifications. `DesiredState` implements `AtomicRegister`
(`WritesAreAtomic`) and `SettingsStore` implements `AtomicSetting`
(`ChangesAreAtomic`), each through an `INSTANCE` with a refinement mapping:
both are checked by TLC and proved. `VaultCreds` is then built on the abstract
setting, as the code's module is built on `mutate_setting`: the proof about the
store is what makes that sound. A write the vault makes is one step of
`AtomicSetting`, whatever contention the store met, and so is the creation of a
key in `SigningCustody`. The same holds of the schedule in `Corpus` and of the
license's row in `Licensing`, whose writes are one step each.

Composition. `PlaneStream`, `AuditStream` and `RunViews` extend the module they
watch and add their variables to its actions. `ToolRoute` extends `RunManager`
and instantiates `StdioServer` with its calls as the callers of every server.
`NodeReports` puts the heal
loop beside the node's standing: they share the process, and no row.
`Housekeeping` runs the notifier beside the two loops that speak through it and
gives the three of them one start and one stop. `MCVaultCreds` runs the two sides
of the vault, which the code keeps behind a wall: no state is shared, and it
exercises one at a time. `Access` puts the backend's
credentials beside the service whose tokens they verify.

## 3. What the runs check

Twelve runs, all of which pass; each is exhaustive within its bounds. A
property that is a conjunction is named with its parts.

| Run | Instance and bounds | Properties and what they show |
|---|---|---|
| `DesiredState` | three requests of any kind on a row of two keys; two passes per retried write (12 in the code); versions to 3; requests symmetric | `IInv` (types, `NoLostUpdate`, `CommandsVouch` and what makes them inductive); `AckedIsApplied`: a 202 is in the history at the signed version, a refusal is not, but for an excision without an id; `WritesAreAtomic`: refinement of the atomic register |
| `PlaneStream` | two requests, one message that is no delta, one stream, a queue of two (1000 in the code) | `NothingIsLostSilently` (`NoDeltaIsMissed`: nothing falls between snapshot and queue; `OnlyOvertakenIsNotInForce`: what a 202 promised is in force but where a later version was published before it or an overrun queue gave it up; `OnlyTornIsRefused`; `DroppedIsMarked`); `DroppedStreamEnds`; `EveryRequestIsAnswered`, or is lost with the process |
| `AuditStream` | three batches with four lines under a ceiling of three, a queue of two, one broken connection, one crash, PostgreSQL interleaving | `LogIsFollowed` (`ReceivedInOrder`: each event once and in order; `OnlyOverlapOverflows`: the ceiling is passed only by batches measured together); `EveryGapHasACause`: one of two; `StoredIsDelivered`: all else is, in the end |
| `RunViews` | a claim's batch, its repeat under the same key, an overlapping batch without a key, a batch sent as telemetry; a reader; one crash, one prune | `AnsweredIsKept` (`StoredOnce`; `AnsweredIsStored` until a prune, also by replay after a crash; `OnlyMetIsOrphaned`); `AnsweredClaimIsAudited`: a claim sent to ingest is compared, told of, and its run pinned where it recorded a denial; `CacheFollowsTheLog`: a cached subgraph is stale only by a write that overlapped its derivation, by what telemetry stored since and by what retention deleted; `EveryBatchEnds`: no handler waits for ever |
| `Telemetry` | two reports (rise, fall), three requests, two handlers, two monitors, one crash, clock of two ticks with one tick of allowed silence | `EffectIsOnce` (`FoldedOnce`; `FreshIsFolded`: before the handler that stored it answers; `OnlyCutIsUnfolded`; `OnlyResentGoesBack`); `OnePagePerSilence`; `SilenceIsFlagged` in the end |
| `NodeReports` | three agendas, each with ends of the process: two commands of one cut and one of another, two checks, one end; a run that mints two fact ids, each again after a restart of the node or a prune, and three appends of eight kinds (attestations under their own id and under one the run mints, revocations, one of no run, crossings), appends symmetric; four reputations of three versions | `HealsAreFollowed` (`AnsweredIsTracked`, `AnsweredClosesAll`); `OnlyOverlapDuplicates`; `FirstVerdictStands`; `StandingIsEarned` (`DischargeIsEarned`: no fact stops counting but by an attestation that stands and whose check saw the name; `OnlyLateFactsShadow`; `SurfacesAgree`: level and history disagree only where a late fact took an id; `OnlyOverlapGoesBack`; `NewsIsTold`) |
| `SettingsStore` | three read-modify-writes (one that may refuse) and one set, two passes (24 in the code) | `ChangesAreAtomic`: refinement of the atomic setting, in which giving up takes a competitor for each lost pass; `EveryWriteEnds` |
| `VaultCreds` | two agendas: two enrollments, a rotation, a revocation, a sealing key, dispenses to two nodes; two creations of one key, a signature each of two operators, a log trimmed to one row (100 000 in the code), one tick, any number of ends of the process | `CredentialsAreKept` (`OnlyEnrolmentGrants`, `VersionNamesSecret`, `DispensedIsAudited`: the row is there and names what was handed out; `PlainIsRefusedOnceSealed`); `CustodyIsKept` (`PinnedKeySigns`: the key answered is the key of its id for good; `AnsweredIsOnRecord`; `OnlyAgeOrDepthEvicts`: though ids are given before rows commit) |
| `ToolRoute` | a run with two faults, two calls, one claim, three registrations of two names, the scripted agent, a second run | `CallsAreAccounted` (`TraceTellsTheCall`: every answer has its lines and its count; `FaultsTheNth`); `EvidenceIsOfTheTrace`; `NoCredentialNoCall`: a vault tool's upstream is shown the endpoint's credential and nothing else under its header, whatever the agent sends and though the table is repointed meanwhile, to a stdio server too; `StdioIsOwned` (`OwnAnswer`; `OnlyLostIsOrphaned`: a process is in the table or under registration, or was written over by an overlapping registration, or left by a handshake that broke); `EveryCallIsAnswered`: unless the server it, or one ahead of it, writes to has stopped reading |
| `Housekeeping` | four agendas: two requests about two hooks and another listing of one of them; two events past a cap of one delivery, two attempts, two letters; three licenses, a paste and a renewal over two days; two runs to pin, two schedule writes, two reports over two hours; one restart | `EventsAreAccounted` (`LostIsEvidence`: an event that was due went out, is under way or left a letter; `DebounceIsAWindow`, and never a mute); `MemoryFollowsTable`: between requests every identity with a row has one subscription, with the window of such a row, and no other has; `EntitlementIsKept` (`HeldIsStored`, `OneNoticePerThreshold`); `ReportsAreSound` (`SafeIsEvidence`, `ScheduledOnce`) |
| `Access` | four agendas: people (two users, three tokens), sessions (one user, three tokens, the first may expire), keys (three, minted in order, one request minting and one revoking), rotation (three signing keys, a boot document of two or of the current one) | `OnlyOverlapSplitsALogin`: one live refresh token per login, none after a logout; `FirstRoleStands`; `KeysAreAccounted` (`KeysNarrow`: no key is wider than any of those above it; `UsableIsAudited`: no secret out, and no revocation answered, without its row); `FetchesAreSpaced` |
| `LabExport` | every run of at most four events over two tools that return values, a sink, two value refs and two nodes | `LedgerIsClosed`: every value, parent, binding and plan entry that leaves is in the ledger; `PackageIsFaithful`: names resolve, verdicts are the recorded ones, contents are of the first use; `SourcesAreTheRoots`: of the transitive root, against a recursive reference function |

Why the bounds are enough. A lost update needs two writers; a third makes
retries meet another retry, and two passes are enough to lose, retry and lose
again. A queue of two overflows with the fewest messages that leave something behind
the one it discards, and the code's limit enters the logic only through "full". One crash at every point covers
what a crash can leave behind; a second one repeats it on a smaller problem.
Three batches are the least that give a duplicate in flight and a bystander.
In `AuditStream` the ceiling of three makes the refusal (413) happen; in
`RunViews`, where it would only hide overlaps, it is out of reach.

Bounds that are not numbers, each stated in the MC module that sets it:

- `RunViews`: the telemetry batch meets the first batch of the claim, the reader
  and the prune, and not the repeat, the bystander or a crash (which empties the
  cache that telemetry leaves alone).
- `ToolRoute`: a claim and a registration share nothing and do not meet; a
  second run starts only after the claim on the first was answered, and takes no
  call; the second and third registrations come after the first and meet one
  call at most; a server ends by itself only while a call waits for it; an agent
  that leaves before its request is in is left out; a notification takes a number
  as a request does (in the code only requests are numbered); the
  first call brings one credential and the second two, of two header names, and
  the vault enrolled what the first is given under one of them. The HTTP tool is
  the vault's and can be repointed to a server.
- `Housekeeping`: one *agenda* is exercised in a behaviour, the three parts
  otherwise stay still: they share the notifier and the process, and no row.
  Requests and passes wait for deliveries; the process stops only where it has
  something in hand; midnight comes when the entitlement pass rests, fetches or
  reads; pins are drawn in the order they are stored; after the second write of
  the schedule the second run is no longer pinned `must_block`. Two events are too
  few for the sweep of stamps to drop one that still mutes: `EventsAccounted`
  covers that. The insert and the trim of a dead letter are one step: two that
  overlap on PostgreSQL can leave a letter past the cap until the next. Rows are
  read at a boot in the order they were stored, which the query does not promise;
  only the window of an identity with two rows depends on it.
- `NodeReports`: one agenda in a behaviour, likewise; an end with nothing in hand
  is left out, and there is no limit on the others.
- `Access`: one agenda in a behaviour, likewise. A request refused on entry
  changes nothing and is left out. Visits are symmetric. The log of keys does
  not age, so "has its row" is to be read as "until retention deletes it"
  (`B/lifecycle.py:171`).
- `LabExport`: at most one of the events is refused while it is read, and at
  most one event is of the second node, before any call of the sink. The
  kernel's gate is `egress /\ (tainted \/ sensitive \/ floor)` in the run and a
  parameter in the module and in the proofs. The gate of the kernel reads the
  call's normalized record as well (`B/lab_export.py:761`): the parameter stands
  for it at one such record. A composed value is named by the event and the
  argument; the code joins node, number and argument with underscores (`:301`),
  which tells events apart as long as no node's id imitates another's name. That
  a package replays is a fact about its list of decisions; the driving root and
  the floor are not in a package, so a replay over labels may differ
  (`LabelsExplainDenials`).

Fairness. `PlaneStream`, `AuditStream`, `RunViews`, `SettingsStore` and
`Telemetry` assume weak fairness of the steps of a handler or stream that is
under way: the event loop runs every ready task, and a database statement
returns. The stale monitor and the clock go on (`stale_monitor` loops for as
long as the process lives). The browser's `EventSource` reconnects by itself.
`ToolRoute` assumes that a handler that can run is run and that an HTTP upstream
answers or the caller's time runs out (`httpx` has a limit). A stdio server may
never answer: `asyncio.wait_for` limits the reading of an answer
(`P/stdio_mcp.py:118`), and nothing limits the `drain` before it (`:115`), so
`Drained`, a server that goes on reading, is not assumed to happen. Nor is
an agent assumed to send the rest of its body or to read its answer. No fairness
is assumed of operators, nodes, agents or clients sending anything, of the
network, or of a process restarting. The other runs are safety only.

### Divergences

Places where a docstring, comment or test states something the code does not
keep. Each is a definition of the module named. To see its trace, put it in
the place of the properties of the run's configuration, as an INVARIANT, or as
a PROPERTY where marked (P); TLC then ends with a counterexample.
What *is* kept beside each is a property of the run: most are of the form "only
if the two overlapped".

| Module | Property | What the trace shows | Said at |
|---|---|---|---|
| `DesiredState` | `RefusedIsNotApplied` | a command refused with 400 for an excision without an id was written before the check (`B/plane.py:94` before `:103`) | `B/plane.py:122` "refused rather than delivered and silently untracked" |
| `DesiredState` | `AckClearsWhatWasConsumed` (P) | an ack carries the key alone, and clears a newer command of it | `B/storage.py:852` "nor drop the command" |
| `PlaneStream` | `SignedSnapshotIsAccepted` | state and commands are read in two transactions; an ack between them leaves a key without its command, and the adapter refuses the whole | `B/storage.py:980` "every field of the snapshot" |
| `PlaneStream` | `AcknowledgedIsInForce` | two acknowledged commands published in the opposite order of their versions; the node drops the first | `B/storage.py:824` "the one failure this channel must not have" |
| `PlaneStream` | `ReplayCoversOverflow` | a notice (heartbeat, fact, probe report, reputation, silence) overruns a queue of two deltas: the first is discarded, the node applies the second, and the snapshot after the reconnect is not newer than the node: the command of the first, answered 202, is lost, though published in the order of the versions | `B/broadcast.py:84` "the replay covers the gap including the one message discarded here" |
| `AuditStream` | `ReplayCoversOverflow` | a full queue discards its oldest message and still yields the newer ones, so the cursor is past the hole | `B/broadcast.py:84` "the replay covers the gap" |
| `AuditStream` | `CursorIsComplete` | publishes in the opposite order of the ids: the lower one is below the cursor and never replayed | `B/storage.py:685` "exactly where it stopped" |
| `AuditStream` | `CeilingHolds` | two batches measure the run before either commits | `B/storage.py:596` "must not both measure a run that still fits" |
| `RunViews` | `CacheIsCurrent` | a subgraph derived before a write and put after the write's drop is served from then on | `B/limits.py:177` "dropped when its run grows" |
| `RunViews` | `WritersDropTheCache` | telemetry appends to the run's log (`B/plane.py:266-281`) and does not drop its cached subgraph: it is stale with nothing overlapping | `B/limits.py:181` "The writers call drop_run" |
| `RunViews` | `DeletedIsForgotten` | retention deletes a run and leaves its cached subgraph, which is served from then on | `B/storage.py:1380` "with their events" |
| `RunViews` | `EveryClaimIsAudited` | a claim that arrives in a telemetry batch is stored, answered 202, and no evidence is derived from it | `B/routers/runs.py:58` "finishing a run is when it can be audited" |
| `RunViews` | `NoOrphans` | a prune between an ingest's run row and its events leaves events no later prune selects | `B/storage.py:1380` "with their events" |
| `RunViews` | `EvidenceGrows` (P) | two claims of one run derive at once, and the derivation that read less is stored last (`B/routers/runs.py:60-66`) | — |
| `Telemetry` | `ReplayedHasHappened` | a replay is answered before, or after a crash without, the effects; likewise after two first reports race on the INSERT and the loser's 500 is resent | `B/storage.py:401` "has already happened" |
| `Telemetry` | `ReportedMovesForward` (P) | a slow handler folds an older report after a newer one | `B/plane.py:257` "a level it had already left" |
| `Telemetry` | `FlagIsForThisSilence` | a heartbeat between the sweep's list and its claim is flagged as silent | `B/monitor.py:16` "the two cannot disagree" |
| `Telemetry` | `FlaggedIsPaged` | a restart between claim and page | `B/monitor.py:53` "the same step" |
| `Telemetry` (`Reports = 3`, `MaxSends = 4`, `Monitor = {}`) | `RiseIsPaged` | a climb measured from a level read before another handler lowered it is not paged | `B/plane.py:317` "entitled to be told" |
| `NodeReports` | `OneAttemptPerCut` | SELECT then INSERT without a unique index: two attempts of one cut | `B/storage.py:1855` "Idempotent on excision_id" |
| `NodeReports` | `VerifiedAfterwards` | a check stored before a cut verifies it | `B/plane.py:654` "The FIRST report after a cut" |
| `NodeReports` | `ToldIsRecorded` | the second of two checks is told it verified a cut whose verdict is the first's | `B/plane.py:656` |
| `NodeReports` | `OnlyThePastIsAttested` | a restarted node mints a fact id again, and what vouched for the fact that had it covers the new one; likewise a fact recorded between the check and the append | `B/plane.py:425` "a fact that has not happened yet" |
| `NodeReports` | `RevocationIsHeard` | a revocation that names no run is stored, answered 201, and read by no coverage | `B/attestations.py:101` "a silent no-op, recorded and ignored" |
| `NodeReports` | `NeverWalkedBack` (P) | two posts select the same row; the older is written last | `B/storage.py:1789` "never news" |
| `VaultCreds` | `SealedVaultTakesNoPlaintext` (P) | a plaintext enrollment that looked for a sealing key before one was registered is stored after | `B/vault_creds.py:31` "is REFUSED" |
| `ToolRoute` | `NoOrphan` | two registrations of one name close the same old process; the one overwritten is never closed | `P/app.py:842` |
| `ToolRoute` | `FailureCleansUp` | a handshake that ends in an exception other than `McpError` (a line past 64 KiB, an answer that is no object) leaves its process running: only `McpError` is caught | `P/stdio_mcp.py:171` "with the process cleaned up" |
| `ToolRoute` | `NothingOfTheAgents` | the vault's credential replaces the agent's header of the same name; under another name the agent's own credential goes along | `P/vault.py:53` "is discarded" |
| `ToolRoute` | `RpcTimesOut` (P) | a server that stops reading holds the caller in `drain`, and with the lock all callers behind it, for ever | `P/stdio_mcp.py:123` "rpc timeout after" |
| `ToolRoute` | `GapIsLegible` | a governed call whose fault needs no upstream is recorded without the mark of a gap | `P/app.py:152` "legible rather than implied" |
| `ToolRoute` | `SameBytes` | a line that lands between derivation and upload is in one and not the other | `P/recorder.py:29` "the same bytes" |
| `ToolRoute` (index 0 in `MCFaults`) | `NthCallOnce` | two overlapping calls read the same index and both meet the fault | `P/runs.py:59` "on the Nth call" |
| `Housekeeping` | `OneRowEach` | `["x"]` and `["x", "x"]` are two rows (the table compares the sorted list) and one subscription (memory compares the set); a restart gives it the window of the row stored last | `B/notifications.py:152` "the same identity the store's unique constraint uses" |
| `Housekeeping` | `TasksCapped` | each delivery refused at the cap adds a task that records it | `B/notifications.py:334` |
| `Housekeeping` | `DrainLosesNothing` (P) | the wait at shutdown is shorter than the retries it waits for | `B/lifecycle.py:64` |
| `Housekeeping` | `OneNoticeEver` | a vendor that answers with the license in force clears the mark at each pass | `B/licensing.py:259` |
| `Housekeeping` | `NeverBack` (P) | a renewal fetched before a paste is held after it | `B/licensing.py:342` |
| `Housekeeping` | `PinnedForever` (P) | retention deletes a pinned run and its pin | `B/routers/corpus_api.py:39` |
| `Access` | `SingleUse` | two refreshes read the same token before either revokes it | `I/app.py:168` "single-use" |
| `Access` | `NobodyIsStranded` | a restart between the transactions of a sign-up leaves an email that can neither sign up nor log in | — |
| `Access` | `EveryActIsAudited` | the log's row follows the mint in a transaction of its own | `B/routers/keys.py:22` |
| `Access` | `RotationIsFollowed` (P) | a document of one key never answers "unknown", so its rotation is not followed | `B/identity_client.py:111` |
| `LabExport` | `UntrustedHasASource` | a tainted value returned by a tool whose arguments were trusted has parents, none of them tainted; in the run, where such a log lacks the untrusted source it needs and is refused, a composed tainted value with no live untrusted value | `B/lab_export.py:487` "a soundness bug" |
| `LabExport` | `LabelsExplainDenials` | a denial by the confidentiality floor, or on a recorded root the ledger does not share, is exported all the same | `B/lab_export.py:15` |

Met while modelling, and in no module: with `block_private` a stored webhook
whose host no longer resolves makes the boot fail (`rehydrate` validates it
again, `B/lifecycle.py:157`); the branch "already expired: said once" of
`B/licensing.py:277` cannot be reached; an upstream body that breaks off while it
is read (`P/app.py:560`) ends in a 500 that is counted but has no result line
(`TraceTellsTheCall` says so); a line of more than 64 KiB from a stdio server
raises a `ValueError` nobody catches (`Break` and `HandshakeBreaks`); a second request that waits for the
refetch of the signing keys is answered 401 although the document it waited for
is there.

## 4. What is proved

Eight modules, with no assumption but the named ones of the modules they extend.

`CommandChannel_proofs`, of `DesiredState` first: for every set of requests and
keys, any one-shots, any number of passes, from `NoneAssumption`,
`KeyAssumption` and `BoundAssumption`: `Spec => []IInv`, and from it `TypeOK`, `NoLostUpdate`, `CommandsVouch`,
`AckedIsApplied`, `AtMostOnce`, and `Spec => WritesAreAtomic`.
The properties are not inductive alone: that a conditional UPDATE replaces what
the handler read follows only if "same version" means "same row". `IInv` says so
(`ReadsAreCurrent`: a handler at its UPDATE read a version no newer than the
row's, and if it is the same, it read that very row), and adds the bookkeeping
that makes the rest go through: landed versions are positions of the history
(`LandedIsLogged`), what each stage and each answer imply (`StagesAgree`), every
value in the row comes from a write that landed (`ValuesLanded`). The proof has
a lemma per action; `WriteStep`, where everything moves, is split by conjunct.
The refinement maps the row to the register and a request to `new`, `open`,
`applied` or `void`; `Write` is the atomic step, and all else ends a request
without one or stutters.

Then of `PlaneStream`, with `QueueAssumption`: `StreamSpec =>
[]NothingIsLostSilently`, for every capacity of the queue and any number of
disconnects and restarts. The invariant, `StreamInv`, says where each published
delta is. While the bus keeps the stream, its queue is the end of what was
published, and all before that was yielded or is in the snapshot
(`QueueIsTheEnd`); once it has dropped it, the queue ends in the marker and is
what came before the message that was one too many, of which exactly one, the
first in the queue at that moment, was given up (`DroppedAt`). What the stream
has read is the row as it was at that version (`SnapIsTheRow`), and the node
holds the last write up to the version it has applied (`NodeFollows`), but for
a write that was published after a newer one (`Passed`), that an overrun queue
gave up (`GivenUp`), or that its next snapshot will bring (`Behind`). What is
given up is lost for good where a newer delta stood behind it in the queue and
what overran the queue was older than that one, or no delta at all: the node
applies the newer one, and the snapshot is then no newer than the node. With
the topic's other messages two requests are enough for it. The property excepts
it by name and `ReplayCoversOverflow` is among the divergences.

`RunEvidence_proofs`, of `RunViews`: for every set of batches, lines, keys and claims, any ceiling,
either database, any number of crashes and prunes, from `LogAssumption` and
`ViewAssumption`: `ViewsSpec => []IInv`, and from it `[]AnsweredIsKept`,
`[]CacheFollowsTheLog` and `[]AnsweredClaimIsAudited`. That a line is stored once
is inductive only with what the unique index guarantees of open transactions:
`OpenIsApart` says that what one has inserted is in nobody else's hands and not
in the log. `AcceptedIsWhole` ties a batch's key, its commit and its answer to
its lines; `EvidenceCovers`
and `TraceIsWhole` do the same for what is derived. `CacheFollowsTheLog` is
inductive as it stands: each way to change the log names the lines by which the
cache may differ from then on.
`OnlyMetIsOrphaned` has an invariant of its own, `RunIsThere`. The run has one
claim and its repeat; the proof found that with two claims the evidence can lose
lines again, which is why the property speaks of `outdone` and why
`EvidenceGrows` is among the divergences.

Of `AuditStream`: for every set of batches, lines and keys, any ceiling, any
capacity of the queue, any number of crashes and broken connections, from
`StreamAssumption` and `QueueAssumption` besides: `AuditSpec => []LogIsFollowed`
and `[]EveryGapHasACause`. That a gap has a cause is not a fact about the
client's past alone. The ids that can still turn up below the cursor are those of
committed rows and of open transactions (`Held`); the invariant accounts for each
of them wherever the stream may move its cursor next: below the cursor it is
settled (`PassedIsSettled`), below a queued message settled, queued before it or
still in the replay (`QueueIsComplete`), below a replayed row settled or replayed
before it (`BacklogIsComplete`); and what was published is settled or coming, as
long as the bus keeps the stream (`PublishedIsComing`). A row inserted later has
a higher id than all of these, so a step of the log disturbs nothing
(`PartsKept`). `LogCore`, what the handlers keep whoever else writes the tables,
is shared with `RunViews`. The ceiling needs `RoomInv`: the room a batch was
measured for is still there when it commits, unless another was measured while it
was open. That `PutAll` is one `Put` after the other is a lemma of its own
(`PutAllIsPut`: nothing for no message, one `Put` more for one message more).

Of `LabExport`: for every recorded run over any events, refs, tools and
arguments, and whatever the gate decides, from `EventsAssumption`:
`Spec => []LedgerIsClosed`, `[]PackageIsFaithful` and `[]SourcesAreTheRoots`.
The ledger's invariant is inductive as it stands: values are only
added, an event is numbered past all of them, and a binding that does not
resolve left a reason, which is never withdrawn, so such a run is refused.
For the package, `PlanIsPaired` says that the plan holds each call in its place,
as an intent and the decision right after it; `CallsAreJudged` that, while nothing
is held against the run, the n-th recorded call is the n-th call; and
`ContentIsFirstUse` that a value has the content of its first use, and one that
is not there yet was not used. The conversion reads the package off those three.
It needs that a recorded ref is never one the converter mints (`m_node_seq_arg`
in the code), which `EventsAssumption` states. `SourcesAreTheRoots` compares the
walk of `_origin_sources`, as the least set it can have seen, with a function
that is recursive over the ledger. No induction is needed for it: the walk
satisfies the function's equation (`SourcesOfAValue`), so the function exists, and
of the values on which two solutions disagree none is the earliest.

`Telemetry_proofs`, for every number of reports, requests, handlers, monitors and
crashes, from `TelemetryAssumption`: `Spec => []IInv`, `[]EffectIsOnce` and
`[]OnePagePerSilence`. A stored report has one handler that stored it
(`StoredByOne`), and it is in that hand until it is folded, or its handler was
cut; the node sends nothing newer than what it has an answer for
(`AckedIsAnswered`). Beats of the row are as many as the folds (`BeatsAreFolds`,
a cardinality), and a silence that no monitor has claimed was not paged
(`UnflaggedIsUnpaged`).

`NodeReports_proofs`, of `Heal`: for every set of commands and checks and any naming of the cuts,
from `HealAssumption`: `Spec => []IInv`, `[]HealsAreFollowed`,
`[]OnlyOverlapDuplicates` and `Spec => FirstVerdictStands`. An attempt is never
removed and keeps its cut; `KnownExist` and `OpenIsListed` say that what a
check has read of the list stays true of the table in the direction that
matters, and `InsertIsFirst` that a command which found no open attempt and is
about to insert one is the only one of its cut, or overlaps another.

Of `Standing`: for every set of runs, facts, appends, bodies and posts and
any number of recordings, from `StandingAssumption`: `StandingSpec =>
[]EarnedInv` and `[]StandingIsEarned`. What the conclusion rests on: an append past its check saw
every id it covers, and not its own (`VettedIsSeen`), rows of the log have ids of
their own (`RowsAreApart`, the primary key), a post holds a row older than what it
carries (`FoundIsOlder`), and two that landed with one version did so over each
other (`LandedApart`). That the two surfaces agree is then a fact about the folds
over any state with those parts. Of `NodeReports`: every step of the process that
serves both is a step, or a stutter, of each, so it keeps the promises of both
(`ReportsKeepBoth`).

`Vault_proofs`, of `VaultCreds`: for every set of requests, nodes and secrets, from
`VaultAssumption`: `Spec => []IInv`, `[]HandedOutRightly`,
`[]PlainIsRefusedOnceSealed` and so `[]CredentialsAreKept`. `HandIsBehind` says that what a dispense holds is a
version that was current; `GrantsAreOwed` that a grant in the entry traces to an
enrolment; the rest follows the request from stage to stage (`StagesFit`).

Of `SigningCustody`: for every set of keys, orders and operators, any depth and
age of the log, any sweeps and any ends of the process, from
`CustodyAssumption`: `CustodySpec => []CustodyIsKept`. The trim names the id from
which on it keeps rows, and deletes later: `TrimIsSafe` says that the rows it
spares are still as many as the log is to keep, which holds because rows are
only added meanwhile and ids, though given before a row commits, are not given
twice (`RowsOnlyGrow`, a fact about cardinalities). `ToldIsDone` says that what
is about to be answered is stored.

`Access_proofs`, for every set of people, visits, keys, calls and nodes and any
restarts of either service, from `AccessAssumption`:
`Spec => []OnlyOverlapSplitsALogin`, `FirstRoleStands`, `[]KeysAreAccounted` and
`[]FetchesAreSpaced`. A login that no two requests raced for has one carrier: a
live refresh token, or the refresh that has revoked it and has yet to issue the
next (`OneCarrier`). That a role stands needs that nobody is a member, or speaks
for an organization, before its founder is its owner (`FoundersFirst`), and that
one sign-up of an email gets past its insert (`OneFounder`). That no key is
wider than any key above it follows, however long the chain, from one link: what
a stored key is, and what the key that minted it was, stay as they were minted
(`KeysFit`), and a call holds the row its key was resolved to (`CallFits`).

`ToolRoute_proofs`, for every set of runs, tools, calls, claims, registrations,
HTTP and stdio upstreams, any faults, any lists of offered tools and any headers
the agents send, from `FaultsAssumption`, `WritersAssumption`,
`UpstreamsAssumption` and `HeadersAssumption`:
`Spec => []CallsAreAccounted`, `[]EvidenceIsOfTheTrace`, `[]NoCredentialNoCall`
and `[]StdioIsOwned`, all four safety invariants of the run. The many
stretches of the route are first shown to be six moves of one call (`CallMoves`:
it resolves, decides, meets its fault, hears its upstream, serves, reports),
and every later lemma is about the moves. `Progress` says, stage by stage, which
lines a call has left and whether it is in the count: on some paths it is
counted before its last line and on others after it. `FaultInv` is why the
n-th call meets the fault: one that has matched and is yet to be counted has the
fault of the count as it is now, unless another was counted in between
(`crossed`). `ClaimStage` follows a claim through its three stretches and needs
that its run keeps its trace meanwhile, `OwnIds` that no two calls of a stdio
server have one id, and with them `OwnAnswers` that what is in the pipe, or
still owed, is addressed to whoever asked. `VaultInv` ties a call to the
credential of its endpoint from the moment it is dispensed, and
`OnlyLostIsOrphaned` is inductive as it stands once `raced` and `broken` name the
processes that were lost. That the first fault that fits is one that
fits rests on the least element of a set of naturals (`Least`), which the
library gives by well-foundedness and without induction over data.

`Housekeeping_proofs` is about four modules. Of `Housekeeping`, for any hooks,
slots, requests, windows, licenses, runs and bounds and any number of restarts,
from `NotifierAssumption`, `LicensingAssumption`, `CorpusAssumption` and
`HousekeepingAssumption`: `Spec => []EventsAreAccounted`,
`[]MemoryFollowsTable`, `[]EntitlementIsKept` and `[]ReportsAreSound`, all the
safety invariants of the run.

- *The notifier.* The place of a subscription among those an event fires decides
  whether its task may deliver, so the cap is a fact about counting places
  (`RankFacts`, `EmitTasks`). What fired is remembered for as long as it may
  mute (`Remembered`) and what mutes did fire (`StampsAreFirings`): a stamp that
  is swept for room is older than the window (`StampFacts`). For each URL at most
  one request is between its two steps, unless two overlapped (`OneInHand`), and
  memory follows the table but for those, whose row is ahead (`Synced`). A boot
  makes one subscription of the rows of an identity, with the window of the last
  (`RehydratedFacts`).
- *The schedule.* A report is safe only on rows that are what replay says of
  their runs (`RowsAreOutcomes`); the stored time is the newest that was stamped
  (`StampIsNewest`) and a report under way is an interval past it (`JobIsDue`),
  so no interval has two.
- *The license.* What is in force, or about to be, is marked if its end was
  announced (`MarkFollows`); the mark holds the last threshold announced
  (`MarkIsLast`), each announcement is counted with what was left when it was
  made (`LeftIsCounted`), and what is about to be announced has not been
  (`MarkIsNew`). The row is ahead of memory by the one install under way
  (`OneInstall`, `RowIsAhead`).

Those proofs found two histories that the run's agendas do not reach. A stamp
swept under a short window is missing when the hook is subscribed again with a
longer one, so an event goes out inside that window: `DebounceIsAWindow` excepts
a window that grew, and `era` moves with it. And an announced license can come
back into force without being pasted again: a boot reloads the environment's
license, or the row that a cut install left behind, and a pass under way clears
or overwrites the mark; `OneNoticePerThreshold` therefore speaks of licenses that
came into force again (`again`), of which an install is one case.

Of `SettingsStore`, for every set of writers, values and changes, from its three
assumptions: `StoreSpec => []IInv`, `[]TypeOK` and
`StoreSpec => ChangesAreAtomic`. The invariant is the idea of `DesiredState` with
revisions; that an unconditional set also moves the revision (`NextRevision`) is
what keeps it inductive, and the mutant `BugNextRevisionKeeps` shows it is needed.

`IInv` of `DesiredState` is an invariant of its run as well. The others were
checked by TLC at the bounds of their runs before they were proved (`StreamInv` in
all 503305 states of its run, `RouteInv` in all 416266 of its), and are not part
of the runs.

Only model-checked: the liveness properties (`StoredIsDelivered`,
`DroppedStreamEnds`, `EveryRequestIsAnswered`, `EveryBatchEnds`,
`SilenceIsFlagged`, `EveryWriteEnds`, `EveryCallIsAnswered`), because fairness
and ENABLED are beyond the prover. Every safety property of the twelve runs is
stated by a theorem.

## 5. What is not modelled

- The adapter, `axor-core` and `axor-probe`: outside the repository. The adapter
  appears in `PlaneStream` as the protocol obliges it to behave, the kernel's
  gate in `LabExport` as a parameter (both external).
- Signature bytes, canonicalisation, hashing, sealing, passwords, token
  encoding: a bit says whether they verify.
- More than one tenant at a time: the queries all carry `org_id`, and no
  modelled state is shared between tenants.
- Facts: operator signatures (a request whose signature fails changes nothing),
  severities beyond what holds a node down, the hops of a value's provenance.
  What the kernel's `covered_fact_ids` and Sentinel's `effective_revocations`
  compute is taken from how `B/coverage.py` and `B/attestations.py` use them.
- Topology: the fold of session edges and the closure a cascade follows are pure
  functions, and each leg of the cascade a request of `DesiredState`.
- Share links: a link is inserted after its case was looked up, in two
  transactions; a prune between leaves a link to a run that is gone.
- Metering, pricing and the vendor's command line; node keys of the vault; the
  scope every route but the key routes asks for; spawning a
  governed agent and its preflight; the import of Lab files and the deployment
  of what comes back; metrics and the middleware stack.
- Replay, traces, the wrap compiler, the demo, configuration and migrations
  translate formats and have no concurrency of their own. The frontend is a
  client of the HTTP API.

## 6. Plan

Done, in this order: (1) command channel and its delivery, with proofs; (2)
event log, live stream, run views, with proofs; (3) telemetry and monitor; (4)
self-heal, with proofs; (5) settings and the credentials vault on top, with
proofs; (6) the proxy: runs, tool route, stdio servers; (7) housekeeping:
notifier, licensing, corpus, lifecycle; (8) identity, API keys and logins; (9)
the Lab export, with the proof of its ledger; (10) facts, attestations and
reputation, with proofs; (11) signing custody and its log; the proofs of
telemetry; (12) the proofs of the delivery to the node, of the signing custody,
of access, of the proxy and of the live audit stream; (13) the proofs of
housekeeping and of the exported package.

What is left, in order of what can hurt most:

1. **Algorithms** against reference definitions over bounded inputs: the
   cascade's reachability closure, `node_usage`, the expiry thresholds.
2. The sealed envelopes of the proxy's vault client with their lifetime.
3. **LabImport** as the inverse of `LabExport` on what both can carry.
