# MOSAIC C2 / NexusGate: a TLA+ model

These modules model the decision path of the command-and-control core in this
repository: a recommendation becomes a proposal, an operator decides, the
decision is sealed in a hash-linked audit trail, a tasking reaches the inbox of a
unit, and the unit acknowledges it; and what surrounds it: the tactical picture
the recommendation is made from, and the cloud front that keeps a copy of the
trail. The models are written from the source;
`PROJECT.json` (`map`) names the lines each definition stands for.

Run a check with `tlc -config <cfg> <module>`, the proofs with `tlapm <module>`.

## The system

| Component | Source | State it keeps | Operations |
| --- | --- | --- | --- |
| Gate, inbox, acks | `app/c2_server.py`, `app/verify_ui.py`, `core/runtime_store.py`, `core/interlock.py`, `core/policy.py` | pending proposals, inbox, acked ids (memory and SQLite), active ids and keys (memory) | propose, approve or deny, list, ack, reset, start |
| Audit trail | `core/audit.py`, `core/audit_eds.py` | `gate.jsonl`, `eds_chain.json`, the last digest of each in memory, the snapshots before a tamper | append, verify, start-up repair, tamper, restore |
| Console gate | `core/gate.py`, `app/main.py`, `app/ui/console.py`, `app/adapters/usv_rest.py` | one cycle's plan, queue, timers and verdict; the mode of the effector | ask, answer, time out, dispatch, keep station |
| Cloud snapshot | `deploy/cloudflare/src/index.ts`, `AuditLogger.replace_records` | the flag `containerHydrated`, the copy of the trail in Durable Object storage, saves under way; the container's own trail and its life | authorize, fetch, start and restore, save, `onStart`, `onStop`, `onError` |
| Picture and ingress | `app/c2_server.py`, `core/ontology.py`, `core/runtime_store.py`, `app/verify_ui.py`, `app/adapters/sar_candidate_event.py`, `app/adapters/open_feed.py` | observations and tracks, the alert and its scenario, their tables | post, ingest and fuse, run a scenario, reset, start |
| Agent, interpreter, scenarios | `app/agent.py`, `app/llm_interpreter.py`, `app/scenarios/` | none | build a finding and a course of action |
| Kinematics, adapters | `core/kinematics.py`, `app/adapters/` | none (simulated vehicles apart) | convert, predict |
| Pages, scripts, mocks, benchmarks | `app/verify_ui.py`, `app/ui/`, `scripts/`, `mocks/`, `app/bench_stress.py` | none of the core's | render, drive, measure |

**How they interact.** The REST server owns one `C2Runtime`; every handler is an
`async def` that never awaits, so handlers are atomic for each other. A
handler writes to memory, to SQLite (one commit per row) and to the audit trail
(one append per record); those writes are what a crash or an exception can
separate. The audit logger first writes the sidecar through the EDS bridge, then
the file. The console is another process: it has its own interlock and its own
audit logger on, by default, the same file as the server, and it commands the
effector over HTTP. The tamper demonstration and the admin snapshot overwrite the whole
file, which empties it first. In the cloud the container's disk is lost whenever it
sleeps; the Durable Object beside it saves and restores the trail through the
admin endpoints.

**What is hard.** Several durable writes per handler; writes that fail and are
skipped (SQLite) or abort the handler (audit); overwrites cut short by an error or the end
of the process; memory replaced before the step that can raise; restarts that reload a part of
the memory; ids chosen by clients; two writers of one file; two chains that must
stay parallel; two timers of the same length on one event loop; requests that
are obeyed though their caller gave up; saves that run beside the answer they
belong to and overtake each other; a flag about a container that other calls may
start; a fusion whose outcome depends on order, rebuilt from tables in another. `PROJECT.json` lists each as a hazard at
its line.

## Modules

| Module | What it is |
| --- | --- |
| `GateRuntime` | the gate, inbox and acks of the server, with SQLite, failures, crashes and restarts |
| `HumanAuthority` | what the gate promises: decided once, circulating only when granted, confirmed only when circulating |
| `GateRuntimeProofs` | theorems about `GateRuntime` with all its faults |
| `GateOnceProofs` | theorems about `GateRuntime` while SQLite writes: decided and issued once, the refinement |
| `GateSteadyProofs` | theorems about `GateRuntime` while the process lives and its appends succeed |
| `AuditTrail` | the trail and its sidecar: writers, faults, repair, tamper and restore |
| `AuditTrailProofs` | theorems about `AuditTrail` |
| `HitlGate` | the console cycle, its prompt and timers, the effector |
| `HitlGateProofs` | theorems about `HitlGate` with all its faults |
| `HitlSteadyProofs` | theorems about `HitlGate` with one console and no faults |
| `CloudSnapshot` | the Worker, the Durable Object and the container's trail |
| `CloudSnapshotProofs` | theorems about `CloudSnapshot` |
| `Picture` | observations, tracks, the alert, their tables and restarts |
| `PictureProofs` | theorems about `Picture` |
| `MCGateRuntime`, `MCAuditTrail`, `MCHitlGate`, `MCCloudSnapshot`, `MCPicture` | instances for TLC (symmetry sets, traffic, observations) |

### GateRuntime

A handler is one action per durable write; `pc` names the write that comes next
and `req` holds the handler's locals. `Propose`, `AutoApprove` and `RejectFast`
are the three ways through `gate_proposals`; `VerifyPropose` and
`GuardrailQueue` are the two other endpoints that queue; `Decide`,
`SealDecision`, `IssueTasking` and `SealTasking` are `gate_approve` with its loop
over one or two units; `Ack`, `AckInbox`, `Seal` are `recipient_ack`; `Reset*` is
the admin reset with its three DELETEs. `Store` is a SQLite write, which may be
lost when `StoreFaults`; `AuditFail` is an append that raises when
`AuditFaults`; `Crash` is the end of the process and its next start.

Abstractions. Geofence, speed and CNI checks are one Boolean; the soft-duplicate
key is a model value; confidence, corroboration and intent are the Boolean
`quiet` of `ResolveTier`. A SQLite write that raises is lost for good (a commit
that a later commit carries along is not modelled), and a `load_all` that fails
as a whole is not modelled. `serial`, `units`, `root` and `minted` are history:
they number proposals so that two proposals under one id can be told apart.
`Room` and `MaxSerial` bound the trail and the proposals.

### AuditTrail

A digest is the sequence of the bodies hashed into it, that is, hashing without
collisions. Bodies are numbered, and a tamper changes the flip state of one body
(`Flip`: original, then X and Y in turn).

Each read and write of a file is a step, can raise and can be cut short by the end of
the process (`Crash` with `CutShort`):

- *An append* is `Begin` (the record over the digest in memory), `Seal` (the sidecar) and
  `WriteLine` or `WriteFails` (the file). In `Seal` a signature that fails is skipped
  (`SealSkips`); what raises after it (`SealRaises`) comes when `EdsChainWriter` has
  taken hash and sequence over, and leaves the sidecar as it was, empty or cut.
- *A start* is `Start` (the sidecar is loaded), `Seal` in the phase `Backfill` for each record of
  a trail without a sidecar, `Repair` (quarantine of a trail whose links are broken, and
  rewind) and `Clear` (the sidecar of such a trail); `StartFails` is a constructor that
  raises.
- *A tamper* is `InjectTamper` (both snapshots), `Overwrite` (`write_audit_records` and rewind)
  and `ReplaceSidecar`; *a restore* is `RestoreTamper` and the same two. `OverwriteFails` leaves
  any first part of the new trail with the old digest in memory, `ReplaceFails` a sidecar
  that is empty, cut or new with the old hash in memory.

`doubt` is history: it has "file" from an overwrite that failed or a head that was cut off
until the file is overwritten with whole links, or a start has walked it; and "sidecar" from a
write of it that raised or was cut short until a process starts on a sidecar that verifies,
deletes it, or restores one that verifies. An append that fails raises no doubt about the
file, nor does a crash: those must leave the chain whole.

Abstractions. The read and the write of the sidecar are one step per record: two processes that
interleave inside it are not modelled. Nor is a line that was written whole by an append whose
close raises, or a part of the file that does not end at a record and is JSON. The end of the
process during an overwrite takes the digest in memory with it, so that it raises no doubt.

### HitlGate

Gate task and prompt task are two state machines per console that share `queue`.
`GateTimer` and `PromptExpires` are the two timers; the prompt's cannot fire
before the gate's while the gate waits, because it is armed later with the same
length. `VerdictOf` prefers the timer: `wait_for` cancels the wait even if an item
has arrived. `wire` holds requests not yet served; with `HttpFaults` a caller may
give up before or after its request is served. The tier of a COA is a parameter:
the scenarios that ship produce tier 1; the runs add tiers 0 and 2, whose
branches `evaluate` has. `evaluate` without a queue (no operator channel) has no
caller in the console cycle and is left out.

### CloudSnapshot

A request goes through the stages `gate` (the Worker let it pass, the object has
not looked at it), `forward` (on its way to the container) and `answered` (the
response is back). Tasks of the object interleave at every `await`, so each stage is
a step: `Arrive` is the Worker with `corsPreflight` and `authorizeRequest`; `Pass` and
`Hydrate` are the two ways through the first lines of `fetch`, the second with
`startAndWaitForPorts` and `restoreAudit` inside `blockConcurrencyWhile` and so in one
step; `HydrateFails` is an exception there, which resets the object; `Forward`,
`ForwardCold` and `Drop` are `super.fetch`; `Return` is the answer with
`waitUntil(persistAudit())`. A save is two steps, `SaveReads` and `SavePuts`, with
`SaveCold`, `SaveOvertakes` and `SaveFails` for what can come between. The container
leaves by `Expire`, `Exit` and `onStop` in either order, or by `Crash`; `Evict` takes
the object's memory while the container runs.

Abstractions. `containerFetch` is a library's: a container that is not running is
started by it or the call fails, and both are possible here (`ColdStarts`). The
container is external to this module, its append and `replace_records` are reduced to
trail and head; a request seals at most one record, also when it fails in the end. A
record is its hash, the hash it links to and the request it was sealed for. What a
client puts (`PutSnapshot`) is an earlier trail or any list of `Puts`, records without a
hash included; `tainted` is history and says what such a list lacked: "chain" (it is no
whole chain from genesis) or "bearer" (a record below `/api` that no token stands
behind). Paths are the classes the code tells apart. `lapsed` is history: it is set
where one of the events happens that can cost records. They are: a restore over a
different trail, or refused; a request or a save served by a container that was not
restored; a client that puts another trail than the one that is there; a save that fails
or is overtaken; a container or an object that ends while a request or a save is under
way; an exit after `onStop` when a request has restored the container in between. With
any one of these marks taken away TLC violates `NothingLost`, `SnapshotGrows` or
`HydratedHolds`: the list has no element too many.

### Picture

`graph` is `SpatialEntityGraph`: the observations in the order they came and the tracks
they were fused into. `Ingest` is `SpatialEntityGraph.ingest` with `_find_nearby` (the
track of the name, else the closest one by radius or by the dead-reckoning ellipse) and
the merge. A handler is one action per commit: `IngestOne`, `PersistObservation` and
`SealObservation` for each payload of `Post`, `Refuse` for a payload the adapter refuses;
`Reset` with its three DELETEs.

A scenario has three outcomes, because `_ingest_scenario` replaces the graph before it builds,
normalizes and looks at the events: `IngestScenario` (it detects something, and the three
tables of `persist_picture` follow, of which `SaveRefused` is the INSERT that meets an id twice),
`IngestUndetected` (the 404: graph and scenario are new, the alert is gone, nothing is saved) and
`ScenarioFails` (it raises: the graph is empty, or filled when `detect` raises, and the old alert
stays). `Events` are the lists a scenario may build, `Evidence` those in which it detects
something; exports and fixtures are read from files, so that neither is
one list and no id is sure to be new.

A start is `Restart` (`_hydrate_from_store`), `RestartNoScenario` (`get_meta` failed by
itself: alert and observations without the scenario) or `RestartUnread` (`load_all` answers the
empty picture). `db` is what is committed and `view` what the connection sees: a write that
raises may leave its statements in the open transaction, and the next commit makes them durable.

`lag`, `torn` and `apart` are history. `lag`: a write failed. `torn`: the process ended
while the tables were of two pictures. `apart`: no write failed and memory is
another picture than the tables, by a scenario that raised ("alert": its alert is not of its
graph, either), by a 404 or by a start that could not read ("memory"). `AlertHasEvidence` excuses
"alert" and `torn`, in which the code does leave an alert without its observations; in "memory" it
must hold.

Abstractions. A place is a point on a line and a clock reading a number. A SAR contact moves at
one speed, `Drift`; the ellipse is an interval whose width `Envelope` gives for each age up to
`MaxAge`. Speed and attributes of a track are left out: they are copied
from the observation that gives the place. `home` is history (where each observation went), `whole`
says that no table of the current rewrite failed; `faults` and `MaxObservations` are bounds. The
replay log is left out: nothing in the server reads it.

## Runs

Passing runs, and what each asks:

| Run | Instance | Shows |
| --- | --- | --- |
| `gate_steady` | fair handlers, no faults, ids not reused | between requests inbox, acked set, active set and trail agree; an approval reaches every addressed inbox |
| `gate_crash` | crashes, failing appends, reused ids | approvals back taskings and acks, one decision and one issue per approval, SQLite equals memory, refinement of `HumanAuthority` |
| `gate_fault` | failing SQLite writes, crashes, reused ids | approvals still back taskings and acks |
| `audit_demo` | one writer, sidecar, tamper, failing signatures, reads and writes, crashes inside each, cuts of the head from outside | out of doubt links hold, verification fails exactly while a record is altered, and the sidecar's exactly while one of it is unsound; only overwrites, the quarantine and those cuts take records back |
| `hitl_faults` | two consoles, all faults, fair | the effector goes only where an approval in time sends it; every cycle ends |
| `hitl_steady` | one console, no faults, fair | effector and trail agree; a timeout stops it |
| `cloud_faults` | two requests at a time that seal or put a snapshot (an earlier trail, or a list that is no chain), every fault | every copy of the trail is a whole chain until a list that is none is put; no record below `/api` without the token, also after that; records are lost by the named lapses only |
| `cloud_fair` | fair runtime, the container does not die | every request is answered; every record behind an answer reaches the snapshot, or there was a lapse |
| `picture` | four kinds of feed, two scenarios that may raise, find nothing or name an id twice, two failing reads or writes, an end of the process at any step | one-at-a-time fusion is fusion at once; tables follow memory; the alert has its evidence; a restart rebuilds the map |

Three runs (`violation`) each state what a document or comment of the repository
says, and TLC finds an execution of the code that does otherwise; `PROJECT.json`
(`findings`) quotes the line:

- `audit_two_writers`: server and console on one file break its links.
- `cloud_loss`: a refused restore is only logged, and the next save stores the short trail over
  the long one.
- `picture_unsaved`: a scenario that raises or answers 404 changes the picture in memory only, so
  that a restart brings the one before it back.

### Divergences

Further places where the source does not do what a text says. They were met
while modelling; none has a run:

- A crash between the sealed decision and the inbox loses the tasking: the proposal
  is gone and nothing issues it again (`c2_server.py:971`; `docs/api/rest.md:380` "On
  approve, a tasking is written to the recipient inbox").
- An overwrite of the trail that fails (tamper, restore) leaves the digest of the old file in
  memory, and the next append breaks the links though no record was altered
  (`c2_server.py:325`, `audit.py:119`; `docs/verify-e2e.md:866` "Audit file was tampered with or
  corrupted"). `ChainLinked` excuses it by `doubt`.
- A sidecar write that raised has taken hash and sequence over: the next record links to one that
  was not written, and the sidecar does not verify though no record was altered
  (`audit_eds.py:414`; `docs/plan.md:200` "Report broken-link count (expect 0 of n records)").
  `SidecarEvident` excuses it by `doubt`.
- A last line cut short makes the next start raise while it parses, before the quarantine
  (`audit.py:250`; `audit.py:243` "Archive a truncated/corrupt chain so demos and trail checks
  stay green").
- A denial sends nothing to the effector: one that an earlier cycle sent off goes on
  (`main.py:153`; `docs/plan.md:104` "deny / timeout → Default = Deny (Station Keep /
  Safe Hold)").
- An observation posted again under its id is in the graph twice; the table keeps
  one, so that the tracks after a restart may be others (`runtime_store.py:131`;
  `docs/data-provenance.md:65` "survives process restart").
- A crash inside `persist_picture` leaves the alert of one scenario over the
  observations of another (`c2_server.py:272`; `runtime_store.py:4` "a process restart
  can rehydrate").
- A candidate event has its type for a name, so that all events of a type are one
  track, however far apart (`sar_candidate_event.py:88`, `ontology.py:54`).
- `onStop` after the exit may start an empty container through `containerFetch` and
  store its empty trail (`index.ts:39`; comment at `index.ts:9`).
- An export or fixture that names an id twice is in memory twice and makes the rewrite of the
  table stop at the second one (`runtime_store.py:146`; `runtime_store.py:4`).
- A scenario that raises leaves the alert of the one before over an empty map
  (`c2_server.py:416`).
- Approval looks at neither duplicates nor tier: two proposals of one target and
  intent, queued before either is approved, are both issued
  (`c2_server.py:946`; `docs/roadmap.md:22` "duplicate suppression"), and one
  approval issues a tier 2 COA (`docs/architecture/index.md:209` "dual-key").
- A tier 0 proposal gets an approved token without the approve endpoint
  (`c2_server.py:885`; `docs/api/schemas.md:47`), and its tasking is durable
  before its approval is sealed.
- An ack is durable before it is sealed; if the append raises it stays unsealed
  (`c2_server.py:1083`; `docs/api/rest.md:34`).
- An id that was acked once hides a later tasking under it (`c2_server.py:1043`;
  `docs/api/rest.md:380`).
- A restart reloads the inbox and forgets the interlock's active set
  (`interlock.py:112`; `docs/data-provenance.md:65`).
- Restore drops what was sealed since the tamper (`c2_server.py:345`;
  `docs/faq.md:80`); a second tamper replaces the snapshot by the tampered trail
  (`c2_server.py:316`; `docs/verify-e2e.md:720`).
- The quarantine walks the links only (`audit.py:254`), and appends go on over a
  trail that does not verify (`audit.py:274`; `docs/faq.md:85`).
- A half-written sidecar makes every later append of the process raise before the file is
  written (`audit_eds.py:417`, message at `:422`); a later process does without the sidecar until
  somebody deletes it (`audit.py:214`). A crash between sidecar and file leaves the sidecar one record
  ahead (`audit.py:288`).
- A lost emergency stop is not repeated (`main.py:150`; `core/gate.py:1`
  "fail-closed"); a navigate whose reply is lost leaves no dispatch record.
- The console asks the operator about a plan the interlock has rejected
  (`main.py:106`; `interlock.py:1`), and builds a new interlock for each cycle, so
  that no duplicate is ever found (`main.py:52`; `docs/plan.md:102`).

**Bounds.** Two or three ids, one or two units and keys, two proposals, and a trail
of four to six records let an id be reused while an earlier tasking under it is
out, let the two-unit loop be cut anywhere, and let a restart separate two
decisions. For the trail three or four records and up to three starts let a record
follow a tamper, a restore and a restart, and a repair follow an overwrite cut short. Two or three cycles on one or two
consoles let a stop follow a dispatch and a late request follow both. For the cloud
two requests, two records and two saves let a save overtake another, a restore meet a
newer trail, and a stop fall between an answer and its save (one record in the fair run: the
property speaks of one at a time). `cloud_faults` has the two routes that seal and that put a
snapshot, each with and without the token; the other paths differ from the first in the token check
only and are in `cloud_fair`. The one list that is put lacks its head and the hash of its end. For the picture four observations let a track be
found by name, by radius and by the ellipse, an id come twice, and a scenario follow
posts; two faults let a lost write be followed by a lost repair (2.5 million states). Ids, units, keys,
consoles and clients are only compared, so symmetry is sound; it is not used in runs
with fairness.

**Deadlock.** `GateRuntime` can always go on (a reset is always possible) and is
checked for deadlock, and so are `CloudSnapshot` and `Picture`, whose container and
process can always stop or start. `AuditTrail` and `HitlGate` stop when their bounds are used
up, and a server may refuse to start; there deadlock is not checked.

**Fairness.** `GateRuntime`: weak fairness of the running handler, which never
awaits. `HitlGate`: weak fairness of every console's enabled step (event-loop
callbacks and timers, the HTTP client's timeout) and of serving a request that
has arrived. Nothing is assumed of the operator. `CloudSnapshot`: weak fairness of
every request under way and of the saves: the runtime runs a task that is ready, and
a call to the container ends in an answer or an error. Nothing is assumed of the
callbacks, of the container's sleep or of evictions; in that run the container does not
die, since one that dies again and again need never answer.

## Proofs

`GateRuntimeProofs` proves, for all constants (any faults, crashes and reuse of
ids):

- `TypeCorrect`: `Spec => []TypeOK`;
- `HumanInTheLoop`: `Spec => []TaskingBacked`;
- `AcksAreApproved`: `Spec => []AckBacked`.

`TaskingBacked` is not inductive: `IssueTasking` writes a tasking on the strength of
the handler's locals. The invariant `BackedInv` adds `InHand`: while `pc` is at `Issue`
or `SealTasking`, the trail has the approval of the proposal in `req` with the
addressed unit; while an ack is in hand, the tasking it answers is backed; a tier
0 approval in hand is of tier 0. The proof goes action by action; the trail only
grows (`TrailStep`), so an approval, once sealed, stays (`ApprovedStays`).
`BackedInv` is checked by TLC as well.

`HitlGateProofs` proves, for any number of consoles and any faults:

- `CycleTypeCorrect`: `Spec => []TypeOK`;
- `EffectorUnderApproval`: `Spec => []NavigatesOnApproval`;
- `AnswerInTime`: `Spec => []ApprovedInTime`.

The invariant records what each stage of a cycle may rely on: from `send` on the
decision of the cycle is sealed and is one that commands; an approval on the wire
or in the effector is sealed; a "yes" on the terminal or in the queue is consent
unless the gate's timer has fired.

`AuditTrailProofs` proves, for any number of records, tampers, restores and starts, with every
read, write and signature failing and the process ending inside any of them:

- `TrailTypeCorrect`: `Spec => []TypeOK`, any writers;
- `RecordsStay`: `Spec => AppendOnly`, any writers;
- `OneWriterLinked`, `OneWriterEvident`, `OneWriterSidecar`: `Spec => []ChainLinked`,
  `Spec => []TamperEvident` and `Spec => []SidecarEvident`, for one writer (`Alone`), also when the
  file is cut from outside.

`Alone` is needed: with two writers TLC breaks `ChainLinked`
(`audit_two_writers`). `ChainLinked` is not inductive,
since a restore brings a snapshot back and an append links to a digest in memory. `ChainInv` says
three things. Every digest, in the file, in the snapshot and in hand, is that of the body
as it was sealed: this holds in doubt, too. Out of doubt, links hold, the digest in memory
is that of the last record while the process runs (unless a torn line hides what
was written after it), and the record in hand is sealed over that digest. A
process that starts has no snapshot. From "whole", links and digests together,
`WholeVerified` derives that recomputing the digests finds exactly the altered bodies. The invariant
of the sidecar, `SidecarInv`, is of the same kind: out of doubt it is valid or holds an unsound record
and its last hash is the one in memory; the snapshot is one or the other whenever there is one.

`GateOnceProofs` proves, under `~ StoreFaults` (SQLite writes what it is given) and with any
crashes, failing appends and reuse of ids:

- `TablesFollowMemory`: `Spec => []WriteThrough`;
- `DecidedAtMostOnce`: `Spec => []DecidedOnce`;
- `IssuedAtMostOnce`: `Spec => []IssuedOncePerApproval`;
- `GateImplementsAuthority`: `Spec => ImplementsAuthority`.

The invariant `OnceInv` says which proposals are still open: pending ones, and the one in
hand before its seal, have serial numbers of their own that no decision or issue in the
trail has (`PendingFresh`, `InHandFresh`, `LogNumbered`); memory and tables differ by the
write in hand at most (`Mirror`), so that a restart brings back only proposals that are
still open. That is what a lost DELETE breaks: the row comes back at the next start and is
decided again. The refinement goes step by step: a sealed decision is `HumanAuthority`'s
decision, a change of the inbox changes what circulates by granted taskings only
(`BackedInv`), a sealed ack confirms a tasking that is still in the inbox (`AckHeld`), and
the rest are stutters.

`GateSteadyProofs` proves, while the process lives and no append raises (`Alive`), whatever
SQLite loses and whichever ids are used again, `ApprovalsCarriedOut` (`ApprovalCarriedOut`),
`TaskingsSealed` (`TaskingSealed`), `AcksSealed` (`AckSealed`) and `OutstandingActive`
(`OutstandingIsActive`), the invariants of `gate_steady`. Each part of `SteadyInv` is the statement of the run with "or the handler in hand is about to" added, which makes it
inductive. `PendingListed` needs `NoReuse` besides, since an id that was acked hides the next
tasking under it. TLC violates each of them with a restart, and the first four with a failing
append.

`HitlSteadyProofs` proves, for one console whose requests arrive, whose appends succeed and
which does not crash (`Alone`), `EffectorRecorded` and `TimeoutStopsEffector`. `CycleAgrees`
follows the cycle: from its decision to its command the trail is ahead of the effector,
between the command and its record the effector is ahead of the trail, and the two agree
elsewhere.

`CloudSnapshotProofs` proves, for any number of clients, any traffic and any faults:

- `TypesHold`, `ChainsHold`, `VouchedHolds`: `TypeOK`, `ChainsLinked`, `Vouched`. The invariant
  `Base` says of every trail, wherever it is kept, that it is linked unless a list without a chain
  was put, and that its records below `/api` have the token behind them unless a list with one that
  has not was put; append, cut, copy and put keep that. That the container appends to the end of
  its file holds whatever is put;
- `NothingIsLost`, `HydratedIsRight`, `SnapshotOnlyGrows`: `NothingLost`, `HydratedHolds`,
  `SnapshotGrows`. They speak of what happens until the first lapse; `Careful` is the invariant
  until then: the snapshot, the copies in the order they were read and the trail extend each
  other (`Ordered`), a container that was not restored has nothing that was read
  (`NothingThere`), and what clients know of is in the newest copy or a save is still to read
  it (`Covered`).

`PictureProofs` proves, for every feed, any scenarios and lists of payloads, any radius, drift
and envelope, any number of failing reads and writes and an end of the process anywhere:

- `TypeCorrect`, `TracksFused`, `TablesFollow`, `AlertRests`: `TypeOK`, `Fused`, `StoreFollows`,
  `AlertHasEvidence`, and `RestartKeeps`: `Spec => SurvivesRestart`, every property of the run;
- `IngestManySound`, `GraphReplays` and `RowsUnique`, on which they rest;
- `CrashLosesOne`: a crash in the middle of a request, before which no write failed, no id
  came twice and memory did not go apart from the tables, costs the one observation that was ingested and not yet saved, or nothing.

The argument has three layers.

1. *What the operators compute.* A graph is a fold over its observations, so that induction over
   lists is needed. It is done on sets: a set of naturals has a least element (`LeastNatural`, from
   the well-foundedness of `<`), hence a set with 0 and all successors is `Nat` (`NaturalSet`).
   `Stages` are the graphs after each observation; `IngestLast` and `IngestManySound` follow by
   that induction. `SoundGraph` is `Fused` of any graph with one addition, that a strongest
   observation exists, and `Ingest` keeps it: a new observation joins one track (`MembersGrow`), there the
   strongest is the new one or stays (`BestGrows`), and the track of its name is taken first
   (`Nearby`).
2. *What is in memory.* `Replayed` says that the graph is what its observations rebuild. It is
   inductive as it stands, and `Fused` and the types of the graph follow from it.
3. *What is in the tables.* `Follows` gives each row the place of the first observation of its id:
   an increasing function onto all such places, with the newest observation of the id in each row.
   An upsert keeps it (`FollowsUpserted`), a list with different ids follows itself
   (`FollowsSelf`), and counting gives the form that `StoreFollows` has (`FollowsCounts`).
   `StoreFollows` speaks of idle moments only; `StoreInv` says of each step of a handler what the
   tables lack: the observation at hand (`StoredButOne`), the tables that a scenario has yet to
   write (`Rewriting`) or a reset to clear (`Clearing`), each unless memory is `apart`. That no two
   rows share an id needs no such excuse: the INSERTs of a rewrite stop at the first id that is there
   (`Insertable`). `AlertHasEvidence` speaks of memory, and a restart
   replaces memory by the tables; `AlertInv` therefore says the same of the tables, except while
   `lag`, `torn` or `HalfWritten` holds.

The one assumption on the data is that the feed consists of observations; their ids may be any.

Only model-checked: the liveness properties (`gate_steady`, the `hitl` runs, `cloud_fair`), since
the prover has no fairness.

## Not modelled

Kinematics and geometry (real arithmetic), parsing and conversion of external
feeds, the LLM call, rendering, scripts, benchmarks, mocks, generated types. The
EDS verdict that the verify page displays. Of authentication the Worker's bearer token
is in `CloudSnapshot`; the server itself checks none. Two hazards
of the gate have no property because the code has no behaviour to hold on to: approval looks
at neither tier nor duplicates, and the REST gate has no notion of a proposal's age.
`docs/api/archview-types.ts` declares interfaces without behaviour; the records they describe
are those of `Picture` and `CloudSnapshot`.

## Plan

What is left, in this order:

1. `SystemTrail`: `GateRuntime` with `AuditTrail` in the place of its log, so that a restore
   after a tamper meets the decisions it takes back; and with `CloudSnapshot` in the place of its
   disk, where an approval may be lost to a sleep while its tasking was acknowledged.
2. The sidecar beside `replace_records`, and that it is parallel to the trail as long as no write
   stops half way.
3. Pure algorithms: `resolve_tier` and the ladder of open-feed sources, each against a reference
   definition.
