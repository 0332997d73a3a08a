# ARGUS: a verification project

ARGUS is an MCP server: one asyncio process that gives language-model clients
(LibreChat and others) tools to look at, and act on, an accelerator control
system - EPICS process variables, save-and-restore, the electronic logbook, the
IOC pods in Kubernetes, and a "Knowledge Hub" that is itself reached over MCP.
This directory holds TLA+ models of it, TLC configurations that check them on
small instances, and TLAPS proofs for every value of the constants.

Paths below are those of the repository (`src/argus/...`).

## 1. Inventory

How a call travels: a transport (stdio, SSE, streamable HTTP) hands a tool call
to `ToolRegistry.dispatch`, which puts the headers of the request in context
variables, asks for confirmation where needed, runs the handler and turns every
exception into an error result. Handlers call services, services call
providers, a provider talks to one backend. Services share two stateful things:
`AsyncTTLCache` objects, and the Knowledge Hub client. Everything runs in one
event loop, so state changes only between awaits; the Kubernetes client runs in
threads. Nothing is persisted: a restart forgets confirmations, caches and
sessions.

| Component | State | Operations | What is hard | What makes it correct |
|---|---|---|---|---|
| Two-step confirmation (`confirmation.py`, `tools/registry.py`) | pending ids with digest, caller, expiry | issue, redeem, prune, dispatch | calls interleave at the preview's await; expiry; restart; retry of a spent id | a gated write runs only under a live permit for that call and caller, once; who does as asked is served |
| Caller identity (`correlation.py`, `request_context.py`) | context variables per request | extract token, user, confirmation header | unresolved header templates; refreshed tokens | a caller confirms only for themselves |
| Knowledge Hub client (`providers/knowledge_hub/client.py`) | session id, initialized flag, lock | initialize, rpc with one retry, call_tool, fan-out over workspaces | late answers of old sessions; 404; cancelled or failed handshake | one handshake at a time; no tool before its session's handshake; tools run once; calls end |
| TTL cache (`core/cache.py`) | entries with expiry, a lock per key | get_or_set, invalidate | callers that waited; failing factories; eviction | one fetch per key; bounded; fresh; no lock left behind |
| Operations service (`services/operations_service.py`, `providers/kubernetes`) | the cache of pod listings | list, restart (+ invalidate) | a restart during a fetch; a request that never returns; key versus namespace | the listing is of the namespace asked for; no stale listing after a restart but one in flight; only a request that hangs holds up others |
| PV reads and writes (`tools/pv_tools.py`, `operations_service.py`, `providers/epics`) | the pvAccess context; a circuit per protocol | get, set, info; fallback from Channel Access to pvAccess | a request that was given up may still be served; the same write over two protocols | an accepted write is done; twice only by the fallback; calls take effect in their order |
| Save-and-restore (`services/saverestore_service.py`, `providers/saverestore`) | none (the service has the snapshots) | list, resolve, compare, restore, take, plan, create | machine, snapshots and paths change between preview, comparison and write; lost answers | what is restored is what was shown, or saved since; the report is what happened |
| Logbook (`providers/logbook`, `history_service.py`) | none (Olog has the entries) | search, create, read, update | read-modify-write of a whole record | an edit changes the given fields only, of the entry meant; who writes may |
| Provider fan-out (`core/models.py`, `diagnostics_service.py`) | none | gather with a timeout per provider | timeout racing an answer; unexpected exceptions | every provider gets a status; one failure never spoils the others |
| Device resolution (`device_service.py`, `providers/channelfinder`) | cache of devices | resolve, search | a device resolved during an outage is cached bare | metadata is ChannelFinder's |
| Inventory from the Knowledge Hub (`knowledge_hub_inventory_service.py`) | none | page through each workspace, fetch attributes, merge | records change between pages; hubs that ignore `offset`; failing workspaces | complete but for what was deleted meanwhile, or says that it is not; nothing listed that the hub did not have |
| Inventory from YAML (`beamline_inventory_service.py`, `device_types/`) | none | merge IOC defaults, classify, filter | defaults inherited through the template or the devtype | no device of a group is missed or counted twice |
| Repository knowledge (`knowledge_service.py`, `providers/git`, `knowledge_tools.py`) | cache of files, histories and commits | read a file at a ref, its history, a commit; search the issues of several repositories | pushes during a fetch and within the TTL; HEAD against the deployed branch; a repository that fails | the deployed branch is shown, not older than the TTL, never an older state after a newer one; one failure costs one repository |
| Documentation search (`providers/documentation`) | index of documents | search | slow backends | pure retrieval |
| Read-only backends (archiver, Argo CD, Loki, Elasticsearch) | none | one request each | HTTP errors | errors mapped to ArgusError |
| Server wiring (`server.py`, `core/context.py`, `config/`, `transports/`) | none after start | build providers and services | - | - |

`PROJECT.json` lists every component with its state of modelling and every
hazard with its line.

## 2. The modules

| Module | Models | Role |
|---|---|---|
| `WritePermits` | - | abstract: what two-step confirmation promises |
| `ConfirmedWrites` | `registry.py`, `confirmation.py`, `correlation.py` | detailed: dispatch, store, caller identity; implements `WritePermits` |
| `ConfirmedWritesProofs` | - | inductive invariant, safety theorems and the refinement |
| `HubSession` | `providers/knowledge_hub/client.py`; the hub is external | session, handshake lock, retry |
| `IocCache` | `core/cache.py`, listing and restart in `operations_service.py`, `kubernetes.py` | cache, locks, invalidation |
| `SaveRestore` | `saverestore_service.py`, `providers/saverestore`, the restore and snapshot tools | preview, agreement, restore; snapshots |
| `SaveRestoreProofs` | - | inductive invariant and safety theorems |
| `PvCalls` | `pv_tools.py`, the PV operations of `operations_service.py`, `providers/epics`; the IOC is external | reads and writes of a PV over two protocols |
| `OperationsProofs` | - | `IocCache` and `PvCalls`: two inductive invariants and safety theorems of each |
| `Configurations` | `saverestore_service.py`, `providers/saverestore`, the tool that creates configurations; the service is external | planning, paths, preview, creation |
| `ConfigurationsProofs` | - | inductive invariant and safety theorems; the fold of a plan, the way along a path |
| `HubInventory` | `knowledge_hub_inventory_service.py`, the fan-out of `client.py`; the hub is external | paging, attributes, failures, merging |
| `HubProofs` | - | `HubSession` and `HubInventory`: inductive invariants and safety theorems |
| `Diagnostics` (extends `Providers`) | `device_service.py`, `diagnostics_service.py`, `core/models.py`, `core/cache.py`, `providers/channelfinder`; the backends are external | resolving a device, the fan-out over its sections |
| `Providers` | `search`, `get_data`, `get_application` and the like in the providers of a report | how a request ends, per backend: an answer or an error |
| `DiagnosticsProofs` | - | inductive invariant and safety theorems |
| `Logbook` | `providers/logbook/logbook.py`, `history_service.py`, `history_tools.py`; Olog is external | creating, reading and changing entries |
| `DeployYaml` | `beamline_inventory_service.py`, `device_types/` | pure: the devices of a deploy file |
| `Repository` (extends `DeployYaml`, `Providers`) | `knowledge_service.py`, `providers/git`, `core/cache.py`, `knowledge_tools.py`, `beamline_tools.py`; the git hosts are external | reading from git through the cache, listing devices, the search over repositories |
| `HistoryProofs` | - | `Repository` and `Logbook`: inductive invariants and safety theorems; what a listing of a file has |
| `SequenceLemmas` | - | induction over numbers; largest, smallest, flattened: facts that the other proofs rest on |
| `MC...` | - | values of the constants for TLC |

**Grain of the actions.** A coroutine cannot be interrupted between two awaits,
so an action is exactly what runs between two awaits. A request to a backend is
its own action at the moment the backend serves it; where the answer's way back
matters (`HubSession`, `IocCache`) serving and receiving are two actions.

**ConfirmedWrites.** `pending` is `ConfirmationStore._pending`; `task[t]` is a
coroutine inside `dispatch`. `Arrive` is everything up to the first await: an
unknown tool is rejected, an ungated call starts its handler, a gated call
without an id starts its preview, a gated call with an id redeems it and, if it
is good, starts its handler in the same step, since nothing is awaited in
between. `PreviewDone` issues the id *after* the preview's await. `Prune` is
part of issue and redeem. `CallerKey` is `caller_key`, with the SHA-256 digests
taken as injective and the header templates that LibreChat left unresolved as
one `Placeholder`. `Restart` empties store and tasks. `grants`, `tried`, `ran`
and `uses` are history: no guard reads them except that a new id was never
issued before (`secrets.token_urlsafe`).

**HubSession.** `session`, `initialized` and `holder` are `_session_id`,
`_initialized` and the owner of `_init_lock`. A request's `sid` is fixed when it
is sent (`_headers`), its answer's header is taken when it is received
(`_send`), so answers to requests of an older session may arrive at any time.
404 while the client holds *any* session forgets it, as in the code.
`asyncio.Lock` hands itself to one of those waiting before any newcomer
(`LockIsFree`). Cancellation comes from a caller's own time limit. The hub opens
sessions, forgets them at any moment, and is either polite enough to repeat the
session id in its answers or not (`Echoes`).

**IocCache.** `store` and `holder` are `AsyncTTLCache._cache` and its locks. A
fetch is read by the API server at one moment (`ServerLists`) and stored at a
later one (`Fetched`). The client runs in a thread without a time limit
(`asyncio.to_thread`, `kubernetes.py:85` and `105`), so a request may also never
end. `Restart`, `ServerDeletes`, `Restarted` are `restart_ioc`
before, during and after the thread; only the last one invalidates. `version`
counts changes of a namespace's pods, so a listing is a namespace and a version.

**SaveRestore.** A call is a restore (`get` of an id, or `locate` and `list` of a
configuration, then `compare` and `shown`; after `Agree` the same again from the
same arguments, and `write`) or a snapshot (`find`, `read`, `save`). The
confirmed second call carries the arguments and not what was shown; that it
comes at all, from the same person, is what `ConfirmedWrites` shows, so here it
is the action `Agree`. In between, others move PVs, save, rename and delete
snapshots, and rename, move or delete what a path leads to (`Repoint`). The walk
along a path is one action, where it ends: `Configurations` walks it folder by
folder. `Precedes` is the order of `list_snapshots`: the time of creation in
local time without a zone, which is then taken for UTC, so it goes back when the
clock on the wall does; among equals the service's order stays. Read-only PVs are
never written; the service's comparison may list them (`Compares`), and what it
lists is what `pvs_written` is counted from. `steady`, `quiet` and `touched` are
history: what the others left alone since the restore was asked for, or since it
compared.

**PvCalls.** `call[c]` is a tool call on one PV (PVs do not touch each other):
`connecting` until its request goes out, `sent` until the IOC has served it,
`served` until the client returns. `Tried` and `OnEpicsError` are the `try` and
the `except EpicsError` that `get_pv`, `set_pv` and `get_pv_info` share; a
protocol that is not configured raises such an error too. Each protocol has one
circuit, served in order, and a request that ARGUS gave up stays on it. `caput`
is called without `wait`, so over Channel Access a write returns when it is out
(`Returns`), and `Refuse` may still lose it; the pvAccess put returns when the
IOC has done it. `cainfo` is followed by a `caget` for the limits, whose failure
is not an error. `log` is every value the PV took, with who gave it and over
which protocol; `at` is the place in the log that a read was served; `begun` and
`before` are history. `Break` is a circuit on which a call is given up. `Overrides` is `{FALSE}` in the run because
`AppContext.build` passes no `protocol_overrides`; the proofs hold for both.

**Repository.** `call[c]` is one `list_beamline_devices` (of the YAML source),
`get_config_history` or `search_knowledge_base`. The first two go through the
cache: the key is the view, the repository and, for a file, the resolved ref;
the lock of a key is held by the call that fetches (`Holds`). `GitReads` is the
moment at which the host reads what it answers, between the request and
`Fetched`; `Commit` moves a branch at any time. GitHub is sent no ref for HEAD,
GitLab is sent the word, and both mean the repository's own default branch
(`Main`), which is what `ResolveRef` must prevent. `floor` is history: the
newest state of the same thing that any call had shown when this one began. A
search asks all repositories at once; each one's answer, error or timeout is an
action of its own. The contents of a file are data of `DeployYaml`: mappings are
functions on their keys, names and prefixes count by the substrings that the
classification looks for.

**DeployYaml.** `ListDevices` is the loop of `list_devices`, one `FlattenSeq` over
the IOCs of one over their devices (`Listed`), with `MergeIocDefaults`, `DeviceZones` and the profiles of `device_types/`. An IOC whose
`iocprefix` or `devices` is given without a value ends the whole listing with an
error that nobody expects (`Breaks`): the prefix only if a rule that looks at it is
reached before one that applies to the name. Empty text differs from none: as a
prefix it is one, as a zone too. Against
it stands `CountsRight`, a reference that reads the file entry by entry without
merging anything: what an IOC says is its own or that of the defaults it names.

**Configurations.** A call creates a configuration or looks one up
(`resolve_configuration`). `PlanOf` is `plan_configuration`: the devices' offers
and the explicit PVs, folded by `Add`. Planning waits for the inventory's
listing only if devices are named; then the folder is fetched by id, or walked
to with one `get_children` per part of the path (`Walks`). The preview ends in
`shown`; after `Agree` everything is done again from the same arguments, and
`Creates` is the service storing the result, for a caller who still waits or for
one who gave up. Children are listed in a stable order, that of their ids.
A listing may lack a workspace that could not be read, which the planning
ignores as the code does (it does not look at the notes). With
`Source = "yaml"` no listing is ever answered: the YAML service's
`list_inventory` requires a `repo` that `plan_configuration` does not pass, so
only explicit PVs work there.

**HubInventory.** One call of `list_inventory`. `scan[w]` is the coroutine that
reads workspace `w`: its page number, the records listed so far, those whose
attributes are known or still asked for, and the note it will leave. Serving a
page is one action, since the scan waits for it; between two pages people add
records anywhere in the hub's order or delete them. The hub either honours
`offset` and `with_attributes` or ignores both, and may answer oddly: with what is
no object, with an object that has no `total` (which counts as 0), or with
attributes that are none (`OddPage`, `OddObject`). A record without attributes has
no group, no function and every zone, so that it passes some filters
(`BareWanted`). `AnswerListing` is `for_each_workspace`
after its gather together with the merge. `past` is history: how many records
were deleted from a workspace during the call, which were there throughout and
which at all, and where the hub answered oddly.

**Diagnostics.** `call[c]` is one `get_device`, `device_status` or
`diagnose_device` for one name: it waits for the cache's lock, asks
ChannelFinder (`Found`, `FindFails`, then `Got`, `GetFails`; `OddAnswer` is the
answer that is no `ChannelFinderError`), and then has one result per section.
`BuildDevice` is the loop of `_build_device`, a fold of `With` over the
channels, each of which is `Merged` into what came before; a property that
ChannelFinder names without a value is merged like any other and then counts as
unknown (`Knows`). `WithKnown` then puts the known properties over the device's own
fields: of these only `owner` has another source, the channels' own owners, and a
property of that name replaces it. `StatusOf` is the order of the `except` clauses of
`_run_one`, by what each catches first, and `Providers` has, for each backend,
which error its provider makes of what a request meets there; the two together
are the statuses a section can have. They differ more than the names of the
errors suggest: a Kubernetes API that cannot be reached makes the pod
"unavailable" and its logs an "error" (`get_pod_logs` takes every failure for a
missing pod), an unreachable Knowledge Hub makes the documentation "unavailable"
and the logbook an "error", and PVs that do not answer are "disconnected" in a
section that is "ok". The TF-IDF search never awaits, so its section cannot time
out (`Awaits`). `made` is when a lookup ended; `sure`
is history: no request of the lookup failed and nobody edited ChannelFinder
between its two requests. The cache has one key here.

**Logbook.** `ask[c]` is a tool call after its confirmation, `pc[c]` the request
it waits for: the entry it reads first, the record it writes, or the names of
the logbooks that a refusal should list. A name is an entry's number, a code
(`OLOG-<FACILITY>-<id>`) or something else with a number in it; `OlogEntryId`
takes the number of a code, whatever facility it names. An entry is a record of fields, all
that ARGUS does not know of in one field, `attachments`; a `source` is there or
not. Olog carries a request out and answers it in one step; `Writes` then
chooses what becomes of the answer. A request that ARGUS gives up (`GivesUp`)
may arrive later (`ArrivesLate`). `version`, `landed` and the version in
`request` are history. The search is the one of Olog; of the Knowledge Hub's,
with `LOGBOOK_BACKEND=knowledge_hub`, only how it ends (`Providers`).

## 3. What is checked

| Run | Instance | Shows |
|---|---|---|
| `confirmed_writes` | 2 calls in flight, 2 ids, 2 callers (one with, one without the confirmation header, both with unresolved tokens), a gated, an always-gated and an unknown tool; TTL 2, clock to 2, one restart | all safety of the gate, also for the client that does not ask for it, and that it implements `WritePermits` |
| `hub_session` | 3 calls, 2 sessions, echoing hub, fairness | one handshake, handshake first, each tool once, every call ends |
| `hub_lost_session` | the same, safety only | **finding 1** |
| `ioc_cache` | 2 calls at a time, 2 namespaces, room for 1 entry, TTL 1, clock to 2, one change per namespace, fairness | no needless fetch, staleness only by overlap; a call ends or depends on a request that Kubernetes never answers |
| `ioc_default` | the same with another default namespace | **finding 2** |
| `save_restore` | 2 calls, 2 PVs (one read-only), connected or not, 2 names equal up to case, 2 configurations and a path, 2 snapshots with the clock put back between them, restores by id, name and "latest", 1 foreign change | what is restored was shown or is new, unless nodes were renamed, moved or deleted; what is reported as changed is what the write changes; a quiet restore is what was shown; a snapshot is what was reported |
| `pv_writes` | 3 calls on one PV (writes, descriptions with their second request, refused arguments), one foreign change, with either, both or no protocol configured | an accepted pvAccess write is done, no request is repeated but by the fallback, calls take effect in their order |
| `repository` | 3 calls of 10 kinds, 4 repositories (one on GitLab, two on GitHub, one on a host without an adapter), 2 branches with up to 2 commits, files with inherited groups, zones and devices, one with a null prefix, one file that is no YAML, issues with and without dates and zones, TTL 1, requests of 1 tick, clock to 2 | the deployed branch is shown, never older than the TTL and a request, never going back; the listing misses nobody; a search keeps what the others found, unless their dates do not compare |
| `hub_inventory` | 2 workspaces, 4 records, pages of 1, at most 3 pages, 2 edits, 1 odd answer, a hub that pages and one that does not, fairness | where the hub answers with objects that have a total, a listing without a note misses at most as many devices as were deleted meanwhile; nothing is listed that was not there or that the filters exclude; every call ends, also on a hub that repeats itself |
| `diagnostics` | 2 calls, an empty, a one-channel and a four-channel ChannelFinder (with `owner` as property and as field) and one edit of it, TTL 1, one tick, the sections `live_pvs`, `pod_logs` and `documentation`, with and without ChannelFinder, Kubernetes, Loki and local documents, fairness | the device is the one registered, and never older than the TTL; sections end independently; every call ends though no backend answers |
| `configurations` | 2 calls, 3 inventories (shared PVs, two devices of one name, one without setpoints), 2 trees of 4 nodes with names alike and room for 2 more, 8 requests, 1 edit by others | a plan has each wanted setpoint once and drops no device silently; undisturbed, what is created is what was shown; a path leads to what it names |
| `logbook` | 2 calls by two people with different rights or without a token, 2 entry numbers, entries with and without a source, 11 requests (wrong names, wrong arguments, numbers, codes of this and of another facility), 1 foreign edit, fairness | an update changes the given fields only; who writes may, and writes the entry meant, but for foreign codes; replies are true even of late requests; every call ends |

Type invariants are proved rather than run (`TypeCorrect`, `TypesOfCaches`,
`TypesOfListings`); that of `Configurations` is both, since its `Asks` and `Plans`
are what every other property reads. In `Repository`, whose records differ by
state, what is typed is part of the inductive invariant (`Dated`, `ListInv`).

**Why the bounds are enough.** The interesting cases of the gate need two calls
that overlap, one id presented twice or by two callers, an id at its last tick
and past it, and a restart between the two steps: two tasks, two ids, TTL 2,
three clock values and one restart have them all, and the theorems lift the
result to all values. In the hub client the losing race needs an old session, a
new one, one call in each and one waiting for the lock: two sessions and three
calls. A cache with room for one entry and two keys evicts; two tasks on one key
wait for each other; one version change per namespace tells old from new. In
save-and-restore two snapshots give "latest" an older and a newer value, in an
order that the clock turned round, two names that differ in case take the
fallback of the lookup, a second call is the concurrent user, one change by
others renames, moves or deletes between any two requests, and two PVs are one
that is written and one that is not. Of the PV calls the hazards are those of a write with a reader or a second
writer while a third call's leftovers are still on a circuit: three calls, each
of which may fall back once; `get_pv` is the first request of `get_pv_info`, so
the run needs no ask for it. In the repositories three calls are the one that
fetches, the one that waits for it and the one that asks later; a second commit
tells old from new, one tick past the TTL an expired entry from a fresh one, and
the files of the two branches list different devices. In the configurations a path of two parts has a middle, a
folder and a configuration of one name tell the types apart, and one edit at any
point between the requests of a call is all that its steps can tell from none. In the inventory four records exceed three pages of one, a list of
two is read in full, and one deletion is enough to move a record across an
offset; the theorems lift it to all sizes. In the diagnostics two calls wait for
each other's lookup, TTL 1 and one tick expire a device, one edit falls between
the two requests, four channels have a device's group of three (with clashing and
empty properties) beside a channel that bears the device's name, and the three
sections are one that never raises, one that depends on the device and falls
back from Loki to Kubernetes, and one that never awaits. The other sections take
the same steps, with the errors of their own providers; the theorems cover all. In
the logbook the hazards are those of an update with one other writer: a second
call, late or not, and one edit in Olog are enough; two people and an account
whose rights differ tell whose rights were used.

**Fairness.** `HubSession`: weak fairness of taking a lock that is offered, of
receiving an answer and of being answered, because the event loop resumes what
can run and httpx ends every request by a timeout. Calls are made once each, so
weak fairness of the lock suffices, and the system stops when all are done:
these runs do not check deadlock. `IocCache`: strong fairness of `GetLock`, as
`asyncio.Lock` wakes those waiting in turn and nobody is overtaken forever.
Nothing is assumed of the Kubernetes client, whose requests have no time limit:
one that hangs holds its key's lock, and every later caller of that key waits with
it. So the liveness property is conditional (`OnlyHungRequestsHold`): a call that
never ends depends for ever on one request that does not return. `HubInventory`: weak fairness
of each workspace's next answer (or time out) and of the gathering coroutine; a
call ends in this model, so its run does not check deadlock either.
`Diagnostics`: strong fairness of `GetLock` as above, weak fairness of the end
of a request to ChannelFinder (httpx's timeout), of a provider's refusal without
settings, of the TF-IDF search (it computes to its end), of the timer of
`asyncio.wait_for` and of the report; that a backend
ever answers is not assumed. `Logbook`: weak fairness of a read that fails, of a
write that is given up and of the end of the request for names, which are
httpx's timeouts; each call is made once, so its run does not check deadlock.
Nothing is assumed of callers, of the clock, of restarts or of cancellation.
Liveness is not stated for `ConfirmedWrites`, `SaveRestore` and `Configurations`,
where the next step is the user's, nor for `PvCalls` and `Repository`: a PV call
ends by the client's timeout, which is nothing but the assumption, and the lock
of a cache key is checked in `IocCache`. In the last three each call is made
once, so their runs do not check deadlock.

**Deadlock** is checked in all other runs.

### Findings

1. *A late 404 loses the new session* (`SettledClientHasSession`, `client.py:130`).
   `_send` forgets the session the client holds now, whichever session the
   request named. If that happens between `initialize` and
   `notifications/initialized`, the client ends initialized without a session:
   its requests name none, the hub refuses them with an answer other than 404,
   and it does not initialize again.
2. *`iocs:default` is not the default namespace* (`RightNamespace`,
   `operations_service.py:124`).

Observations that no run reports, because the models state them as they are:

- A caller is known by a digest of the access token (`confirmation.py:87`). After
  a token refresh between the two steps the same person is "another user" and
  asks again; nobody else can confirm for them (`SamePerson`). Callers with
  neither a token nor a user id share one key (`confirmation.py:53`).
- A restore resolves `latest` and names again after the user agreed
  (`saverestore_service.py:254`), so it may write a snapshot that was saved after
  the preview - and, if somebody renames or deletes snapshots or re-points the
  configuration's path in between, any other one (`RestoresShownOrNew`). Only an id
  is what was shown.
- The times that snapshots are sorted by are local and naive, and are taken for
  UTC (`saverestore.py:326`). Where the local clock is put back, "latest" need not
  be the newest.
- `pvs_written` counts every PV compared but for those that failed
  (`saverestore_service.py:257`). A read-only PV that the comparison lists is
  counted though nothing writes it; `changed_before_restore` lists it too.
- A Kubernetes request has no time limit (`kubernetes.py:85`). One that hangs
  keeps the lock of its cache key, and all later listings of the namespace wait.
- A page of the Knowledge Hub that is no object, or has no `total`, ends the scan
  without a note, and the listing is short (`knowledge_hub_inventory_service.py:115`
  and `122`). The docstring (lines 22-25) promises the note for pages that repeat;
  `MissesAtMostTheDeleted` is claimed of hubs that answer with objects that have a
  total.
- A channel property `owner` replaces the channels' own owner
  (`device_service.py:103`); if the last channel that has the property gives it no
  value, the channels' owner stays.
- The facility in `OLOG-<FACILITY>-<id>` is discarded (`logbook.py:260`). The
  Knowledge Hub's search may show codes of several facilities, so an update by the
  code of a foreign entry writes this Olog's entry of that number, if the caller may
  (`WritersMayWrite` says so by its exception).
- One IOC with `iocprefix:` or `devices:` and no value ends the listing of the
  whole file with an internal error (`beamline_inventory_service.py:156`,
  `base.py:37`).
- Issues whose dates do not all tell their zone cannot be compared, and the whole
  search ends with an internal error (`knowledge_service.py:108`).
- A write that timed out over Channel Access is repeated over pvAccess and may
  land twice (`operations_service.py:99`); `TwiceOnlyByFallback` bounds it to
  that. Calls that fell back may overtake others, as `OrderIsKept` says by its
  exception. Over Channel Access "successfully set" means sent.
- `interface.py:4` says "or vice versa per EPICS_PROTOCOL_OVERRIDES", and the
  service takes such a table, but `AppContext.build` does not pass one
  (`context.py:129`).
- The comment at `settings.py:151` names `get_config_history` among the calls
  that resolve an omitted ref to `GIT_DEFAULT_REF`. The tool reads a file only if
  a ref is given; without one it shows the history, for which neither provider
  sends a branch, so that it is the default branch's (`knowledge_service.py:84`).
- Where a deploy file keys its IOCs by name, the keys are dropped
  (`beamline_inventory_service.py:141`), so `ioc_name` is empty unless the IOC
  repeats it.
- An answer of ChannelFinder that is not JSON, or a channel without a name,
  raises an error that nothing expects (`channelfinder.py:96`), before the
  fan-out that would have contained it (`OddAnswer` of `Diagnostics`).
- `get_many` gives each PV the timeout that the fan-out gives the section
  (`diagnostics_service.py:63`): with one PV that never connects the section's
  timer may be first, and the others' values are lost.
- The YAML inventory cannot be planned from (`saverestore_service.py:97`).
- The locks of a cache are never dropped (`core/cache.py:34`); at `maxsize` its
  entries are (`CacheStaysBounded`).

## 4. What is proved

Every invariant and every action property that a passing run checks, and the
refinement, for all values of the constants that the modules' named assumptions
allow. An assumption says what the code takes its input for, and TLC evaluates
it on the run's values: in `ConfirmedWrites` `SenderAssumption` (tokens belong to
their owners and the client sends the user's own id or none; a client that leaves
the template of the *user* header unresolved would make all its users one, and
`SamePerson` does not speak of it), `CallAssumption`
and `BoundAssumption`; in `Diagnostics` `RegistrationAssumption` (a registration
is a list of channels); in `Configurations` `AskAssumption`,
`InventoryAssumption` and `TreeAssumption`; in `Repository`
`ContentAssumption` (a file is no YAML, or its IOCs and their devices are lists),
`QuestionAssumption` (what is asked for is there) and `SearchAssumption`
(dates are numbers); the rest say that times and sizes are numbers, and names
different from the sentinels.

Liveness is left to TLC, as the prover has no support for fairness: `EveryCallEnds`
of `HubSession`, `Diagnostics` and `Logbook`, `OnlyHungRequestsHold` of `IocCache`
and `CallsEnd` of `HubInventory`. Nothing else that a run checks is unproved.

**Induction.** The library's induction rules take an operator for a parameter,
which the installed provers cannot instantiate. That `<` is well founded on the
numbers is a theorem about sets, so `SequenceLemmas` proves from it that a set of
numbers has a least one (`Least`), and that a set with 0 and with the successors
of its numbers has all of them (`Induction`, `InductionTo`). "It holds up to n"
is a set of numbers wherever a proof needs induction: for the folds (`FoldIs` of
a plan, the merging of channels), for `FlattenSeq` (`FlattenRange`,
`FlattenCounts`), for the way along a path, and for sorting (`SortedExists`). So
what the code's loops compute is proved for every input, and no proof is left
out for want of induction.

`ConfirmedWritesProofs` proves `TypeOK`, `Authorised`, `OnceOnly`,
`SamePerson`, `GatedHandlersAreConfirmed` and the action properties `TriedIsSpent`
and `ConfirmedCallRuns`, and a smaller fact that no run checks,
`NothingExpiredIsKept`. None of the
invariants is inductive: that a redeemed id authorises a run needs what the
store says to be what was granted. The strengthening is the conjunction of

- `StoreMatchesHistory`: every entry of the store stands for a grant of this
  process, with its call, caller key and time;
- `OneGrantPerId`, `GrantsArePast`: history is a function of the id, and past;
- `UsedIsTried`, `TriedIsIssued`: an id that started a write was presented, and
  one that was presented was issued;
- `GoodGrantIsStored`: a grant of this process that nobody has presented and
  that has not expired is still in the store. With it a good confirmation runs.

It also proves (`PermitsAreImplemented`) that every step maps to a step of
`WritePermits` or a stutter. The state of a permit is computed: *used* when its
id started a run, *live* while the store holds it unexpired, *void* otherwise.
So pruning an expired entry is a stutter (the clock had voided it), a clock tick
voids exactly the permits whose time is up, a wrong redemption revokes one, a
restart all of them.

`SaveRestoreProofs` proves `TypeOK`, `RestoresShownOrNew`, `TakenIsStored`,
`QuietRestoreIsShown` and the action property `RestoreReportsChanges` for any
calls, PVs, names, clocks and snapshots. One invariant, `IInv`, says of every call
what its state stands for. Snapshots are only appended and keep what they hold
(`NodeStands`, `TakenStands`); an id stands for its node (`IdStands`). As long as
nobody renamed, deleted or moved anything (`steady`), what a name or "latest"
would be resolved to now is the node that was shown or one saved since
(`ShownStands`): the clock may turn the order of two nodes round, but it does so
once and for all, and the first of the old ones stays the first of them. A
comparison stays right for the PVs that nobody touched since (`ComparedStands`),
and in a world that is quiet it is the one that was shown (`QuietStands`).

Of `PvCalls`, `OperationsProofs` proves `TypeOK`, `AcceptedIsDone`,
`TwiceOnlyByFallback` and `OrderIsKept` for any calls, settings and traffic. The
invariant `CallInv` says of every call and protocol where its write can be:
`SentOnce`, at most once on the circuit or in the log and not in both, and only
if the call went out over that protocol. The order needs a second one,
`OrderInv`: if a write had been accepted when a call over the same protocol
began, then whatever of it is still on the circuit is ahead of the call's
request, because it was sent before and the circuit is served in order.

Of `HubSession`, `HubProofs` proves `TypeOK`, `OneHandshake`, `HandshakeFirst` and
`RunOnce` for any number of calls and sessions, on a hub that may forget any
session at any moment. `HandshakeFirst` needs to know how the client came by its
session: `InitializedIsShaken` (an initialized client's session, if it has one,
had its handshake accepted), `HeadersAreShaken` (so had every session that the answer to a
tool call names), `Notifying` (while a call notifies,
the client's session is the one of that handshake, an older accepted one that a
late answer put there, or none) and
`HandshakeIsDue`. `RunOnce` needs `Counted`: a request that was refused with 404
was not run.

Of `IocCache`, `OperationsProofs` has two layers. `LockInv` (`CacheTypes`, a finite store,
`SharedFetch`, `CacheIsBounded`) holds always and gives `NoNeedlessFetch`.
`ListingInv` adds `ReadsAreOfTheirKey`, `RestartsArePast` and
`CleanFetchIsAlone` (a fetch that no restart overlapped has read the pods as
they are after the last restart), and gives `RightNamespace` and
`StaleOnlyByOverlap`. These two are proved under `DefaultNamespace =
DefaultName`, the assumption the cache keys make and finding 2 is about.

Of `HubInventory`, `HubProofs` proves `ListingTypes`, `MissesAtMostTheDeleted` and
`NothingInvented`, for any page size, number of pages, records and edits. The
argument of the first is a count. What a scan has listed and the workspace has no longer was
deleted, so there are at most as many such records as deletions (`ScanInv`). A
scan that ends without a note has listed at least as many records as the
workspace has at that moment; so it misses at most as many as it has in excess
(`MissedAreInExcess`). That holds for workspaces where no answer was odd: a total
of 0 ends a scan without a note. The merge then finds each record in the first
workspace that has it, so the workspaces before must not have hidden it either.

`DiagnosticsProofs` proves `TypeOK` and the action properties `DevicesExpire` and
`SectionsAreIndependent`, for any number of calls, sections, settings and
registries. That a section is "unconfigured" exactly if the backend it asks is
rests on `ErrorsOfRequests`: no request to any provider ends with the error of
missing settings (`SectionEndsWith`). The action properties follow from the types
and a case split over the steps (`StepOfProbing`, `StepIntoProbing`). `DeviceIsRegistered` is about the loop of
`_build_device`: after any number of channels the device has a PV for each, the
properties that any of them names, each with the value of the last one to name
it, and the first owner there is (`Tells`, `WithTells`, `MergedChannelsTell`), unless
an `owner` property has the last word.
A call that is looking for a device knows no group yet (`NoGroup`), which is what
`IInv` adds to the types.

Of `Logbook`, `HistoryProofs` proves `TypeOK`, `RepliesAreTrue` and the action properties
`OnlyGivenFieldsChange` and `WritersMayWrite`, for any calls, people, rights,
entries and edits. The inductive invariant says of every request that may still
be served (`RequestFits`) that it carries a whole record, and that the record is
the entry with the given arguments over it for as long as the version it was
read at is the current one. `EveryCallEnds` stays with TLC.

`ConfigurationsProofs` proves `TypeOK`, `PlanIsExact`, `QuietCreateIsShown` and
`PathsAreFollowed`, for any inventories, trees, paths and edits. That a plan has
each wanted setpoint once, and nothing else, is what folding `Add` over all offers
gives (`AddedAll`, `PlanIs`). A path leads to one folder as long as the tree stays
(`IsWay`, `WayIsUnique`), and a walk is on the way to it: what it has walked
leads to where it is, and what is left is the rest of the path (`OnTheWay`). The
inductive invariant says of a call what it has worked out so far, and of a call
that nobody disturbed (`quiet`) that this is what working it out now would give;
so the second time gives what the first has shown.

Of `Repository`, `HistoryProofs` proves `DeployedIsShown`, `NeverBack`,
`InventoryCountsRight` and the action property `SearchKeepsTheRest`, with any
number of calls, repositories, branches and pushes. `GitInv` dates everything
that is known of a file. The lock of a key makes one call at a time fetch it
(`OneEach`), and while it does, nobody is shown a value for the key (`Alone`): so
what it fetches was read after all that was shown before, the entry it stores is
as new as all that was shown (`Newest`), and nobody is ever shown anything older.
The bound on the age is that of an entry: read at most one request before it was
stored, and shown before its TTL is over. `ListInv` says that whatever is stored or fetched for a file
is a commit that the repository has. With it the listing is that of a file, and
`ListingsCountRight`, a fact about any file, applies: the devices of an IOC are
the same, merged or read entry by entry (`MergedIsSaid`), a device is listed if it
is wanted and without a zone only then (`ListedIs`), and the places of the devices
keep apart what has to be counted (`CountedBy`, `FlattenCounts`). `NewestFirst` is
stated as a choice; that any finite set of issues can be put in such an order is
`SortedExists`, and that a search is cancelled or goes on is `OnlyCancelled`.

## 5. Not modelled, and why

- *Formatting and argument schemas.* The text of results, previews and logs, and
  JSON schemas: no property is about them.
- *Wire formats.* JSON-RPC and SSE parsing, CA and pvAccess: an answer is one of
  a few kinds.
- *Single-request providers*: of the archiver, Argo CD, Loki, RAGFlow and the
  TF-IDF search the error map only (`Providers`), as they keep no state that a
  report depends on; Elasticsearch, `get_issue` of GitHub and GitLab and all
  `health` probes are left out.
- *Wiring and settings*: run once at start.
- *Digest collisions*: SHA-256 is taken as injective.

- *Read-only operations of modelled services*: `machine_summary`, `search_pvs`,
  `search_devices`, archiver data, the search for save-and-restore nodes and
  `beamline_status`: one request, or a fan-out with the shape of `Diagnostics`.
- *Files that are YAML but no deploy file* (a list where a mapping is expected):
  the service raises whatever the first wrong access raises, and the call ends. Keys
  without a value are modelled (`Breaks`).

## 6. What could follow

1. The TF-IDF index across restarts: what `reindex` leaves in the file when
   there is nothing to index, or when it cannot be written.
2. The logbook search in the Knowledge Hub and `beamline_status`.
3. Proofs: what the entries of a report say of each other (`Diagnostics` has its
   sections one by one), and one abstract cache that `IocCache`, `Diagnostics` and
   `Repository` implement.
