# A TLA+ development of matterbridge-example-camera

This directory holds TLA+ models of the camera plugin in `src/`, the TLC
configurations that check them on small instances and the TLAPS proofs of the
results that hold for every instance. Line numbers are those of
`src/src/*.ts` and `src/scripts/*.mjs`.

## 1. The system

The plugin adds example camera, doorbell, chime and intercom devices to
Matterbridge. The devices and their WebRTC sessions come from the `matterbridge`
package. What this repository implements itself is the Root Node of the one
camera that is a Matter node of its own (the *Server Camera*): three cluster
servers with persistent state, driven by commands of the administrators of
several fabrics, by fabric changes, by a clock and by restarts.

| Component | State | Operations | Interacts with |
|---|---|---|---|
| TLS identifier allocator (`allocateId`) | the next CAID, CCDID and endpoint id, nonvolatile | allocate | both TLS servers |
| TLS Certificate Management (`tlsCertificateManagementServer.ts`) | root and client certificate stores with the private keys (nonvolatile), two attributes that mirror them | ProvisionRootCertificate, RemoveRootCertificate, ClientCSR, ProvisionClientCertificate, RemoveClientCertificate, four queries, reaction to `fabrics$Changed`, `initialize` | reads the TLS endpoints and UTCTime; its attributes are read by TLS Client Management |
| TLS Client Management (`tlsClientManagementServer.ts`) | the TLS endpoints of every fabric | ProvisionEndpoint, RemoveEndpoint, FindEndpoint; matter.js prunes removed fabrics | reads the certificate attributes and UTCTime |
| Time Synchronization (`timeSynchronizationServer.ts`) | UTCTime, LocalTime, the TimeZone and DSTOffset lists, the trusted source, `Internal.dstActive` | SetTimeZone, SetDSTOffset, SetTrustedTimeSource, SetDefaultNTP, SetUTCTime, the clock timer, reaction to `fabrics$Changed`, `initialize`, dispose | UTCTime gates the TLS commands; events to subscribers |
| Root Node (`rootNode.ts`) | the servers and their configured attributes | `addRootNodeCamera` | composes the servers above |
| Camera platform (`module.ts`) | devices, animation phase and timer | onStart, onConfigure, animationHandler, onAction, onShutdown | called by Matterbridge; registers the devices, commands the chime through the doorbell's binding, closes WebRTC sessions |
| CHIP test runner (`run-chip-tests.mjs`) | the position in a run and its results; the docker container with its storage and its process | `--start`, `--stop`, the tests with their resets before and after | drives the container, in which the plugin configures itself and docker restarts what dies |
| Release and workflow clean-up (`prune-releases.mjs`, `remove-workflows.mjs`) | the pages read, the ids to delete | read every page, ask, delete one by one | GitHub, which others change meanwhile |
| Tag clean-up (`prune-tags.mjs`) | the tags to delete | push deletions in groups, fetch with pruning, delete locally, expire the reflogs, collect garbage | a remote, the clone |
| Branch synchronization (`git-sync-dev.mjs`) | the branches, backups and reflog of the clone | fetch, check, back up, merge or rebase, push | origin, another machine, an editor that fetches; the clean-up of `prune-tags.mjs` |
| Other scripts (`git-status.mjs`, `downloads.mjs`, `create-release.mjs`, `version.mjs`, the clean scripts, `commission_node.py`) | none that lasts | command line tools | git, npm, GitHub, the file system |

What is hard about it, and hard to reach with a unit test:

- **Two servers that check each other.** A certificate in use by a TLS endpoint
  cannot be removed, an endpoint needs an existing certificate; each reads the
  *attributes* of the other, not its store, and the cleanup of a removed fabric
  runs separately for each.
- **Reactions that run later.** `fabrics$Changed` is handled in its own
  transaction, under a lock, with the list of fabrics as it was at the event.
- **Crashes.** The queue of reactions is lost with the process and `initialize`
  does not prune.
- **Ids that wrap** at 65534 and are shared by all the fabrics, per fabric
  quotas, replacement and rotation in place.
- **Awaits.** The methods of the platform wait for ffmpeg, devices and sessions
  while its timer fires and controllers act; nothing waits for `animationHandler`.
- **Time.** Handlers read the host clock several times, the tables expire while
  a handler runs or while the node is down, and the subscribers only know what
  the events told them.
- **A device that is not ready.** The test runner learns from cumulative logs that the
  plugin is configured, while the process it asks about may be about to be restarted
  or may have died; what a test leaves is in the storage and in memory.
- **Others at work.** What the scripts read of GitHub, of a remote or of a branch
  changes before they act on it: pages shift, tags are pushed again, another machine
  pushes to `dev` between the check and the forced push.

The hazards are listed with their lines in `PROJECT.json`, each with the
properties that would show it going wrong.

## 2. The modules

| Module | Contents |
|---|---|
| `Filtering` | `Filter`, the `Array.prototype.filter` of the lists whose order matters |
| `TlsIds` | the id space, `AllocateId`, `IdsExhausted` |
| `TlsCertificateManagement` | the certificate server: the two stores, one action per command, the queries, the reaction, `initialize` |
| `TlsClientManagement` | the endpoint server; the certificate attributes are parameters |
| `RootNode` | both servers composed with fabrics, queued reactions, stop and start |
| `TimeSynchronization` | the time server with its clock, timer, events and restarts |
| `CameraPlatform` | the lifecycle of the plugin, one action per stretch between awaits |
| `ClientCredentials` | abstract: what the certificate server promises of client certificates, without ids that wrap, limits, attributes and fingerprints; `TlsCertificateManagement` implements it |
| `ChipTests` | the runner of the certification tests, one action per command it waits for, and the container around it |
| `PagedDeletion` | the two scripts that delete what GitHub lists in pages |
| `PruneTags` | the deletion of tags on a remote and in the clone |
| `SyncDev` | the synchronization of `dev`, with what git refuses and what others do |
| `Repository` | the three script modules composed: scripts run one at a time, and the fetch, reflog expiry and garbage collection of `PruneTags` act on the branches of `SyncDev` |
| `FilteringProofs`, `TlsCertificateManagementProofs`, `TlsClientManagementProofs`, `RootNodeProofs`, `TimeSynchronizationProofs`, `CameraPlatformProofs`, `ChipTestsProofs`, `RepositoryProofs` | theorems |
| `MC...` | constants of the TLC instances |

How the model corresponds to the code:

- **A handler is one action.** Every handler of the servers is synchronous and runs in one
  matter.js transaction: if it throws, its writes are rolled back. So a rejected
  command is a stuttering step. For each command `<Command>Status` gives the
  response status by the tests of the handler in their order, and the action
  `<Command>` is enabled when it is `"Success"`; it includes the trailing
  `#updateAttributes`.
- **Lists are sets** in the TLS modules, because the code only filters, maps and
  searches them; the TimeZone and DSTOffset lists keep their order. The
  intermediate certificates of a client certificate are a set too.
- **Filtering keeps the order.** `Filter(list, kept)` of `Filtering` gives the entries at the
  positions `kept`, each at its rank among them. It is defined by ranks and not by
  recursion, so that it can be reasoned about; TLC evaluates in `MCTimeSynchronization`
  that it is `SelectSeq` on lists of up to three entries (`FilterIsSelectSeq`).
- **Certificates, keys and hostnames are atoms.** `Validity` says at which times
  a certificate is valid (never, if it is not strict DER), `PublicKey` which key
  pair it was issued for, `OversizedCertificates` which exceed 3000 octets. SHA-256
  is taken to be injective.
- **Key pairs are fresh.** `generatedKeys` is an auxiliary variable: a key pair is
  generated at most once. The reuse of the key pair for a rotation CSR
  (`clientCsr` with a CCDID) changes no state and is therefore not an action.
- **`caid` and `ccdid` fields** range over `TlsIdFields`, one beyond the valid ids,
  so that the range checks matter. `NoFabric` is a command without an accessing
  fabric.
- **RootNode** keeps the events not reacted to in a queue, each with the fabrics
  at its emission. Fabric indexes are not reused (matter.js allocates them
  increasingly). `Reacted` is an assumption on matter.js, stated in the module: a
  fabric commissioned while older reactions wait sends its first TLS command
  after they ran. Without it an old snapshot could delete the data of the new
  fabric; the project takes that case away by assumption and does not show that it
  cannot happen. `LiveFabricKeepsCertificates` is the property it would break.
- **TimeSynchronization**: an action takes its successive readings of the host
  clock from `Readings`, the times between the current one and one
  `MaxHandlerDelay` later, and leaves the clock at the last. The `reported*`
  variables record what the last event of each kind told a subscriber. The list
  TimeZone is configured non-empty by `addRootNodeCamera`, so the branch of
  `initialize` for an empty list is never taken (`TimeTypeOK`). Time is counted in
  small units from the Matter epoch, and offsets in the same unit.
- **CameraPlatform**: the methods await, so they are cut there. `stage` is the
  position of the host's calls: *constructed*, *installing* and *adding* (onStart),
  *started*, *enabling* and *arming* (onConfigure), *configured*, *closing* and
  *clearing* (onShutdown), *down*, and *exited* when there is no process. *failed*
  would be an onStart that threw. An interval is counted by `timers`, and
  `animationInterval` says whether the platform holds the handle of one, which is
  what `clearInterval` stops. A command of the animation stays in `animations` until
  it arrives, and commands arrive in any order. `silenced` abstracts the chime's
  `enabled`: it is true when the last write to it was the animation's `false`. The
  host is taken to await each method before it calls the next one, as the tests do,
  and may call onConfigure again, for which the code clears the interval (306).
- **ChipTests**: a test leaves residue in the container's storage (`stored`) or in the
  memory of its process (`held`); which test left it is what the properties compare.
  Of the logs the model keeps what `waitForContainerReady` reads: whether the marker
  was printed since `restartedAt`, which is taken before `docker restart`, while the
  old process still runs. `prepared` is auxiliary: the container is being built by
  `--start`, is ready, or is neither since a wait timed out or the process died. Every
  command may fail; `find` in the reset may fail and is ignored by the script
  (`deleteFailed`). An invocation that does not parse ends in one step.
- **PagedDeletion**: an item is `kept`, `doomed` or `active`, which is all the scripts
  decide by. Other people create, change and delete items while the script reads
  pages and deletes. The search for the repository's name is part of the steps that
  may fail.
- **PruneTags** and **SyncDev**: a tag and a commit are atoms, a branch the set of its
  commits, a rebased commit the same change with another copy number. `git` is
  modelled by what the scripts rely on: a push of a deletion needs the tag, a plain
  push is a fast-forward, `--force-with-lease` compares with the tracking branch,
  `--force-if-includes` looks for it in the reflog, garbage collection spares what a
  branch or the reflog contains. A push may take effect and fail all the same. `tag -d`
  may fail for any of its tags, which `prune-tags.mjs` ignores (321): `undeleted` is
  auxiliary, the tags of the clone for which it failed. The listing may fail too, and
  ends the script. The output of the scripts and the codes by
  which `git-sync-dev.mjs` tells its failures apart are left out.
- External, modelled from how `src/` uses it: the removal of the TLS endpoints of
  a removed fabric by matter.js (`PruneEndpoints`), commissioning and removal of
  fabrics, the process, the host clock.

Definitions commented *Mutant* are not part of any specification. Each is a
plausible mistake in the definition that follows it; with it in place, the
property it is paired with in `PROJECT.json` fails.

## 3. The runs

Unless noted, TLC checks for deadlock too.

| Run (cfg) | Question | Bounds |
|---|---|---|
| `MCTlsRootCertificates` | Ids, quotas, fingerprints and attributes of root certificates. | 2 fabrics, 5 ids, 5 certificates (one expires, one is not valid yet, one always valid, one is not DER, one too long), 2 times, 2 per fabric |
| `MCTlsClientCertificates` | The same of client certificates, that key and certificate stay together through rotation, and that the server implements `ClientCredentials`. | 2 fabrics, 3 ids, 4 key pairs, 3 certificates, two of them for one key pair; 2 per fabric, 1 intermediate |
| `MCTlsClientManagement` | Ids, quotas and addresses of TLS endpoints; a command touches only the endpoint it names. | 2 fabrics, 3 ids, 2 hostnames (one too long), ports 0, 80 and 443, 1 certificate id besides null, 2 per fabric |
| `MCRootNode` | References between the servers, attributes, cleanup and orphans, with delayed reactions, restarts and crashes; all data of a removed fabric is eventually gone for good. | 2 fabrics commissioned in turn, 2 ids, 1 certificate, 2 key pairs, 1 endpoint per fabric |
| `MCTimeZones` | Attributes agree with each other and with the events, through restarts, and a scheduled zone is eventually applied. | clock 1..3, handler delay 1, 2 zones, 2 TimeZone entries, 1 DST entry |
| `MCDaylightSaving` | At most one DST entry is valid; DSTStatus is accurate while the node is up. | clock 1..3, 2 DST entries, offsets 0 and 1, no restart |
| `MCCameraPlatform` | The plugin through its whole lifecycle: timer, chime, sessions, completion of the start. | all 14 devices, or those without Server Camera and Server Doorbell; sessions of one camera; 2 commands in flight |
| `MCChipTests` | No test meets a half-configured plugin or the residue of another, exit code 0 tells the truth, and every invocation ends. | 4 tests: one that cleans up after itself, one known to fail, one that starts from a clean device, one that is skipped; any number of invocations |
| `MCRepository` | A success of the deleting scripts means that what they were to delete is gone, but for the tags `tag -d` failed on and those pushed again; the synchronization loses no commit and drops no change at origin. | pages of 2, up to 4 items; 2 remotes, 3 tags, groups of 1; 2 changes, 1 rebase |

The id bounds are chosen so that `nextCaid`, `nextCcdid` and `nextEndpointId` wrap
and meet ids still in use; the quotas so that a fabric reaches its own while the
other still has room; the clock so that an entry can start, end and be followed
by another one. The key pairs and the fabric indexes are finite, and a run simply
does not create more of them. In `MCRepository` the state spaces of the scripts would
multiply, so each behaviour has one topic (the items, the tags, or the branches with a
`prune-tags.mjs` of one tag); two pages, two groups and one rebase on either side are
enough for a page to shift, for a group to fail after another one and for a lease to be
stale. In `MCChipTests` two tests in turn are enough for residue to leak, and the four
kinds of entries of `chipTests.json` are all there.

Three runs check a statement of the code's own comments and TLC refutes it:

- `MCRootNodeOrphans`: *"Removing a fabric deletes all its fabric-scoped data,
  including its certificates and key pairs"*
  (`tlsCertificateManagementServer.ts:749`). Commission, provision, remove the
  fabric, stop the process before the reaction ran, start: `initialize` (221-229)
  rebuilds the attributes and subscribes to later events, so the certificates and
  key pairs stay until some later fabric change. `OrphansOnlyByCrash` in `MCRootNode`
  shows that nothing else leaves them.
- `MCTimeZoneStatus`: *"Generate TimeZoneStatus when the node changes its time zone
  offset or name"* (`timeSynchronizationServer.ts:166`). SetTimeZone with a second
  entry that is already valid reports that entry (302-307); the next refresh
  compares the second entry with the first (164) and reports it again.
- `MCDstStatusRestart`: *"A DSTStatus event is generated when a DST offset starts or
  stops being applied"* (148). `dstActive` starts false in a new process, so an
  offset that expired while the node was down stops being applied without an
  event. `MCDaylightSaving` shows the property without restarts.

### Fairness

`RootNode.FairSpec` assumes weak fairness of three steps: the reaction (a queued
reaction gets the local lock, `reactTo(..., {offline: true, lock: true})`), the
pruning matter.js performs, and the start of a stopped process by its host. No
command and no fabric change is assumed to happen. `TimeSynchronization.FairSpec`
assumes that time passes, that the periodic timer (`CLOCK_INTERVAL`, 1 s) fires
while the node is online, and that a stopped process is started again.
`CameraPlatform.FairSpec` assumes that the host starts the plugin it constructed, that
an awaited call of onStart answers, that an interval fires and that a command to the
chime ends; it assumes neither that the plugin is configured, nor that a binding
exists, nor that a stopped process is started again. `ChipFairSpec` assumes only that a
command the script waits for ends, as `spawnSync` does; it assumes neither that the plugin
is ever configured nor that docker restarts it, which is why the timeout of the wait
matters.

### Refinement

`ImplementsClientCredentials` instantiates `ClientCredentials` with the map from the
CCDIDs in the store to fabric, key and certificate, and with `generatedKeys`. ClientCSR
implements `Create`, ProvisionClientCertificate `Certify`, RemoveClientCertificate and the reaction `Forget`; the root
certificates, the allocator, the limits and the attributes are invisible. TLC checks it in
`MCTlsClientCertificates`. TLAPS proves it of the server, and again of the composed
`RootNode`, where fabrics come and go, reactions are late and the process restarts: they
implement `Forget` or are invisible.

## 4. The proofs

`TlsCertificateManagementProofs` starts with the allocator: for every id space and every set
of used ids `AllocateId` returns a valid id that is not in use unless all are in use
(`AllocateIdFresh`): the candidates `next, next + 1, ...` modulo the size of the
space cover it (`CandidateCovers`), and a non-empty set of naturals has a least
element.

It then proves of `SpecTlsCertificateManagement`, for any
number of fabrics, ids, certificates, key pairs and any quotas:

- `CertificatesTypeCorrect`: the type invariant;
- `IdsAlwaysUnique`: CAIDs and CCDIDs are unique across fabrics;
- `LookupsAlwaysExact`: a fingerprint names exactly one entry of a fabric;
- `KeysAlwaysSafe`: a client certificate matches the private key beside it, and
  private keys are not shared;
- `AttributesAlwaysAgree`: the attributes are what the Find commands answer;
- `RotationAlwaysKeepsKey`: an entry keeps its key, and an installed certificate
  is only replaced.

None of these is inductive alone, and `CertificateInvariant` is their
strengthening. Uniqueness of private keys needs `KeysWereGenerated`, that every
stored key is in `generatedKeys`, from which ClientCSR does not draw. Freshness of
an id needs `nextCaid` and `nextCcdid` to be in range, that is the type invariant.
Exactness of a lookup needs the uniqueness of the ids, and its preservation by a
replacement needs the test for a known fingerprint. The agreement of the attributes
needs them to equal the view of the whole store (`AttributesMirrorStores`), for
entries outside `FabricIndexes` would otherwise be unconstrained. One lemma covers
each command, for arbitrary TLS endpoints, so that it holds of the composed Root
Node as well; one lemma covers every removal.

`QuotasAlwaysKept` has an invariant of its own, that the stores are finite and within
the limits (`QuotaInvariant`), because cardinalities are compared. With it
`AllocatorsNeverExhausted` proves what the comment of `allocateId` says (145, *"The per
fabric limits (at most 254 per fabric) and the number of fabrics make it unreachable from
the commands"*): the store is the union of the shares of the fabrics, each within its
limit, so fewer ids are in use than there are, in whatever order they were freed, reused
and wrapped around. Its hypothesis `EnoughIds` is that comment's: the number of fabric
indexes times a limit is at most the largest id. It holds of the code, with 254
fabrics and limits of at most 254 against 65534 (`rootNode.ts:105-117` configures 5). For
`ServerImplementsClientCredentials` the abstract state is well defined because CCDIDs are
unique: each lemma shows how a command changes the map `CredentialsIn`.

`TlsClientManagementProofs` proves, for any certificates the attributes may show, that
endpoint ids are unique on the node, that addresses are unique in a fabric, that an
endpoint changes or goes only by a command of its fabric that names it, or with its
fabric (`OnlyNamedEndpointsEverChange`), that no fabric exceeds `MaxProvisioned` and,
again if the limits fit the id space, that an endpoint id is left (`EndpointIdsNeverExhausted`).
`EndpointInvariant` is the conjunction of the type, the ids and the addresses.

`RootNodeProofs` composes the two. `NodeInvariant` contains the invariants of both servers
and two statements about the queue of fabric changes: a fabric on the node that owns a
certificate or an endpoint is in every queued snapshot (`OwnersAnnounced`), so that no
reaction takes from it, and a fabric that owns something but has left is missing from
some queued snapshot (`RemovalsQueued`), unless a crash lost one. From it follow
`EndpointCertificatesAlwaysExist`, `AttributesAlwaysAgreeOnline` (the attributes mirror
the stores while the node is online), `OrphansAlwaysByCrash` and
`LiveFabricAlwaysKeepsCertificates`: a fabric that stays loses a certificate by its own
removal command, the one it names and not one in use, and by no other step.
`OwnersAnnounced` rests on the assumption `Reacted`
of section 2. `ForgottenForGood` is the safety half of `RemovedFabricsForgotten`: what a
removed fabric has lost does not come back. That it is lost needs fairness, and is
model-checked.

What the servers keep alone they keep when composed, although a reaction then uses an
old list of fabrics and a stop empties the attributes. The lemmas about the servers are
therefore stated for steps with arbitrary parameters (`ServerStep`: commands with any
endpoints and any time, any reaction, any start; `EndpointStep`: commands with any
attributes, any pruning), and each step of `RootNode` is shown to be one of them or to
leave the server alone. So the composed node has unique ids and addresses, exact lookups
and certificates beside their keys (`NodeKeepsServersConsistent`), keeps its quotas
(`NodeKeepsQuotas`), never runs out of ids (`NodeAllocatorsNeverExhausted`), keeps the key
of an entry (`NodeRotationKeepsKey`), changes an endpoint only by
the command of its fabric that names it, or by the pruning once its fabric has left
(`NodeOnlyNamedEndpointsChange`), and implements `ClientCredentials`
(`NodeImplementsClientCredentials`). `NodeTypeCorrect` includes that a
stopped node shows no certificate in an attribute, which no invariant about the stores
says (`ProcessTypeOK`).

`TimeSynchronizationProofs` proves `TablesAlwaysReported`, for any zones, DST entries,
delays of the handlers and restarts: while a second zone is scheduled, the last event
reported one of the two (`ReportInvariant`). `TimeInvariant` is about the attributes: the
TimeZone list starts with the entry in use and schedules at most one other, and in the
DST table every entry is over when a later one starts, for any two of them and not only
for neighbours (`InOrder`), because what is left when an entry between them expires must
be in order too. `SetDstOffset` establishes it by the test of neighbours (339-340) and
the transitivity of the order; a filtered table keeps it by `FilteringProofs`. From it
follow `TimeTypeCorrect`, `AlwaysSynchronizedOnline` and `AlwaysAtMostOneDst`.
`DstStatusAccurateWithoutRestart` assumes `~MayRestart`, as `MCDaylightSaving` does, and
needs that the online server agrees with its subscribers on `dstActive`
(`DstReported`); `MCDstStatusRestart` shows that it is false with restarts.

`FilteringProofs` has the lemmas about `Filter` that both users need: the positions kept
are numbered in their order without a gap, so that the result is a sequence of the
entries kept and of no others, in their order.

`CameraPlatformProofs` proves of the platform, for any sets of devices the lists let
pass, any cameras and any number of commands in flight, that onStart never throws
(`PlatformTypeCorrect`), that no interval outlives the shutdown
(`TimersNeverOutlivePlatform`), that a plugin configured without the animation leaves
the chime enabled (`ChimeAlwaysEnabled`) and that the sessions open at the call of
onShutdown are closed in time (`SessionsAlwaysClosed`). `PlatformInvariant` adds to
them what makes them inductive: the platform holds the handle of the only interval
(`IntervalHeld`), sessions belong to devices it still has and the early ones are in
the list still to close, and only an animated configuration has an interval or a
command in flight.

`ChipTestsProofs` proves three properties for any list of tests. `ReadyInvariant` follows
`--start`: until the restart the process has no plugin, so the marker the wait finds is
of the process that has the config; and in a ready container the old process printed
its marker before `restartedAt`. `ResidueInvariant` follows the residue through a reset,
which empties the storage before the restart empties the memory. `ResultsInvariant` says
that each result is of a selected test, because the loop is at the least test left.

`RepositoryProofs` proves of the composed scripts, for any commits, rebases, tags, remotes
and groups, that no commit of `dev` leaves the clone and that no push drops a change
(`SyncInvariant`: every tip in the reflog has only changes that `dev` still has, every
commit `dev` ever had is in `dev` or in a backup, and a rebase comes after its backup),
and that after a success of `prune-tags.mjs` the tags to delete are accounted for: gone
from the remote unless pushed again, and from the clone unless `tag -d` failed for them
(`PruningInvariant`: until then the tags still on the remote, then those still in the
clone, are among those left to do).
`ExitZeroAlwaysMeansDeleted` is about the pages GitHub lists: for any page size and any
number of items a success of `prune-releases.mjs` or `remove-workflows.mjs` means that
what was due is gone, although others create items and change their kinds meanwhile.
`ListingInvariant` follows an item that is due: the listing is newest first
(`NewestFirst`), so a creation moves it only towards pages still to be read, and while
the pages are read it is in one of those or among the items read
(`DueIsListedOrAhead`); later it is among the ids to delete (`DueIsDoomed`), which is
where the kind of the item must not have changed (`DueItems`). The property excepts the
deletion of an item by someone else during the reading, which moves items the other way.

The assumptions are those the modules state on their constants: `TlsIdsAssumption` (at
least one id and one fabric index, a null that is no number), `CertificatesAssumption`
(validity is a function to sets of times, null is no certificate, quotas are naturals),
`EndpointsAssumption`, `TimeAssumption` (at most two time zones, as the code allows, and a
null that is no number and no time source; every zone has an offset and a name), `CameraPlatformAssumption`,
`ChipTestsAssumption`, `PruneTagsAssumption`, `PagedDeletionAssumption` and
`SyncDevAssumption`. TLC evaluates them on the runs of their modules.

Two theorems have a hypothesis beyond these: the one that the limits fit the id
space, for the three allocators, and `~MayRestart`.

Only model-checked is liveness (`RemovedFabricsForgotten`, `ScheduledTimeZoneApplied`,
`StartCompletes`, `AnimationReenablesChime`, `EveryInvocationEnds`), which is out of the
prover's reach, and what TLC refutes. Two properties are not stated by a theorem of
their own form for the same reason: of `RemovedFabricsForgotten` only `ForgottenForGood` is
proved, and of `DstStatusAccurate` the case without restarts.

## 5. What is not modelled

- The octets: PKCS #10 and DER encoding, signatures, SHA-256, the hostname and IPv6
  expressions. They are represented by what they decide.
- The view of the attributes over a transport without large messages
  (`Val.properties`, 811-830): it drops payloads of a read and changes no state.
- The Power Source server of the Root Node: `addRootNodeCamera` only configures it.
- Of `module.ts`: the select list, the version strings and the media options of the
  devices, which only affect the frontend and the `matterbridge` package. The
  model shows that two ffmpeg installations may run at once and that a session opened
  while onShutdown closes the others stays open; the code promises nothing of either.
- The devices and WebRTC sessions, implemented in the `matterbridge` package.
- `git-status.mjs`, `downloads.mjs`, `create-release.mjs`, `version.mjs`, `clean.mjs`,
  `deep-clean.mjs`, `prepublish-clean.mjs` and `scripts/chip/commission_node.py`: they
  print what git, npm, GitHub or a controller answers, or rewrite and delete files in one
  pass, with no state of their own between two steps.
- Of the modelled scripts: their arguments and output, the names and logs of the tests, the
  variants of the commands on Windows.
- A session that commands SetTrustedTimeSource while its fabric is being removed: when
  matter.js closes such sessions is outside this repository.

## 6. Plan

1. Done: `TlsIds`, `TlsCertificateManagement`, `TlsClientManagement`, `RootNode`,
   `TimeSynchronization`, `CameraPlatform`, `ClientCredentials` and its refinement,
   `ChipTests`, `PagedDeletion`, `PruneTags`, `SyncDev`, `Repository`, their runs, and the
   proofs above.
2. A controller that provisions a chain of root certificate, key pair, client certificate
   and endpoint on `RootNode`, with lost replies and retries.
3. The trusted time source composed with the fabrics of `RootNode`; LocalTime as a sum
   of attributes read at different moments.
4. Proofs: an abstract directory of TLS endpoints that `TlsClientManagement` and `RootNode`
   implement, as they do `ClientCredentials` for certificates; a simulation of `SyncDev` by
   a repository that only ever gains changes; for liveness, the bounded measures that
   `EveryInvocationEnds` and `RemovedFabricsForgotten` rest on.
