# RetroSaveManager: specification of the save server

RetroSaveManager keeps the save games of emulators and consoles on one
server. Helpers on devices upload saves and ask for the latest one; a web
page lists them and can delete them or roll back. The server is one Go process
(`backend/cmd/server`). Everything it keeps is in files below `SAVE_ROOT` and
`STATE_ROOT` and in a read model in memory; there is no database and no
transaction across the two.

This directory holds TLA+ modules translated from that server, the TLC
configurations that check them on small instances, and proofs checked by TLAPS.

## Inventory

| Part | State | Operations | What makes it hard | What makes it correct |
|---|---|---|---|---|
| Save store and read model (`save_store.go`, `save_index.go`, `save_handlers.go`, `save_preconditions.go`, `save_dedupe.go`, `app_state.go`) | one directory per save with `payload.*` and `metadata.json`; `app.saveRecords`, `app.saveIndex` | upload, roll back, delete, reload, latest lookup | no lock spans a request; two files per save; reloads overwrite the list; crashes | nothing acknowledged is lost; the list and the index do not lie; one revision per content; conditional uploads replace what they name |
| Archive and list uploads (`save_upload_expansion.go`, `upload_limits.go`) | none of its own | one upload per entry | cut short and sent again | each content is stored once; the answer names what became of every entry |
| PlayStation projections (`playstation_*.go`) | logical saves, revisions, tombstones, projections, device lines, in one state file | import a card, rebuild, download, roll back, delete | deletion by absence against a baseline; state file and save records are two stores | a device deletes only what it has seen; no revision is lost; projections agree with the logical saves |
| N64 controller paks (`n64_controller_pak.go`) | the same without devices | the same, and a cleanup | deletion by absence, whoever uploads; a save may move to another line; one directory holds the files of all revisions | what was acknowledged stays; paks show the active saves |
| Memory card images (`playstation_memorycards.go`, `playstation_sync.go`, `dreamcast_vmu.go`, `saturn_backup_ram.go`) | none | read a card, build one | linked blocks in any order; remains of deleted saves | a save is read whole from a card, and a card built by the server holds what was uploaded |
| Runtime profiles (`runtime_profiles.go`, `n64_projection.go`, `nds_projection.go`) | none | normalise an upload, project a download | wrappers, byte orders, volumes | a copy means to its runtime what the original meant; sent back it is the same revision |
| Devices and app passwords (`security_state.go`, `helper_auth.go`, `auth_handlers.go`, `auth_extra_handlers.go`, `device_handlers.go`, `device_config.go`) | devices, keys, the enrolment window, in one state file | enrol, authenticate, delete, configure | handlers take the lock twice; a password and a device name each other | a password acts for one machine; a bound password works; what memory says is saved |
| Device policy (`device_policy.go`, `device_handlers.go`) | sources and allowed systems of a device | report, set, ask | reports stored later than authorised | the operator's policy survives reports |
| Events and conflicts (`events_handlers.go`, `conflict_handlers.go`, `app_state.go`) | subscriber channels of 16 events; `app.conflicts` | report, resolve, publish, subscribe, detach | change and event are two steps; send after a copy of the channels; a full buffer drops | publishing never blocks; clients that missed nothing know the truth |
| Sync log (`sync_log_state.go`) | at most 5000 entries, 14 days | append, list | entries bring their own time | the newest entries are shown, once |
| Web sessions (`auth_web_sessions.go`) | at most 64 sessions in a file | create, validate, revoke | cap, expiry, failed writes | a session lasts, a revoked one is over |
| Login throttle (`browser_security.go`) | failures and blocks per client | ask, record, clear | time read before the lock | guesses in a stretch of time are bounded |
| Cleanup and rescan (`save_cleanup.go`, `save_rescan.go`) | none of its own | remove duplicates, renumber, re-detect | many files, no transaction, others at work | every content survives; numbers stay distinct and in order |
| Layout migration (`save_layout_migration.go`) | the manifest file | move directories, roll back | stopping between two renames | a rollback restores every directory |
| Validation and quarantine (`save_validation*.go`) | one directory per rejected upload | list, retry, delete | import and removal are two steps | what was rejected stays until somebody deletes it |
| Cheat packs and game modules (`cheat_service.go`, `cheat_store.go`, `cheat_library.go`, `game_modules*.go`) | packs, tombstones and modules on disk | enable, disable, delete, upload, synchronise, import | status in three places; no lock | what was switched off stays off |
| Save editors (`cheat_sm64.go` and its siblings) | none | apply updates to a payload | two copies, checksums, shared bits, map order | every readable copy shows the edit and nothing else changed |
| Normalisation, detection, format validators, native ports | none | functions of one payload | byte formats | unit and golden tests |
| Agent API, routes, views, web frontend, deployment | none | read | none | not modelled |

All of them meet in `app`: one mutex, `app.mu`, guards its maps for the length of
one access. A handler takes it, releases it, works on files without it, and
takes it again. A save created by any of them (upload, quarantine retry, cheat,
card import) goes through `app.createSave` and `saveStore.create`; a deletion by
any of them ends in `reloadSavesFromDisk`. `SaveStore` models these step by step;
the other modules take an upload or a deletion for one step where what they are
about does not depend on its parts.

## Plan

Done, in this order: the save store and its proof; PlayStation projections;
devices and app passwords with their proof; events and conflicts, sync log, web
sessions, login throttle, device policy; controller paks; cleanup and rescan,
layout migration, quarantine; cheat packs and modules, save editors, runtime
profiles, card images, archive uploads; the proofs of controller paks, layout
migration, quarantine and web sessions; those of PlayStation projections, of the
store in turn, of what devices and passwords keep until a report is overtaken, and
of what a controller pak shows; those of cleanup and rescan, lists of uploads,
notifications, the log, the throttle, the policy of a device and cheat packs.

Left:

1. The cleanup of PlayStation projections, and the two offline commands
   `backfill-playstation` and `rebuild-playstation-projections`.
2. Local cheat overlays, of which see `CheatLibrary` below.

## Modules

| Module | What it is |
|---|---|
| `SaveLedger` | The promise: a save is stored once and stays; a client is promised stored saves only; somebody may decide to erase one. |
| `SaveStore` | The code: disk, list, index, and one program counter per request handler. |
| `SaveStoreProofs` | The inductive invariant, the refinement and the lemmas. |
| `SaveStoreInTurn`, `SaveStoreInTurnProofs` | What the store promises as long as no two requests overlap; the invariant that says what of its looks a request may still rely on. |
| `PlayStationSync`, `PlayStationSyncProofs` | One memory card slot of one PlayStation system: logical saves, tombstones, baselines, projections, and the requests that change them; that memory is ahead of the file, and what follows. |
| `DeviceAuth`, `DeviceAuthProofs` | Devices, app passwords, the enrolment window, and the requests that enrol, authenticate, report and delete; the inductive invariant of the links between devices and passwords, and what more holds until a report is overtaken. |
| `N64ControllerPak`, `N64ControllerPakProofs` | The controller paks of several sync lines, their logical saves and the cleanup of both; that no stored save and no payload is lost, and that the latest paks show the active saves. |
| `SaveCleanup` | Rescan, removal of duplicates and renumbering of stored saves, with uploads, rollbacks and deletions in between. |
| `LayoutMigration` | The migration of directories and its rollback. |
| `Quarantine` | Rejected uploads, their retry and deletion. |
| `BulkUpload` | Archives and lists of files. |
| `MaintenanceProofs` | Of these four: that contents and order survive a rescan, that a layout rollback restores, that a rejected upload is kept, that a list sent again adds nothing. |
| `Notifications` | Conflicts and the events sent to streams. |
| `DevicePolicy` | The sources and systems of a device. |
| `EventsPolicyAndPacksProofs` | That clients know the truth about conflicts, that an operator's policy survives reports, and that a pack switched off stays off. |
| `SyncLog`, `WebSessions`, `LoginThrottle` | The log, the sessions of the web page, the throttle on failed logins. |
| `LogAndLoginsProofs` | That recent entries are shown once, that sessions last as they should, that guesses are limited. |
| `CheatLibrary` | Cheat packs and game modules. |
| `SaveEditors` | What an edit of a save does to its copies. |
| `RuntimeProfiles` | The forms of a save on its runtimes. |
| `MemoryCards` | Images of PlayStation, PlayStation 2, Dreamcast and Saturn cards. |
| `MCSaveStore`, `MCPlayStationSync`, `MCDeviceAuth` | Constants for TLC. |
| `MCServices`, `MCMaintenance` | The modules above that share no state: a variable `part` chooses which one a behaviour is of, the others stay as they began. One run then asks its question of each of them. They are extended, so that a run checks the very definitions that are proved; only `SaveEditors`, `RuntimeProfiles` and `MemoryCards` in the first, and `PlayStationSync` and the paks of a single line in the second, are instances. |

### SaveStore and the code

| Variable | Code |
|---|---|
| `payload`, `metadata` | which of the two files of a save directory exist |
| `rec[i]` | the contents of save `i`: version key, SHA-256, version, and whether a rollback made it |
| `saveRecords[i]` | how often `i` occurs in `app.saveRecords`; its order is that of `SaveRecordSortsAfter` for every question asked here |
| `saveIndex` | `latestReadableByKey` |
| `pc`, `job`, `held` | where a handler is, the input of its creation, and the ids it carries from an earlier look at list or disk |
| `clock` | reads of the clock that named a save |
| `acked`, `removed` | history: what clients were told, what somebody began to delete |

| Request | Actions, in order | Where they part |
|---|---|---|
| upload | `Upload`, `Snapshot`, `NoDuplicate` / `IgnoreDuplicate` / `RejectStale`, then creation | `latestReadableSaveRecord` and `snapshotSaveRecords` are separate critical sections |
| rollback | `Rollback`, then creation | |
| creation | `LoadForCreate`, `WritePayload`, `WriteMetadata`, `Prepend`, or `CreateFails` | one scan, one file at a time, one critical section |
| delete (one, many, game) | `Delete`, `UnlinkFile`, `DirectoryGone`, or `RemoveFails`, then reload | one unlink at a time |
| reload | `Reload`, `LoadForReload`, `AssignLoaded`, or `LoadFails` | the scan is outside the lock |
| crash | `Restart` at any time | memory is rebuilt by `initSaveStore` |

Abstractions, and why they are sound for the properties stated:

* The names of a save. An id is `save-<nanoseconds>-<sha>`; two reads of the clock
  are taken to differ, so a save is the number of its clock read. The loop that
  appends `-2` to an id that exists is then never entered.
* A version key stands for ROM and slot, a track for system, title and region.
  Normalisation computes them from the payload and the request; here they are
  constants, and a key belongs to one track.
* `load()` is one step. It reads a directory tree while others change it; what it
  finds is taken at one instant. That it may fail because a directory disappears
  under it is `LoadFails`.
* Writes are by rename (`writeFileAtomic`), so a file exists whole or not at all.
  They may fail; nothing else on disk does.
* A crash loses memory and not files.
* Deletion walks its targets newest first, as the list is ordered.

### PlayStationSync and the code

| Variable | Code |
|---|---|
| `state` | `playStationStore.state` for one sync line: revisions and latest revision per logical save, tombstones, the projection lines and their projections, the baseline of each device |
| `stored` | the same in the state file |
| `records` | the save records of projections in the save store, by profile and rebuild |
| `requests` | what the requests in flight have yet to do: the step, the profiles still to materialise, the record to answer with, and what the client will take the answer to mean |
| `held` | the card each device last received, which the server does not know |
| `faults` | how many writes failed, answers were lost or records vanished |

| Request | Actions, in order |
|---|---|
| upload of a card | `Upload`, `Materialize` for each profile built, or `Lookup` and perhaps `Repair`, then `Answer` |
| `GET /save/latest` | `RequestLatest`, `Repair`, `Materialize`, `Answer`; nothing changes when the latest projection has its record |
| download by id | `Download` |
| delete one save of a card, or the card | `DeleteLogicalSave`, `DeleteProjection`, then as an upload |
| roll back one save | `RollbackLogicalSave`, then as an upload |
| roll back a card | `RollbackProjection`, `ImportForRollback`, then as an upload |
| restart | `Restart` at any time: `load()` reads the file |

An operation under `playStationStore.mu` is one step. It changes the state in
memory first and writes the file last, and a rebuild that fails at a profile has
already replaced the projections of the profiles before it; `RebuildAndPersist`
has a disjunct for each of these ends.

Abstractions:

* A save takes one block, and `Capacity` of them fit on a card. The PlayStation 2
  builder reports an error where the PlayStation builder stops; that end is the
  failed rebuild.
* Content is a model value per logical save. A revision is its content; ids, times
  and imports are left out.
* A projection is named by its profile and the rebuild that made it, as its id is
  by line and time.
* The keys of the saves on one uploaded card are distinct.
* A download by a device of a record of another profile's line is left out, and so
  are the two maintenance passes over old records.
* The baseline that a card rollback stores for a device line it invents is kept in
  the request: nothing else reads that line.
* The precondition of a conditional upload only rejects; it is a
  `RequestLatest` followed by an `Upload`.

### DeviceAuth and the code

| Variable | Code |
|---|---|
| `state` | `app.devices`, `app.appPasswords`, `nextDeviceID`, `nextAppPasswordID`, and whether the enrolment window is open |
| `stored` | the same in `security_device_state.json` |
| `reports` | the copy of its device (`helperCtx.Device`) that a handler holds between authorising a report and storing it |
| `faults` | how many writes of the file failed |
| `raced` | history: a device was deleted while a report about it was in progress |

| Request | Actions |
|---|---|
| helper request with a password | `AuthenticateHelperKey` |
| helper request without one | `AuthenticateHelperWithoutKey` |
| config report, config sync, heartbeat | one of these, then `StoreReport` |
| enrolment through the API | `HandleAuthTokenAppPassword` |
| sign-in that names a device | `HandleAuthLogin` |
| create or delete a password, delete a device, open the window | `HandleAuthAppPasswordsCreate`, `HandleAuthAppPasswordsDelete`, `HandleDevicesDelete`, `HandleAuthAppPasswordsAutoEnable` |
| time, crash | `WindowEnds`, `Restart` |

A handler holds `app.mu` from its first look to its write of the file, so it is one
step; only a report is two. `Save` is the write: its error is dropped everywhere, so
a step may change memory and not the file.

Abstractions:

* An identity is a device type and a fingerprint, as they compare with case folded;
  `Machine` is the fingerprint. A password is its number, and knowing its secret is
  any helper's choice: whether the secret matches is not what these properties are
  about.
* Where the code walks a map and takes the first that fits, the model takes any.
* A device that does not exist has no identity, a password that does not exist is not
  issued. Ids are given out in order and end at a bound.
* What is reported, aliases, the allowed systems and times are left out. `PATCH` of a
  device changes only those.
* The end of the window is a step of its own that changes memory and file: the file
  holds the time, and a restart reads the same clock.
* A start removes the demonstration data and, if nothing is left, numbers from one
  again (`Started`).

### The other modules and the code

Each variable and action has the name of what it stands for in the code; the
module's comments say where the steps of a request part. What follows are the
abstractions.

`N64ControllerPak`. A pak is a function from logical saves to contents; its bytes
are read and written by the external library `pakfs`. An operation under
`n64ControllerPakStore.mu` is one step, as in `PlayStationSync`, with a failed
write at each place the code has one. Of every pak that was built a save is created
(`Materialize`) and then entered in the state (`Attach`); others, or a restart, may come
in between. A logical save is filed by game and note
(`n64_controller_pak.go:935`), so the same note uploaded for another ROM or slot
moves the save there; `n64_controller_pak_test.go:105` relies on that. The paks of
its former line keep showing it until their next change, so `PaksShowActiveSaves`
is about lines whose saves no other line uploaded (`OwnSaves`). A duplicate pak is told by this module and not by
the save store's check.

`SaveCleanup`. An upload, a rollback and a deletion by others is one step each
(`SaveStore` has their parts). A client may give a creation time older than its
predecessor's; the renumbering then changes the order of revisions, and the
property leaves such histories out, as it does saves that changed their key.

`LayoutMigration`. A save is its directory; a rename either happens or not. The
commands run while the server is down, and a server in between may file a save
under another title. The quarantine's directories lie below the save root and are
moved with the rest where a `metadata.json` is found.

`Quarantine`. One game; an upload that is accepted is one step. A removal cut short
that leaves `metadata.json` alone makes later rejections of the content only count
it (`save_validation.go:341`), and the property leaves those contents out (`Torn`).
A reload lists a quarantined file as a save without an id, which the page shows
and nothing can open.

`BulkUpload`. One client with one request at a time; `Uploads` is the loop that drops
the entries of an archive that are no saves. An archive's slots tell saves
apart only when the request has the hash of a ROM; a list never has. Lists are
neither quarantined nor checked against the policy. The precondition of the
request is evaluated once, for the archive's name. Writing to quarantine is taken
to succeed. An observation beside the model: a PlayStation card or controller pak
inside an archive is stored as it is, without a projection
(`save_upload_expansion.go:189`), until the backfill command is run.

`Notifications`. Events that tell nothing about a conflict are all `Other`. `crossed`
marks a conflict that two requests changed at once: their events may reach a client
in either order.

`SyncLog`, `WebSessions`, `LoginThrottle`. Time is a small counter, and each handler
holds the time it read before it took the lock. In `LoginThrottle`, `MaxDelay`
bounds how long a login takes; two such delays are less than a block, as the
password check takes well under a minute (`ThrottleAssumption`).

How many guesses the throttle allows is less obvious than it looks. A client that
is blocked may have other logins past the throttle already. Each of them adds a
guess to those of the block; or, when it began after the block was over, begins a
series of its own. And a guess is recorded with the time its login began, which may
set the end of a block back. So no stretch of time as long as a block is safe, but one
shorter by two delays is: in it fall the end of one series and the beginning of the
next at most, each with up to one guess for every other login, which makes
2 * (`FailureLimit` + logins at once - 2). Both reductions are needed: TLC finds a
behaviour with one guess more for a stretch of a whole block, and for this bound less
one.

`DevicePolicy`. One device, with sources of two origins and a small set of systems.
`Merge` is the loop of the code, source by source, since lists may name an id more
than once: a source of the operator's then replaces the last one of that id.

`CheatLibrary`. What a pack says is left out, its place and status are kept. A module's
directory and its `module.json` are one: there, or being written again. Of several
modules with one pack the first counts, in an order that is fixed (`Place`): a bundle
keeps the system and title of its module. All packs of a module share its status. A
change of a pack looks its module up again, and takes the pack for one of the runtime
store when no module has it any more (`ModuleIsGone`). The property speaks of a pack
switched off by a request that met no other concerning the same pack or module. It then
leaves out what the code does not promise: overlapping requests; a synchronisation or
import that looks while a module's directory is gone and so sees neither its packs nor
its status; an import cut short between removing the module and writing `module.json`,
which loses the status; bundles that bring a pack or drop one; the pack that a module
hides, which is seen while the module is written again. An
observation beside the model: a local cheats file of a pack is merged into the
slice that the built-in pack shares (`cheat_service.go:570`), and stays merged
until the next start.

`SaveEditors`. A copy is a set of option names; checksums are the difference between
a copy and `Torn`. Fields that share bits, mirrors, limits and rebuilt blocks are as
in the code. `Remade` names what an editor makes anew or drops: Super Mario 64's
block is rebuilt without the place of the lost cap, Diddy Kong Racing's without
bits no option names, the selected bottle and the percentage are computed. Where two
fields write the same bit, which of them wins depends on the order of a Go map
(Star Fox 64's `playedPlanets` and `venom2Played`, Ocarina of Time's limits); edits
that name both are left out for those bits. Diddy Kong Racing and the Donkey Kong
Country games have one copy per slot, so a torn slot stays torn.

`RuntimeProfiles`. A form is the set of its parts, a part's image is the progress in
it, its size and its byte order. What a runtime finds in a file is external: it is
taken from the documentation of the conversions. Left out of the property: No$GBA
data with an erased end comes back smaller (`nds_projection.go:268-281`), and a
Saturn image with one volume is stored in place of one with two. Two observations:
a Dreamcast container is called `vmu-bin` by the parser (`dreamcast_vmu.go:136`)
where the profile expects `bin` (`runtime_profiles.go:472-474`), so MiSTer images are
answered 400; a RetroArch `.srm` with two media that hold data is refused.

`MemoryCards`. Consoles lay blocks out in one of two orders and leave remains of
deleted saves in free ones; PlayStation 2 directories are one level deep, and titles,
spare areas and the second level of the table are left out. On a PlayStation card a
console links a block by its number less one (`ConsolePS1`, `ConsoleReadsPS1`), where
the server takes and writes the number itself (`ChainIndices`, `RelinkedFrame`); so the
server cuts a save of several blocks short, as `card_links` shows. `CardsAreReadBack`
therefore says of a PlayStation card that a console left only that each save is found
once, by its first block, and is whole if that is all it has; of the cards of the other
systems, and of cards the server built, it says that they are read back exactly. Games
deal with whole saves: a save found cut short is written anew or deleted before another
is written. A PlayStation 2 save whose title changes gets
another logical key and the same directory on the built card
(`playstation_sync.go:1416`); titles do not change in the model. Removals by
absence are `PlayStationSync`'s.

## Runs

| Run | Instance | Shows |
|---|---|---|
| `save_store` | 2 slots of one game, 2 contents, 1 deletion; 2 handlers, with 3 saves until two requests overlap and 2 after | what always holds, and that the store implements the ledger; in turn, also versions, contents, list and conditional uploads, with failures and crashes inside a request |
| `memory_cards` | 2 profiles with a device each, 2 saves of which one is private to a profile, 2 rebuilds, 1 request, 1 fault | what a request is answered is in the file and stays there; without faults the latest projections show the active saves |
| `app_passwords` | 2 machines, one with 2 device types, 3 device ids, 2 password ids, 1 report at a time, 1 failed write | links between devices and passwords, passwords that work and stay with their machine, and that a restart brings back what memory says |
| `services` | one of `Notifications`, `SyncLog`, `WebSessions`, `LoginThrottle`, `DevicePolicy`, `CheatLibrary`, `SaveEditors`, `RuntimeProfiles`, `MemoryCards` | the property of each, and that publishers finish |
| `maintenance` | paks of one line with 3 revisions and of two lines, one PlayStation card with two devices and 3 rebuilds, `SaveCleanup`, `LayoutMigration`, `Quarantine` or `BulkUpload` | that nothing accepted is lost and nothing deleted comes back, whoever else is at work and wherever a step fails |
| `lost_update` | 2 handlers, 1 slot, 2 contents, 2 saves | a conditional upload of a slot succeeds although another upload, conditional or not, was stored since it passed the check: the other's update is lost |
| `stale_download` | 1 profile, 2 devices, 1 save, 3 rebuilds | a device deletes a save it never received |
| `full_card` | 2 saves, a card with room for one | a device deletes the save that was left off the card it was sent |
| `rollback_of_deleted` | 2 profiles, 1 save, 3 rebuilds | a rollback that promotes nothing |
| `deleted_device` | as `app_passwords`, no failed write | a deleted device comes back with its password |
| `card_links` | `MemoryCards`, one PlayStation card, a save of two blocks | a save uploaded and fetched again is cut short |
| `old_cards` | `MemoryCards`, two devices with a PlayStation card | a card of old revisions is taken for a new one |

### Always, and in turn

Always: `MetadataHasPayload`, `AcknowledgedSavesAreStored`,
`ListedSavesAreStored`, `LatestIsNewest`, `ImplementsLedger`.
The four properties named `...InTurn` are of behaviours in which no two requests
were served at once so far (`overlapped`, a history variable of `SaveStoreInTurn`),
wherever one of them fails or the process stops; two handlers break each of the four: the
version number comes from a scan without a lock (`save_store.go:147`), the
duplicate check reads a copy (`save_handlers.go:499`), a reload assigns what it
scanned earlier (`app_state.go:332`), and the precondition is checked before all of
that (`save_handlers.go:257`). The last is what
`save_preconditions_test.go:30-31` denies, and is kept as the run `lost_update`. Of the
others nothing in the repository promises more for requests that overlap, and the hazard
that names them has no property.

### Bounds

Every race of the store is between two requests, so two handlers. Two slots of
one track are what tells the two scopes of the duplicate check apart. With two
saves there is an older and a newer revision; one deletion leaves the other one.
Requests in turn have three saves (`MaxTogether` keeps a behaviour in which two
requests overlapped at two), so that a deletion leaves a revision newer and one older than the deleted one. Handlers,
slots and contents are interchangeable, hence the symmetry sets.

For the cards: `memory_cards` has a save that one profile sees and the other does
not, a rebuild after the first one, and one failure at any point, so every partial
rebuild and every restart after it. The card in `maintenance` needs three
generations: one that a device holds, one that replaces it, and one made from a
stale upload; two requests at once let a download fall between the two steps of
another device's upload.

For the paks: three revisions of one save are what a rollback and a deletion in the
middle need, two lines what moves a save. `SaveCleanup` starts from two saves of an
earlier release, in any keys, one of them that of a card's, with any contents, and adds one: enough for two equal
contents with a third upload or rollback before, between and after the steps of the
cleanup. `LayoutMigration` has two saves, so a command can stop after one.
`Quarantine` has two handlers and two contents, one of which a retry imports.
`BulkUpload` sends two requests of up to two entries with one restart or failure.

For the services: a channel holds 2 events for 3 requests of 2 to 5 events each, so it does
fill; the log keeps 2 of 4 entries; 1 session of 2 is kept; the throttle blocks after
2 of 5 guesses and remembers 1 client of 2, so that pruning bites; two workers meet
on two modules that share a pack. A conversion or an editor is applied up to three times in a
row, on every game and runtime of its table. A card holds 4 blocks and saves take 1 or
3, so the third save may not fit. In `MCServices` and `MCMaintenance` the parts
that a behaviour is not of start in one state.

Deadlock is checked in every run but `services`, `maintenance` and the violations of their
modules, where bounded counters end: there no request waits for another, except for
publishing, about which `PublishersFinish` is.

### Fairness

`Notifications` has weak fairness of the steps of a handler, `WF(HandlerStep(h))`: the
Go scheduler runs every goroutine that can run. Nothing is assumed of clients, who may
stop reading. `PublishersFinish` says that a handler that publishes gets done; were the
send one that waits for the client, one that does not read would hold it up. No other
module claims liveness: a request waits for nobody, and whether it goes on is up to the
file system.

### What the violations mean

`stale_download`: the download handler marks the *latest* projection
as the one the device has, though it served the record the device named; so a
device that downloads an older card (or the one it was told about a moment before
another device uploaded) deletes, with its next upload, what it never received.
`RemovalsMatchDownloads` is what does hold: a device that did receive the
projection marked as its download deletes nothing else.
`full_card`: the PlayStation builder leaves off the saves from the first that does not
fit, and the manifest lists them all the same; so a device that sends the card back
deletes them. `RemovalsWereOnTheCard` asks that the save was on the card the server
sent, and `stale_download` is excluded by `HoldsItsBaseline`: the device has that very
card.
`rollback_of_deleted`: a rollback of
one save of an older card leaves the tombstone of a save deleted since, so the
save stays deleted; rolling a whole card back imports it as a card of known
contents, which makes none of them the latest.

`old_cards`: the hash that recognises a revision covers the directory frames, and the
server rewrites the links in them when it builds a card; the same save coming back
from there is then a new revision. In the run the server has cut a save of two blocks
to one and ends its chain, where the console's frame led on.
`card_links`: the links on a console's card are block numbers less one, and the server
takes them for the numbers. The link in block 1 of a save in blocks 1 and 2 is then 1,
a block already visited, and the save ends there. The server agrees with itself, so
that its own cards are read back (`CardsAreReadBack`), but a console follows their links
one block off. The server's tests have no PlayStation save of several blocks.

`deleted_device` is about the ordinary course: the page says that a deleted helper
must enrol again, while its password stays and makes the device anew.

Other behaviours worth knowing of, which the models have and the properties allow:

* A rescan goes through every `metadata.json` below the save root. It takes quarantined
  uploads for saves and removes those still rejected (`save_store.go:110`), and it
  strips the saves built from a card of profile, slot and projection
  (`save_rescan.go:78`). `RescanTakes` and `ScanRewrites` do; the properties of
  `maintenance` hold with them.
* The import of a card files the tombstone of a missing save under the sync line, also
  of one that is private to a profile, for which nobody looks there
  (`playstation_sync.go:529`): the save stays, and if nothing else changed the upload is
  answered with an error.
* Every layout command writes its manifest over the last one, so a rollback forgets the
  moves of a command cut short before (`save_layout_migration.go:108`).
* A pack switched off while a synchronisation is under way may come back
  (`cheat_library.go:61`).

A restart may bring a deletion back, or undo one, although no write failed: an
upload that removes only saves that no card has room for leaves every projection up
to date, which the import takes for an error ("no PlayStation projections were
generated", `playstation_sync.go:625`) and so does not write. `DeletedSavesStayDeleted`
and `RemovalsMatchDownloads` except the step to what the file says (`state' =
stored`), and nothing else; the first then holds whatever fails.

For devices: with three device ids a device can be deleted, be enrolled again and
meet the device of the other machine; the two identities of one machine tell apart
"the same identity" and "the same machine" in `authenticateHelperKey`, and are
interchangeable. Two passwords are what a displaced password needs. One report in
progress is enough, since a report reads and writes one device; a second one would
do the same to its own copy.

What `raced` excuses. A report that finds its device deleted stores its own copy
(`device_handlers.go:307`), with the link to a password that may have gone on to
another device. From then on two devices may have one identity, a helper may be
turned away by a password it does hold, and binding may follow the stale link and
unbind a password in use, which then binds to any machine. `security_state.go:664`
says a displaced password is removed "without disturbing passwords still in use".
TLC finds each of these when the exception is dropped from
`DevicesNameTheirPassword`, `BoundPasswordsAreAccepted` or
`PasswordsKeepTheirMachine`; with it, all three hold and are proved.
`PasswordsNameTheirDevice` needs no exception.

## Proofs

`SaveStoreProofs` proves, for any handlers, slots, tracks, contents and bounds:

| Theorem | Says |
|---|---|
| `TypeCorrect` | `Spec => []TypeOK` |
| `PayloadWrittenFirst` | `Spec => []MetadataHasPayload` |
| `NothingAcknowledgedIsLost` | `Spec => []AcknowledgedSavesAreStored` |
| `NothingListedIsMissing` | `Spec => []ListedSavesAreStored` |
| `IndexAnswersTheNewest` | `Spec => []LatestIsNewest` |
| `Refinement` | `Spec => Ledger!Spec` |

The argument. `MetadataHasPayload` is not inductive: `WriteMetadata` adds an id, and
that its payload is there must come from somewhere. `IInv` adds what a handler in
the middle of a request relies on:

* `JobsAreSet`: a handler that creates a save knows which;
* `NamesAreFresh`: the id it is creating is nobody else's, so no other handler can
  list, promise or delete it;
* `WritesAreOrdered`: after the payload step the payload is on disk, after the
  metadata step both files are;
* `ReferencesAreKnown`: what a handler holds from an earlier look was on disk then;
* `RemovalsAreMarked`: what a handler unlinks is in `removed`.

There is one lemma per action, `NextInvariant` puts them together, and the ledger's
steps follow from the invariant: `WriteMetadata` is `Store`, the responses are
`Promise`, the start of a deletion is `Retire`, an unlink is `Erase` or a stutter.

`IndexAnswersTheNewest` needs an invariant of its own (`IndexInv`): the index holds
the newest of what was listed and readable when it was built, and since then
files only vanished, or a save nobody listed appeared. That `CHOOSE` picks *the*
newest needs that a finite set of revisions has a greatest one, which is proved
by well-founded descent over the version and id (`GreatestExists`), and that two
different saves never compare equal (`NewestUnique`).

The assumptions are `TracksAssumption` and `BoundsAssumption` of `SaveStore`: the
track of a key is a track, and the bounds are numbers. TLC evaluates both.

`SaveStoreInTurnProofs` proves, from the same assumptions, of the store as long as it
serves one request at a time:

| Theorem | Says |
|---|---|
| `VersionsStayUnique` | `InTurnSpec => []VersionsAreUniqueInTurn` |
| `ContentsStayUnique` | `InTurnSpec => []ContentsAreUniqueInTurn` |
| `ListIsTheDisk` | `InTurnSpec => []ListMatchesDiskInTurn` |
| `NoUpdateIsLost` | `InTurnSpec => WritesReplaceTheirBaseInTurn` |

The argument. A request looks (at the list, the disk, the latest revision) and writes
several steps later; each property says that what it writes fits what is there by
then. `LooksHold` says of each step of a request what is still true of its looks: the
copy of the list that `checkUploadDuplicate` reads is the list, the version that is
going to be stored is above those on disk, the content is on no listed save of the
track, the base is the newest readable revision of its key. `ToList` is the one save
that is on disk and not listed yet, between `WriteMetadata` and `Prepend`, or left
there by a restart for `load()` to find. With two requests each conjunct of
`LooksHold` is what the other one breaks. `InTurnSpec` implies `Spec`, so `IInv` of
`SaveStoreProofs` is there to say that the id of the new save is nobody else's, and
`LatestIsNewest` that the indexed answer is the newest.

`DeviceAuthProofs` proves, for any handlers, identities, machines and bounds:

| Theorem | Says |
|---|---|
| `TypeCorrect` | `Spec => []TypeOK` |
| `LinksHold` | `Spec => []PasswordsNameTheirDevice` |
| `OnePasswordPerDevice` | no two passwords are bound to one device |

The argument. `Sound` is a property of one state: its type, the links
(`Linked`), and `Numbered`, that no device exists from the next id on. It holds of
memory and of the file, so a restart keeps it and a failed write cannot break it.
`Numbered` is needed because a new device must not take a place that a password
still names. `ReportsAreOfDevices` says the same of the copies that reports hold:
a device that a report brings back has an id given out long ago. There is one lemma
per operation on a state (`UpsertedIsSound`, `CreatedIsSound`, `BoundIsSound`,
`StartedIsSound`), one for `Save`, and one per action that calls them.
`BoundIsSound` is where it matters that a handler binds only a device with no other
password, which is what the conflict checks are for.

A second part proves what needs that no device was deleted in the middle of a report
about it (`raced`), or that no write failed:

| Theorem | Says |
|---|---|
| `MemoryMatchesTheFile` | `Spec => []MemoryIsSaved` |
| `DevicesNameBack` | `Spec => []DevicesNameTheirPassword` |
| `BoundPasswordsWork` | `Spec => []BoundPasswordsAreAccepted` |
| `PasswordsStayOnTheirMachine` | `Spec => PasswordsKeepTheirMachine` |

`Whole` is the other direction of `Linked`: a device names a password that is issued
and bound to it (`Known`), no two devices have one identity, and no password is issued
from the next number on, so that a new one has no past. `BoundIsWhole` is the step
where both directions meet: binding takes the password from the device that named it
and the device from the password that it displaces. `MemoryIsSaved` is inductive only
because a request that is answered 409 and does not write has not made a device
before: a new device conflicts with nothing. That a bound password is accepted then
follows: the device found for the identity it was bound with is the one it is bound to.

The assumptions used are `BoundsAssumption`, the bounds are numbers, and
`IdentitiesAssumption`, the value for no identity is none.

`PlayStationSyncProofs` proves, for any profiles, saves, private saves, devices,
contents, capacity and bounds:

| Theorem | Says |
|---|---|
| `TypeIsKept` | `Spec => []TypeOK` |
| `RequestsKeepTheirPromises` | `Spec => []PromisesAreKept` |
| `RecordsSurviveARestart` | `Spec => []RecordsAreOfStoredProjections` |
| `LatestProjectionsAreUpToDate` | `Spec => []LatestShowsActiveSaves` |
| `TheFileLosesNothing` | `Spec => StoredForGood` |
| `OnlyNewContentsRevive` | `Spec => DeletedSavesStayDeleted` |
| `RemovalsAreOfWhatWasReceived` | `Spec => RemovalsMatchDownloads` |

The argument. Promises and records are about the file, and every operation changes
memory first and may then fail to write it. `Ahead(s, t)` says that `s` has every
revision and projection of `t`, and that a save which `t` has as deleted is active in
`s` only with contents that `t` has not. Memory is ahead of the file
(`MemoryIsAheadOfTheFile` is the invariant as a whole). `Ahead` is transitive and an
operation leads to a state ahead of the one it began with, so a write takes the file
ahead of itself, which is `StoredForGood`, and keeps whatever was promised.
`PromisesAreKept` is too weak for that: a promised deletion is kept while the save is
deleted or has more revisions than when it was promised, and that a save which comes
back has more needs that it has no fewer now (`KeptFirmly`). `Shown`, that a latest projection is up to date, is
of memory and of the file, as a restart goes from one to the other. Each operation is
then shown to change tombstones in the two ways the action properties allow
(`ChangesTombstones`).

The assumptions are `ProfilesAssumption`, `ActorsAssumption` and `BoundsAssumption` of
`PlayStationSync`.

`N64ControllerPakProofs` proves, for any lines, profiles, saves, contents and
failed writes:

| Theorem | Says |
|---|---|
| `PaksAreTyped` | `PaksSpec => []PaksTypeOK` |
| `PakSavesStay` | `PaksSpec => []PakSavesAreKept` |
| `RevisionFilesStay` | `PaksSpec => []RevisionFilesRemain` |
| `PaksShowTheirSaves` | `PaksSpec => []PaksShowActiveSaves` |

The argument. Memory may be ahead of the file, after a write that failed, and never
behind it (`Extends`); a restart takes the file. What threatens both properties is
cleanup, which drops a revision that has a twin of the same content and then removes
the directory that the payloads of all revisions are in. `NoTwins` says that no
save has two such revisions: uploads compare with every revision of a save and not
only with the latest, and rollbacks mark the copies they add. So cleanup leaves the
revisions as they are (`CleanedIsSound`). One lemma each says what building paks,
writing the state and giving up do to the invariant (`RebuiltIsSound`,
`WrittenKeeps`, `DropKeeps`), and the operations call them.

`PaksShowTheirSaves` has an invariant of its own, `ShowInv`, of memory and file alike
(`Faithful`): a save is of a line that uploaded it (`Filed`), the latest pak of a
profile was built for its line (`LatestMade`), and a line of its own saves (`Own`)
shows them or has more than fit (`Shows`). An operation leaves the paks of its line as
they should be (`RebuildShows`), or too many for one. What it does to the others is
`OthersShow`: a save moves to the line that uploads it, and by `Filed` the line it
leaves uploaded it before, so that line is no longer one of its own saves. Cleanup takes paks away but never the
latest (`CleanedShows`), for which `LatestMade` is needed: it looks the latest up by
the line the pak was built for. An upload that changes nothing may still move saves,
and does so only where another line uploaded them. Besides `Bounds` the theorem needs
`Sizes`: there are finitely many logical saves and the capacity is a number.

`MaintenanceProofs` proves of the work on saves besides single uploads, for any
numbers of saves, contents, handlers, items and entries:

| Theorem | Says |
|---|---|
| `LayoutIsTyped`, `QuarantineIsTyped`, `BulkTypes`, `CleanupTypes` | the type invariants of the four modules |
| `RollbackRestores` | `LayoutSpec => []RollbackRestoresLayout` |
| `RejectedUploadsStay` | `QuarantineSpec => []RejectedUploadsAreKept` |
| `BulkUploadsAddNothing` | `BulkSpec => []RepeatedUploadsAddNothing` |
| `CleanupsKeepHistory` | `CleanupSpec => []CleanupKeepsHistory` |

The arguments. What is left of a layout rollback is a beginning of the manifest,
turned round, and every move after it is taken back; that needs that the manifest
names a save once, and that a save which no server filed anew is at one of the two
places its move names.

The invariant of the quarantine says for each point a handler may be at what makes the
content it works on secure: an item that is listed, a save, or an item it alone is
making; and that no other handler reuses or removes that item before it is listed.

A list of uploads is answered entry by entry. `CreatesAnew` says that between the look
of an entry and its creation nothing of its content is stored, which holds since each
entry looks at what its predecessors left. `ResultIsTrue` says what each result means,
and survives the later entries because revisions are only added; that a stored entry
is the newest of its slot is said of the last result alone, which is all that is true.

Cleanup has two halves. What is removed: the plan is made from a list that is complete
and fresh while nobody else may change it (`ListIsComplete`, `ListIsFresh`), and leaves
outside it a copy of each content that is owed (`OwedIsKept`). What is renumbered:
numbers are written one at a time, and the process may stop after any of them, so it is
not enough that the final numbers are in order. `Lowering` says that each write lowers
its number, and that the numbers still to be written and those that stay are in the
same order together: then a number just written is above all before it, which are
final, and below all after it, which can only be as high or higher than their own
final ones. A new number is the rank of its revision in its key (`NumbersAreRanks`,
`RanksAreInOrder`), which is at most the old number as long as the old ones are in
order.

`EventsPolicyAndPacksProofs` proves, for any handlers, streams, conflicts, buffers,
reports, sources, systems, packs, modules, bundles and requests at once:

| Theorem | Says |
|---|---|
| `NotificationTypes`, `PolicyTypes`, `LibraryIsTyped` | the type invariants |
| `NotificationsAgree` | `NotificationsSpec => []ClientsAgree` |
| `PolicySurvives` | `PolicySpec => []PolicySurvivesReports` |
| `PacksStayOff` | `LibrarySpec => []SwitchedOffStaysOff` |

The arguments. What is still to be told of a conflict that only one request changes is
the truth about it (`CallsAreTrue`), because the change and the events of it are one
critical section, and a second change before those are sent marks the conflict as
crossed. `StreamsAgree` follows the last event about a conflict in the channel of a
stream that nobody has yet to tell: it is the truth, and if there is none, the client
knows the truth or nothing. A full buffer drops the event and marks the stream as
having missed one; a stream that subscribes is empty and knows nothing.

Every source the operator set (the last of its id) is in the device, and no other of
the operator's with that id comes after it (`Rules`). A report keeps this because the
merge takes the sources of the device in order, and puts each of the operator's in the
place of the last with its id or at the end, so that the one that was last in the
device is in force at the end of the loop (`MergeKeepsRules`). The step that stores a
report reads the device anew; the copy that its authorisation holds counts only if
the device was deleted, and then the operator has set nothing. That the helper is told
what is allowed needs that the union of the sources' systems, which bounds the device,
includes those of the source.

The status of a pack is in one of three places, and any number of requests at once move
it from one to another. `KeptOff` says where it is off, so firmly that none of them
changes that: in the manifest; in the record of the first module that has the pack,
where whoever is about to write a record of that module leaves it off and brings the
pack, and nobody is about to put the pack into a module before it; or in a tombstone,
with no module that has the pack or is about to. `KeptOffByNext` says what a step has to
leave for that, and each way to change the store has a lemma that it does. Why a request
switches a pack off in the right place, steps after it looked where that is, is `SeenOK`:
while it meets no other (`AloneOK`), what it saw is still so. Why no request undoes it is
`RespectsOK`: a synchronisation writes the statuses it has listed, and those off by then
are listed as off (`OffIsOff`), but for the packs of a module whose directory is gone.
Two modules may have packs in common and bundles none; therefore requests meet through
modules, too.

`LogAndLoginsProofs` proves, for any appenders, entries, browsers, sessions, logins,
clients, limits and times:

| Theorem | Says |
|---|---|
| `LogTypes`, `SessionsAreTyped`, `ThrottleTypes` | the type invariants |
| `LogShowsRecentEntries` | `LogSpec => []RecentEntriesAreShown` |
| `SessionsLastAsTheyShould` | `WebSpec => []SessionsLast` |
| `ThrottleLimitsGuesses` | `ThrottleSpec => []GuessesAreLimited` |

The arguments. An entry that is not in the log is too old, was lost, or has MaxEntries
newer ones among all that were logged, and stays so (`LogInv`); pruning by an entry's
own, older time keeps more, never less. That an entry is on exactly one page is a
lemma about cutting a list: the place of an entry in the order is a number below the
total (`Rank`), and each number is on one page.

Every session that was answered is in the file, or gone for one of three reasons, none
of which goes away again: it expired, it was logged out, or as many others as are kept
were created no earlier. Tokens are used once, so that one logged out stays out.

The guesses of a client are split in two (`IsSeries`): those of the series that is
being counted, as many as the counter says, and older ones, which are no later than
the beginning of the series plus a delay, and of which a stretch that is not over by
then holds too few to matter. `BlockOK` says what is known while a client is blocked:
the failures and the logins that were past the throttle before the block add up to no
more than the limit and the other logins, and whoever is past the throttle is early
or so late that the block is over. `NewSeries`, `SameSeries` and `SeriesIsOver` are the
three things a failure can do. Pruning may forget clients at any time and only ever
forgets a client's whole past (`PruningForgets`).

The assumptions are those named in the modules: `LayoutAssumption`,
`QuarantineAssumption`, `BulkAssumption`, `CleanupAssumption`,
`NotificationsAssumption`, `DevicePolicyAssumption`, `SyncLogAssumption`,
`WebSessionsAssumption`, `ThrottleAssumption` and `LibraryAssumption`: bounds are
numbers, no two modules have one place, sets that are counted are finite, a model value
is not of the set it stands outside of, and, of the throttle, that two delays are less
than a block and a block no longer than the window. The theorems of
`N64ControllerPakProofs` state what they need themselves (`Bounds`, `Sizes`). TLC
evaluates the assumptions in the runs `maintenance` and `services`.

Only model-checked: the violations; `PublishersFinish`, which is liveness and which the
prover does not reach; `EditsAreSeen`, `CopiesReadTheSame` and `CardsAreReadBack`. The
last three are about conversions over tables that TLC goes through whole, so a theorem
would say no more, and `MemoryCards` follows links with recursive operators, which keeps
it out of proofs. The `TypesOK` of the two runs puts together the type invariants of
their parts, which are proved of each machine that has theorems. `TypeOK` of
`DeviceAuth` and `PlayStationSync` is proved and not run.

## Not modelled, and why

* Detection, normalisation of names, and the validators of formats stored as they
  come: pure functions over bytes, which unit and golden tests reach. What the state
  machines need of them (key, track, accepted or not) are constants.
* Native ports: conversions of one payload between a console and a port.
* Routing, the agent API, views, the web frontend: they keep no state of saves.
* Local cheat overlays, the matching of packs to saves, and the code of modules.
* Exports of single Saturn entries, and edits of one entry of a card.
* The commands `backfill-playstation` and `rebuild-playstation-projections`, run
  offline, and the cleanup of PlayStation projections.
* Deployment, the backup script and the health probe.
