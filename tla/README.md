# A verification development of omarchy-presence-unlock

omarchy-presence-unlock unlocks an Omarchy session when the user holds Alt and
an enrolled Bluetooth device is near. This directory models it in TLA+, checks
the models with TLC on small instances, and proves what matters most with TLAPS
for every value of the constants. Every definition is translated from the Rust
(and the QML it generates) under `src/crates`; `PROJECT.json` names the lines.

## 1. The system

```
  radio/BlueZ --> scanner --> Fleet (mutex) <-- control socket <-- PAM <-- lock screen <-- Alt
                    |  daemon main loop  |          ^                (QML clone)
                    '------- presenced --'          '-- status, doctor, live status (CLI)
                          ^ reads once at start
   config.toml <-- devices.rs/atomic.rs <-- commands, wizard, guided enrollment <-- peers
                          wizard also stops and starts presenced to use the adapter
```

| Component | State it keeps | Operations | What makes it hard | What makes it correct | Module |
|---|---|---|---|---|---|
| Presence policy (`presence.rs`) | per device: samples, newest sighting, remembered revocation | observe, invalidate, check | duplicates, pruning, expiry decided only by readers | only enough spaced, strong, recent sightings since the last revocation authorise | `Eligibility` |
| Fleet (`presence.rs`) | the devices and the rule | observe, invalidate, check, report | several devices, ranked denials | as above for several devices; silence never authorises | `Fleet`, `PresenceAuthority` |
| Identity, profiles, parsers | none | matches, evaluate | byte formats | a reading per advertisement | readings in `Fleet` |
| Scanner and main loop (`scan.rs`, `main.rs`) | the event stream, one event half read | open, take, read, observe, lose, forget | awaits between reads, lost scans, restarts | what reaches the policy was received, nothing outlives a scan | `Daemon` |
| Control protocol (`control.rs`, `wire.rs`, `client.rs`, PAM) | one exchange; PAM's has a deadline, each read and write of `status` a wait of its own | ask, connect, answer, settle, expire | stalled or dying daemon, late answers, a clock read before a lock | a grant was due during the exchange; PAM's always ends | `Daemon` |
| Control socket ownership (`control.rs`) | lock file, endpoint, listener | lock, inspect, probe, remove, bind, chmod | several daemons, stale endpoints, a removed directory | a live endpoint is never unlinked; a stale one is always recovered | `ControlSocket` |
| Enrollment file (`devices.rs`, `atomic.rs`) | config.toml, its lock, temporaries | enroll, add, remove, tune, rule | several writers, editors, kills, restarts | no lost update, always usable, reported = enforced | `DeviceConfig` |
| Guided enrollment (`pairing.rs`, `enrollment/`) | adapter settings, links, bonds, captured key | open the window, accept, bond, take the key, save, clean up, restore | other peers, reads that fail, cancel, Busy, kill | the right peer's key; outcome is the truth; the machine is put back | `Capture` |
| Interactive session (`wizard*`, `interrupt.rs`) | pause flag, quit flag, worker | pause, run, resume, quit, force quit | three threads and systemctl processes | the daemon is left as found, or it is said that it is not; restarted once | `Session` |
| Lock screen gesture (`setup/lock.rs`, QML) | hold timer, PAM context, flags | hold, release, trigger, complete | aborted attempts that complete, re-locks, passwords | an unlock needs a hold and presence in this very lock | `LockScreen` |
| Setup and uninstall (`setup.rs`, `setup/`) | lock clone and its stage and rollback directories, what Omarchy has enabled, what its shell compiled, stamp, binding, menu row, units, package | apply, roll back, uninstall | eleven surfaces, each step may fail or be the last; reruns over what is left; markers lost, reversed or doubled; two commands at once | a lock plugin is always somewhere; all or nothing; removal is whole; the shell runs what was installed; the menu stays the user's | `Integration`, `MenuExtension` |
| `pair` command, discovery | none | linear | prompts | | not modelled |
| Screens, key decoding, doctor, packaging | none others depend on | | | | not modelled |

How they interact. The scanner and the client tasks share a `Fleet` behind one
mutex; every critical section is one call, so `Daemon` makes each one step and
instantiates `Fleet` for it. The lock screen sees the daemon only through PAM,
and PAM only through one bounded exchange. The composition is by contract:
`Daemon!GrantWasDue` says that a successful exchange implies that the fleet
granted at some moment of it, and `LockScreen` lets an authentication succeed
exactly when `present` held at some moment since it began. The commands and
the daemon share only config.toml and systemd; `DeviceConfig` holds both sides.
`Session` treats an operation as something that ends or does not; `Capture` is
what such an operation does inside.

## 2. The modules

**`Eligibility`, `Fleet`, `PresenceAuthority`.** `Eligibility` is a library of
operators, one per method of `struct Eligibility`: a record of samples, newest
sighting, revocation; `Observe` dispatches to `Revoke`, `Ignore`, `Qualify`;
`DeviceCheck` is `check`, on a filtered view, so it changes nothing. `Fleet` has
the clock, the evidence per device and a history variable `sightings`, what was
really heard since the last revocation or lost scan. An advertisement is a
reading per device ("reject" where the identity does not match), any
combination of them, at any of the modelled strengths. `PresenceAuthority` is the abstract
promise: sightings and a Boolean `granted`, bounded from below by evidence so
plentiful that collapsing duplicates cannot lose it and from above by evidence
that justifies a grant. `Fleet!KeepsPromise` is the refinement, with
`granted <- FleetCheck(clock) = Allow`.

**`Daemon`.** The scanner's program counter names the await it is in (`idle`,
`rssi`, `payload`, `observe`; `lost` between the scan's end and the
invalidation). BlueZ is `cache` (the properties as last received) and `queue` (events that
say only that a device changed); one reception raises two events, as the comment
at `presence.rs:123-127` says. A client's exchange goes through `calling`, `sent`, `asked`, `answered`, `done`,
and `status` takes its clock one step before its lock. PAM has one deadline over all of it, the connection included.
`status` has none: it waits for the connection as long as that takes, and each write and read of its own is a wait that begins
afresh (`Progress`), so a daemon that drips its reply holds it. `since`, `received`,
`missed` and `live` are history. Property `ImplementsFleet` is `Fleet`'s specification
on the daemon's variables; what that leaves open, whether what is folded in was on the air at all, is `EvidenceIsLive`.

**`ControlSocket`.** One counter per process through `serve` and
`remove_stale_socket`. The lock is on an inode: `lockFile` is the generation of the
file at the path, `opened[p]` the one p opened, and two locks of different generations
do not exclude each other. Squatters listen without the protocol; `Wipe`
removes the directory with both files in it, whether or not the unit could be stopped before. `torn` marks the one case left out
of the safety properties: the directory goes while a daemon is between opening its lock and binding. The liveness property leaves out the
case that the stop failed: then the unit serves on, unseen, from a directory that is gone (`Detached`).

**`DeviceConfig`.** A command is identify, derive (both without the lock), lock
(or time out), read and render, verify (identity and content, as `Snapshot`
compares), rename, apply. A version number stands for device and inode. `HandEdit` is an editor that takes no lock.
`serial` is history: all edits in the order they took effect. `Apply` is what follows the rename: a command
restarts a daemon that runs, an edit in the menu starts a stopped one too, a guided enrollment does neither.

**`Capture`.** `advertise_flow` from opening the adapter to restoring its settings, one step per
await; any step under the `select` may fail, time out or be cancelled
(`Abandon`), and `Kill` ends the process anywhere. Peers connect, bond, bond again and
disconnect at any moment. A read of a peer's property may fail wherever there is one, and the code takes that for "no":
at the snapshot such a peer is missed (`misread` is the history of it), at the wait for a connection it passes for one that is not bonded,
in the cleanup it is left behind. The monitor's events carry an address and an identity that the sender claims (`Claims`), and what the code
compares is those; the key is only checked where the address resolves. `SaveCapture` is one step because the code has no await between
the write and the `saved` flag; its third outcome is a save that replaced the file, could not sync the directory and returns an error.

**`Session`.** Main thread, worker and signal handler; `systemctl` runs as a
job of the thread that spawned it and survives the process, as a child does. `failed` says of the pause's restart that it did
not fail, that it did and nobody has said so yet, or that a screen has said it. `Show` is that screen: it is drawn unless the user has asked to leave
(`ui.rs:219-222`), and after an operation that failed itself only its details name the daemon (`wizard.rs:652-660`).
The paths that leave after a quit drop the error (`wizard.rs:776-778`, `1035-1037`, the `Drop` of `daemon.rs:77-81`).

**`LockScreen`.** One action per handler of the generated QML, which runs one
at a time; hold and release arrive over IPC in any order and number. The stock
lock is external and constrained only by the hooks the patches attach to.

**`Integration`, `MenuExtension`.** A command is a chain of steps, named by `pc`; several
processes run them at once. `Chance` is a step that fails for a reason the model does not have, `Die` ends a
process anywhere; reasons it does have (a plugin of the user's own, a binding with other than one block or none, a malformed menu, no
package) are guards. `binding` is the sequence of markers in `bindings.lua`: none, one block, a marker whose other is lost, two the wrong way round, a block twice.
What setup refuses of these (`binding.rs:56-60`) the removal does not (`76-91`): it cuts the first start up to the first end, does nothing
where one is missing, and fails where they are reversed. The two renames of `write_clone` are `Aside` and `Swap`, with
`PutBack` and `Discard` after them. A plugin is a version: of the patched files, which `setup` holds in memory from `Render` on
and fingerprints, and of the files it copies later, at `Stage`.
`compiled` is what the shell has under the plugin's id, which it keeps until it restarts, and `stamp` what setup believes of it.
`MenuExtension` has the text edits of the menu file on sequences of tokens: braces, commas, comments, line ends, markers; an
entry of the user's is one token. `Editable` says for which documents the edits keep their promise: line comments that end
their line, the closing brace as the last brace and first on its line, and no marker, or one block on lines of its own with nothing of the user's in it.
`alone`, `found`, `single`, `clean`, `orderly` and `result` are history: the command that
has had the machine to itself, what it found, whether the bindings had at most one marker of each kind then, whether a step of it failed by chance, what it said.

Mutated forms of single definitions stand directly above them, marked
"Mutant": each property of each passing run is violated by one of them.

## 3. The runs

| Run | Configuration | Shows |
|---|---|---|
| `fleet` | two devices (2 samples in 4 ticks, fresh 3; 1 sample in 2 ticks, fresh 4), rule at-least 2, spacing 2, clock 0..5, one RSSI below and one above the threshold | `HonestEvidence`, `AllowIsJustified`, `DenialNamesObstacle`, `FadingNeverDenies`, refinement `KeepsPromise` |
| `daemon` | one device, 2 samples, window 1, clock 0..2, two outstanding events, client deadline 1 | `GrantWasDue`, `StatusNeverInvents`, `RevocationReachesPolicy`, `EvidenceIsLive`, `LostScanForgets`, refinement `ImplementsFleet`, liveness `ExchangeEnds` |
| `socket` | a unit, a standalone daemon, a squatter, 3 deaths, 1 wipe | `ServerIsReached`, `NeverUnlinksLive`, liveness `EventuallyServed` |
| `config` | two commands (one may be stopped), two keys of one name, 3 new files, 1 hand edit | `FileUsable`, `NoUpdateLost`, `ReportedIsEnforced`, liveness `CommandsEnd` |
| `capture` | two peers, one resolvable, the other claiming an identity of its own or the first one's, 3 contacts, 2 restore attempts | `OnlyThePeersKey`, `FormerIsLeftAlone`, `RestoredAsSaid`, `OutcomeIsTruth`, `OpenWindowIsTimed`, liveness `FlowEnds` |
| `session` | two operations, three requests to leave | `LeavesAsFound`, `OneRestart`, liveness `SecondAskExits` |
| `integration` | two commands at a time, three in all, two events (a step failing, a death, an overlap, a clone, a restart or an update elsewhere), one update, six ways to find binding and menu | `LockStays`, `NeverHalfIntegrated`, `RemovalIsWhole`, `RunsWhatItInstalled`, `MenuStaysGood` |
| `lock` | two locks | `UnlockIsEarned`, liveness `GestureReturns` |
| `daemon_sample` | as `daemon` | finding 1 |
| `config_race` | as `config` | finding 2 |
| `capture_window` | as `capture` | finding 3 |
| `session_forced` | as `session` | finding 4 |

Why the bounds are enough. The policy's arithmetic only compares ages with
window, freshness and spacing; the fleet's constants make each of the
orders between them occur (freshness inside and beyond the window, several spaced samples in a window),
and the clock runs past both expiries. Two devices with
a rule of two reach every denial. In the daemon two samples, a grant and its expiry fit into the clock; two
events are one advertisement's double delivery. The fixed-address peer that claims the other's identity is what only the check of the key refuses, the one that
claims its own what the comparison skips. Two competing processes are a race's
both sides, and the third party (squatter, editor, other
peer, signal thread) is there in each. Deaths, edits, contacts, pauses and locks are bounded
by counters in the guards, each named for its bound. Two restore attempts stand for ten: the first, and the last.
Three commands are what the integration's worst cases take (a setup that dies, an uninstall or a setup that fails on what
it left, a rerun), two events a failure inside a failure, one update the
difference between two versions. The menus found are: none yet, one with entries, rows, comments and something behind the rows, one without a closing
brace, one with swapped markers. The bindings found are: none, one with a lost marker, one with swapped markers, a block twice; a whole block is what a setup leaves. The two processes are symmetric and the run
has no liveness property, so symmetry is sound.

Where deadlock is not checked (`CHECK_DEADLOCK FALSE`) the system really stops:
a socket whose bounded deaths and wipes are used up and which is served, a capture flow that ended and whose
peers are used up, a session that exited, an integration whose commands are used up.

**Fairness.** `Daemon`: time passes, the client's own deadline is enforced, and the
loop invalidates after a lost scan; nothing is assumed of BlueZ or of the daemon
accepting or answering. That is enough for PAM, and `ExchangeEnds` is said of PAM alone; for `status` it is false, of the code too. `ControlSocket`: systemd restarts the unit (`Restart=on-failure`) and a started process
runs on; deaths are finite. `DeviceConfig`: a command that is not in the set of
stoppable ones is scheduled; nobody else is. `Capture`: each await is bounded by
a timeout in the code, BlueZ runs its pairable timer. `Integration`: none; its properties are about what commands leave, and a
command may die anywhere. `Session`: runnable threads run, systemd finishes jobs; an operation may hang and
the user need not act. `LockScreen`: timers fire and authentications end, which `ExchangeEnds` shows of presence.

**Findings.** Each is a sentence of the source that the code does not keep.

1. `presence.rs:123-127` on the duplicate filter. It is a spacing between the moments of observation;
   the same cached advertisement read again after 50 ms (the second event waited behind
   others) is a second sample. `OneAdvertisementIsOneSample`.
2. `devices.rs:107-109` on `derive_id`. The id is derived from a read made without
   the lock; two concurrent enrollments of equally named devices get the
   same id and the second replaces the first. `EnrollReplacesNothing`.
3. `pairing.rs:1086-1089` on the bounded pairability window. The restoration writes
   the old timeout, which may be "never", before it ends pairability;
   killed in between, the computer stays pairable. `WindowCloses`.
4. `wizard/daemon.rs:38-46` on `DAEMON_STOPPED`. The flag is set before the stop and
   cleared before the start, so a forced exit at either place leaves the daemon stopped. `NeverStranded`.

## 4. The proofs

All proofs are for arbitrary constants under the named assumptions, as weak as the code justifies, and
TLC evaluates them in the runs: bounds are natural numbers; devices, writers, keys and peers are finite sets; policies fit
their window (`PolicyAssumption`, as `validate_policy` enforces); a configuration has a device
(`Daemon!DeviceAssumption`, config.rs:169-171), names and keys exist (`DeviceConfig`), configurations found
resolve (`DeviceConfig!FoundAssumption`), a menu extension found has at most one block of rows
(`Integration!FoundAssumption`: setup never writes a second, and of two a removal would leave one); what the text edits look for is not an entry of the user's
(`Integration!OwnAssumption`); and the stand-ins for "nobody" (`Nobody`, `NoPeer`, `Nothing`) are none of the somebodies.

- **`Fleet_proofs`.** `TypeCorrect`; `EvidenceIsHonest` (`Spec => []HonestEvidence`); `AllowAlwaysJustified`;
  `DenialsNameObstacles`; `FadingIsNoDenial`; `FleetKeepsPromise`, that the fleet implements `PresenceAuthority`. The inductive invariant is
  `TypeOK /\ HonestEvidence`; without "the newest sample
  is the newest sighting" and "no sighting is a spacing or more past it" pruning could not be shown to keep the sample that
  makes a device fresh. One lemma per operation, lifted to the fleet. The upper bound
  of the promise takes the retained samples as the witness. The lower bound (plenty of evidence is a grant) needs `Coverage`:
  every strong sighting in the window has a retained sample less than a spacing before it. Mapping sightings that are a spacing
  apart to those samples is then an injection, so there are at least as many samples (`SpacedCounted`). `DenialsNameObstacles` compares
  the ranks of the denials device by device.
- **`Daemon_proofs`.** `DaemonTypeCorrect`; `DaemonImplementsFleet` (`Spec => F!Spec`): every
  action is a fleet step or a stutter, given that what the scanner holds is well formed (`Holding`).
  `NothingOutlivesAScan`; `GrantsAreDue`, from "an answer that grants was written while `since.fleet` held, and `since`
  is only reset when a new exchange begins"; `OnlyLiveEvidence`, from "an RSSI in the scanner's hands is one of `live`"; `StatusIsTrue`, though the clock `status` judges by is older than the
  evidence; `RevocationsReachPolicy`, where the invariant follows the newest advertisement of a device through cache, queue and the half-read event to the fleet.
- **`ControlSocket_proofs`.** `TypeCorrect`, `ServerAlwaysReached`, `LiveEndpointsStay`, for any number of daemons. The inductive
  invariant adds: locks of one generation exclude each other; unless torn, whoever
  is starting holds the current generation; the endpoint is p's exactly if p bound under the current one;
  and nobody answers at an endpoint about to be removed.
- **`LockScreen_proofs`.** `TypeCorrect` and `UnlocksAreEarned`. The invariant needs
  two parts the code keeps implicitly: an awaited result belongs to an attempt of this lock
  that nothing superseded (`AttemptStands`), and a running timer to a hold that lasts with no attempt under way (`HoldStands`).
- **`Session_proofs`.** `SessionTypeOK`, `RestartsOnce` and `LeavesItAsFound`: the flag is set exactly between the pause
  and whoever takes it back, so a restart is owed by at most one thread, and a session that is over has none owed. `LeavesItAsFound` says
  that the daemon runs again, or its start failed, and that this was shown, unless the user had asked to leave or the operation had failed itself:
  between `restarting` and the menu lies `result`, which nothing but those two lets pass unsaid.
- **`DeviceConfig_proofs`.** `TypeCorrect`, `FileAlwaysUsable`, `NoUpdateIsLost`, `ReportedIsAlwaysEnforced`, for any number of
  commands, names and keys. The invariant (`Planned`): what a writer will write is its edit of what it read, and what it read is still at the path
  when it renames, unless an editor raced; the lock lets only one be there. That a derived id exists is the pigeonhole principle: a file whose devices have distinct keys
  cannot use up one more suffix than there are keys (`SomeSuffixIsFree`).
- **`Capture_proofs`.** `SettingsRestoredAsSaid`, `WindowIsTimed`, `OutcomeIsTheTruth`, `EnrollsOnlyThePeersKey`, `FormerPeersAreLeftAlone`, each from one of three
  small invariants: of the adapter's settings (`Settings`), of the capture (`Captured`: from the moment a key is taken it is the peer's own, or that of one that
  can claim the identity BlueZ gave of a peer on a fixed address, which `AcceptedIsOwn` gets from the comparison and the check together), and of who was there
  before (`FormerKnown`: once the snapshot is over all of `former` is in `established` or was misread, and the device in hand is not in `established`).
  No theorem says more of a misread peer, since the code does not keep it out.
- **`Integration_proofs`.** For any number of commands, versions and texts. One invariant for each question:
  - `LockAlwaysStays` (`LockInv`). `Backed`: where the plugin in charge is not in its place, some rollback directory holds
    one whose owner is not about to delete it. A deleter has swapped its own in after making that directory, so whoever
    took that away again has another. `OwnIsSafe`: a command that found the user's own plugin is at a step that cannot touch it.
  - `ShellRunsWhatWasInstalled` (`CodeInv`). Versions only grow, which is an assumption on Omarchy (a downgrade to a version that is still stamped would break it); the stamp is never ahead of what the shell has
    compiled, nor that of what the next setup renders. So where setup finds the stamp it would write and skips the restart,
    the shell has that very version.
  - `TypeCorrect` (`TypeInv`), which holds also that the menu never gets a second block, and needs the text lemmas: a removal leaves
    a text without one of the markers (`RemovalText`, `NoBlock`), an entry one with both, once (`EntryText`).
  - `SetupIsWhole` and `RemovalAlwaysWhole` (`DoneInv`). For a command that has had the integration to itself, `SetupDone`,
    `UndoDone` and `UninstallDone` say of every label which surfaces are in place, or gone, by then. Of the bindings they say `Unbound`: no block is left, if at most one marker
    of each kind was found (`CutMarkers`: what a cut takes from such a file is all of a block, and a file never gets more markers of a kind than one from a setup, `Marks`).
    An uninstall that keeps the package had a chance failure, a malformed menu or reversed markers (`Stubborn`, which no later step of it ends). That the unit, socket and state
    stay gone behind an uninstall holds because the path unit, the only one to start the service, goes first (`TriggerDone`).

  - `MenuAlwaysGood` (`MenuInv`), for documents of any length with any entries and comments. `MenuInv`: the text is as found, with the
    rows, or without them; that it is these three and no more is `EditableSettles`, of which `RemovalRestores` is the part a user sees:
    a second setup changes nothing, and a removal gives back a file that had no rows to the token. The argument is an algebra of texts.
    What a text says (`Those`, its tokens without comments, markers and line ends) is a homomorphism of concatenation (`ThoseConcat`, `DocSaid`),
    so each edit is followed on a document cut in parts: `Tidy(H, T)` is a document without a block, cut before its closing brace;
    `ReadyIs` puts the comma where `Said(H)` ends in an entry and nowhere else, `EntryIs` puts the block between `H` and `T` and has the removal take
    it and the comma away again, and `EditableEmptied` brings every editable document with or without rows to a tidy one.

The library's induction theorems take an operator and cannot be used, so where an argument is by induction (`ThoseConcat`, over
the length of a text) it goes by the least counterexample, with sets: a set of naturals without a first element is empty
(`NoFirst`), and a set of sequences that has the empty one and goes on with each token has all (`SeqInduction`).

Only model-checked: liveness (fairness and ENABLED are out of the prover's reach). Every invariant and every action
property of a passing run is proved. `Fleet!TypeOK` is checked as a part of `Daemon!TypeOK`, and proved by itself.

## 5. What is not modelled

- The bytes: Apple continuity parsing, AES address resolution, TOML, the wire
  text. They are pure; what they decide is a free choice of readings or edits.
- Identities that need more than one property (a name, services, service data): the scanner awaits one read for each, and `ReadPayload` is one read.
  So what interleaves between two payload reads of one event is not covered.
- What PAM verifies before it connects (account, passwd file, socket owner and
  mode) and the limit of eight clients. A dropped client reads end-of-file, as
  one of a dead daemon does, which `Daemon` has.
- Creating, writing and syncing the temporary file are one step that may fail;
  a temporary left by a kill is not represented (nothing reads it).
- Criteria other than keys in config.toml; the rule `all`.
- `run_pairing`'s start of a daemon that was not running before the enrollment (`wizard.rs:711-714`), the live status reader, screens, `doctor`: they keep no state another part depends on.
- The `pair` command, `discover` and `bond-info`: linear, with no party of their own beside BlueZ; what an
  enrollment does with their result is `DeviceConfig`. Packaging and the installer.
- Of the integration: the backup `plugin remove` makes, the binding Hyprland has loaded, the stage directories of dead processes,
  a process id that is used again. Omarchy's lock is only ever updated, never downgraded.
- No promise is made, so none is checked, of two behaviours the models have: press and release edges that overtake each other
  (`binding.rs:21`; `LockScreen` takes them in any order), and peers that bond behind the sweep's list (`pairing.rs:1028`; they keep the bond).
- `resolve` compares criteria of one kind only, so two entries by different criteria may match one device; the models identify by keys.

Known weak points of the code that the properties leave out by a precondition or an alternative, each named in the property's comment. Of guided enrollment:

- A peer whose reads fail at the snapshot counts as new, against the comments at `pairing.rs:691-692` and `1011-1012`: it may be taken, and the cleanup closes its link
  and forgets its bond. A read that fails in the cleanup leaves a peer of this flow behind, and nothing says so.
- A save that could not sync the directory after the rename returns an error with the key enrolled (`atomic.rs:75-78`).
- Two peers may claim one identity; where the one that was taken has a fixed address, nothing tells their keys apart.

Of the session and of `status`:

- Where the restart of the daemon fails after the user has asked to leave, nothing says that presenced stays down.
- `status` has no bound on the connection, nor on the number of its waits.

Of setup and uninstall:

- A failure inside `lock::install` after the swap returns before the rollback (`setup.rs:54`), so a first setup may leave the clone without binding and row.
- A crash between the two renames leaves no plugin at the path and Omarchy's `enabled` set; the directory is under its rollback name, which nothing finds again, and an uninstall does not reset `enabled`.
- Whether the plugin is the user's own is asked before the first rename; a clone the user makes in between is moved aside and deleted.
- Two setups at once with an update between them, or a plugin of the user's own that ran under the id while a stamp was left, leave the stamp ahead of what the shell compiled; later setups then skip the restart (`lock.rs:512-522`). The fingerprint ignores the files that are only copied.
- The menu file is edited as text (`menu.rs`): of a file of one line the removal takes the user's entries along, and where an entry shares the closing brace's line or a comment behind it has a brace, the result does not parse.
- Next to a start marker that has lost its end, a setup writes a second block, and the next removal cuts from the first marker on, with the user's entries in between; what the user writes between two whole markers goes with the next setup.
- A binding marker that has lost its other stays where it is. With reversed binding markers `remove` fails every time, so the package is kept, and a failed setup cannot be undone.
- Of a bindings file with the block twice setup refuses to touch it, but the undoing (and an uninstall) cuts the first and leaves the second, bound to
  a gesture that is gone; setup says that it was undone (against the comment at `setup.rs:39-41`). So with a menu file with two blocks of rows.

## 6. Plan

Done, most important behaviour first: 1. `Eligibility`, `Fleet` and `PresenceAuthority`. 2. `Daemon` over `Fleet`.
3. `ControlSocket`. 4. `DeviceConfig`. 5. `Capture`. 6. `Session`. 7. `LockScreen`, composed with `Daemon` by
contract. 8. `MenuExtension` and `Integration`. 9. Proofs of every safety property.

What would come next:

1. `resolve` over all identity criteria, with a reference definition of "two entries that can match one device".
2. The client pool, if it ever promises a place; the `pair` command, if it ever cleans up.
