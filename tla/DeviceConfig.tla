---------------------------- MODULE DeviceConfig ----------------------------
(***************************************************************************)
(* The enrollment file (config.toml) and the commands that edit it         *)
(* (crates/cli/src/devices.rs over crates/cli/src/atomic.rs), against      *)
(* other commands, an editor that knows nothing of the lock, processes     *)
(* that die half way, and the daemon that read the file when it started.   *)
(*                                                                         *)
(* A command takes the lock beside the file, reads it, edits what it read, *)
(* stages the result in a temporary file, makes sure that the file is      *)
(* still the one it read, and renames the temporary over it.  Then most    *)
(* commands restart the daemon; an enrollment only says that somebody      *)
(* should.  An enrollment also chooses the device's id before any of that, *)
(* from reads it makes without the lock.                                   *)
(*                                                                         *)
(* A device is its id (a name, and a suffix where the name is taken), the  *)
(* key that identifies it and whether its threshold was tuned; other       *)
(* fields are along for the ride.                                          *)
(***************************************************************************)
EXTENDS Integers, FiniteSets

CONSTANTS
  Writer,       \* processes that run commands, one at a time
  Running,      \* those of them nothing stops half way
  Name,         \* what devices call themselves
  Key,          \* IRKs
  Found,        \* configurations the commands may find
  MaxFiles,     \* bound: files that come to be at the path
  MaxHandEdits  \* bound: changes made by an editor

ASSUME WriterAssumption == IsFiniteSet(Writer) /\ Running \subseteq Writer
ASSUME NameAssumption == Name # {}
ASSUME KeyAssumption == IsFiniteSet(Key) /\ Key # {}
ASSUME BoundAssumption == MaxFiles \in Nat /\ MaxHandEdits \in Nat

VARIABLES
  file,         \* at the path: [version, config]; a rename makes a new version
  lock,         \* who holds the lock, or Nobody
  pc, op,       \* each writer: where it is, what it was asked for
  id,           \* the id its device will have
  before,       \* what it read under the lock
  rendered,     \* what it will write
  written,      \* the version it wrote
  result,       \* what it reported last
  daemon,       \* what the running daemon enforces, or Stopped
  edits,        \* hand edits made, for the bound
  serial,       \* history: every edit applied, in the order they took effect
  raced         \* history: an editor wrote between a check and its rename

vars == <<file, lock, pc, op, id, before, rendered, written, result, daemon,
          edits, serial, raced>>

Nobody == "nobody"
ASSUME NobodyAssumption == Nobody \notin Writer

(***************************************************************************)
(* Configurations.                                                         *)
(***************************************************************************)
Id == Name \X (1..(Cardinality(Key) + 1))
Device == [id : Id, key : Key, tuned : BOOLEAN]
Config == [devices : SUBSET Device, required : 1..Cardinality(Key)]

\* No file, and the empty document that stands for one.
Empty == [devices |-> {}, required |-> 1]
Missing == [version |-> 0, config |-> Empty]
Stopped == [version |-> -1, config |-> Empty]
Refused == [devices |-> {}, required |-> 0]

Ids(config) == {d.id : d \in config.devices}
Keys(config) == {d.key : d \in config.devices}

\* ConfigFile::resolve: distinct ids and keys, and a rule that can be met.
Resolves(config) ==
  /\ config.devices # {}
  /\ \A d, e \in config.devices : d # e => d.id # e.id /\ d.key # e.key
  /\ config.required <= Cardinality(config.devices)

ASSUME FoundAssumption ==
  Found \subseteq Config /\ \A config \in Found : Resolves(config)

(***************************************************************************)
(* Edits.                                                                  *)
(***************************************************************************)
Op ==
  [kind : {"enroll"}, name : Name, key : Key]
    \cup [kind : {"add"}, id : Id, key : Key]
    \cup [kind : {"remove", "tune"}, id : Id]
    \cup [kind : {"rule"}, required : 1..Cardinality(Key)]

\* apply_device: a whole new definition under this id.
Enrolled(config, i, key) ==
  [config EXCEPT !.devices =
     {d \in @ : d.id # i} \cup {[id |-> i, key |-> key, tuned |-> FALSE]}]

Tuned(config, i) ==
  [config EXCEPT !.devices =
     {d \in @ : d.id # i} \cup
     {[d EXCEPT !.tuned = TRUE] : d \in {e \in @ : e.id = i}}]

Without(config, i) == [config EXCEPT !.devices = {d \in @ : d.id # i}]

Checked(config) == IF Resolves(config) THEN config ELSE Refused

\* Mutant: a rule is taken down as given.
EditedLoosely(config, o, i) ==
  CASE o.kind \in {"enroll", "add"} -> Checked(Enrolled(config, i, o.key))
    [] o.kind = "tune" /\ o.id \in Ids(config) -> Checked(Tuned(config, o.id))
    [] o.kind = "rule" -> [config EXCEPT !.required = o.required]
    [] o.kind = "remove" /\ o.id \in Ids(config) ->
         IF Without(config, o.id).devices = {} THEN Without(config, o.id)
         ELSE Checked(Without(config, o.id))
    [] OTHER -> Refused

\* One edit of one document.  Only the last device may go unchecked.
Edited(config, o, i) ==
  CASE o.kind \in {"enroll", "add"} -> Checked(Enrolled(config, i, o.key))
    [] o.kind = "tune" /\ o.id \in Ids(config) -> Checked(Tuned(config, o.id))
    [] o.kind = "rule" -> Checked([config EXCEPT !.required = o.required])
    [] o.kind = "remove" /\ o.id \in Ids(config) ->
         IF Without(config, o.id).devices = {} THEN Without(config, o.id)
         ELSE Checked(Without(config, o.id))
    [] OTHER -> Refused

\* derive_id: the bare name, or the first suffix that is free.
DerivedId(config, name) ==
  LET Free(n) == <<name, n>> \notin Ids(config)
  IN  <<name, CHOOSE n \in 1..(Cardinality(Key) + 1) :
                Free(n) /\ \A m \in 1..(n - 1) : ~Free(m)>>

-----------------------------------------------------------------------------
Unsaved == {"identify", "derive", "lock", "read", "verify", "rename"}
Busy == Unsaved \cup {"apply"}
Locked == {"read", "verify", "rename"}

TypeOK ==
  /\ file \in [version : 0..MaxFiles, config : Config]
  /\ lock \in Writer \cup {Nobody}
  /\ pc \in [Writer -> {"idle"} \cup Busy]
  /\ \A w \in Writer : lock = w <=> pc[w] \in Locked
  /\ op \in [Writer -> Op]
  /\ id \in [Writer -> Id]
  /\ before \in [Writer -> [version : 0..MaxFiles, config : Config]]
  /\ rendered \in [Writer -> Config]
  /\ written \in [Writer -> 0..MaxFiles]
  /\ result \in [Writer -> {"none", "saved", "ok", "error"}]
  /\ daemon \in [version : -1..MaxFiles, config : Config]
  /\ edits \in 0..MaxHandEdits
  /\ serial \in Config
  /\ raced \in BOOLEAN

\* Nothing is enrolled yet, or a file that works is there.
SomeId == CHOOSE i \in Id : TRUE

Init ==
  /\ \E config \in Found \cup {Empty} : file = [version |-> 0, config |-> config]
  /\ lock = Nobody
  /\ pc = [w \in Writer |-> "idle"]
  /\ op = [w \in Writer |-> [kind |-> "remove", id |-> SomeId]]
  /\ id = [w \in Writer |-> SomeId]
  /\ before = [w \in Writer |-> Missing]
  /\ rendered = [w \in Writer |-> Empty]
  /\ written = [w \in Writer |-> 0]
  /\ result = [w \in Writer |-> "none"]
  /\ daemon = Stopped
  /\ edits = 0
  /\ serial = file.config
  /\ raced = FALSE

history == <<edits, serial, raced>>
plan == <<op, id, before, rendered, written>>
Goto(w, label) == pc' = [pc EXCEPT ![w] = label]

\* Mutant: an early return forgets the lock.
ReportKeepsLock(w, outcome) ==
  /\ Goto(w, "idle")
  /\ result' = [result EXCEPT ![w] = outcome]
  /\ op' = [op EXCEPT ![w] = [kind |-> "remove", id |-> SomeId]]
  /\ id' = [id EXCEPT ![w] = SomeId]
  /\ before' = [before EXCEPT ![w] = Missing]
  /\ rendered' = [rendered EXCEPT ![w] = Empty]
  /\ UNCHANGED lock

\* The command is over: its lock is released, its temporary file is removed.
Report(w, outcome) ==
  /\ Goto(w, "idle")
  /\ result' = [result EXCEPT ![w] = outcome]
  /\ lock' = IF lock = w THEN Nobody ELSE lock
  /\ op' = [op EXCEPT ![w] = [kind |-> "remove", id |-> SomeId]]
  /\ id' = [id EXCEPT ![w] = SomeId]
  /\ before' = [before EXCEPT ![w] = Missing]
  /\ rendered' = [rendered EXCEPT ![w] = Empty]

\* The bound on files: what is under way may still make one each.
Room == file.version + Cardinality({w \in Writer : pc[w] \in Unsaved}) < MaxFiles

Begin(w, o) ==
  /\ pc[w] = "idle" /\ Room
  /\ op' = [op EXCEPT ![w] = o]
  /\ id' = [id EXCEPT ![w] = IF o.kind \in {"add", "remove", "tune"} THEN o.id
                                ELSE SomeId]
  /\ result' = [result EXCEPT ![w] = "none"]
  /\ written' = [written EXCEPT ![w] = 0]
  /\ Goto(w, IF o.kind = "enroll" THEN "identify" ELSE "lock")
  /\ UNCHANGED <<file, lock, before, rendered, daemon, history>>

\* id_for_irk: this key may be enrolled already.  The lock is not held.
Identify(w) ==
  /\ pc[w] = "identify"
  /\ \/ \E d \in file.config.devices :
          /\ d.key = op[w].key
          /\ id' = [id EXCEPT ![w] = d.id]
          /\ Goto(w, "lock")
     \/ /\ op[w].key \notin Keys(file.config)
        /\ Goto(w, "derive")
        /\ UNCHANGED id
  /\ UNCHANGED <<file, lock, op, before, rendered, written, result, daemon, history>>

\* derive_id, from a second read, without the lock either.
Derive(w) ==
  /\ pc[w] = "derive"
  /\ id' = [id EXCEPT ![w] = DerivedId(file.config, op[w].name)]
  /\ Goto(w, "lock")
  /\ UNCHANGED <<file, lock, op, before, rendered, written, result, daemon, history>>

Lock(w) ==
  /\ pc[w] = "lock" /\ lock = Nobody
  /\ lock' = w
  /\ Goto(w, "read")
  /\ UNCHANGED <<file, plan, result, daemon, history>>

\* Mutant: retry until the lock is free.
LockRetriedForEver(w) ==
  /\ pc[w] = "lock" /\ lock # Nobody
  /\ UNCHANGED vars

\* A second of retries did not get the lock.
LockTimesOut(w) ==
  /\ pc[w] = "lock" /\ lock # Nobody
  /\ Report(w, "error")
  /\ UNCHANGED <<file, written, daemon, history>>

\* The edit is made on what was read; an unchanged file is not written.
Read(w) ==
  LET edited == Edited(file.config, op[w], id[w])
  IN  /\ pc[w] = "read"
      /\ \/ /\ edited = Refused
            /\ Report(w, "error")
            /\ UNCHANGED written
         \/ /\ edited = file.config
            /\ Goto(w, "apply")
            /\ lock' = Nobody
            /\ written' = [written EXCEPT ![w] = file.version]
            /\ UNCHANGED <<op, id, before, rendered, result>>
         \/ /\ edited \notin {Refused, file.config}
            /\ before' = [before EXCEPT ![w] = file]
            /\ rendered' = [rendered EXCEPT ![w] = edited]
            /\ Goto(w, "verify")
            /\ UNCHANGED <<lock, op, id, written, result>>
      /\ UNCHANGED <<file, daemon, history>>

\* Mutant: the lock is taken to keep everybody out.
VerifyNothing(w) ==
  /\ pc[w] = "verify"
  /\ Goto(w, "rename")
  /\ UNCHANGED <<file, lock, plan, result, daemon, history>>

\* The temporary file is written and synced, or it is not; then the file must
\* have the identity and the content that were read.
Verify(w) ==
  /\ pc[w] = "verify"
  /\ IF file = before[w]
       THEN /\ Goto(w, "rename")
            /\ UNCHANGED <<lock, plan, result>>
       ELSE /\ Report(w, "error")
            /\ UNCHANGED written
  /\ UNCHANGED <<file, daemon, history>>

StageFails(w) ==
  /\ pc[w] = "verify"
  /\ Report(w, "error")
  /\ UNCHANGED <<file, written, daemon, history>>

\* The directory is synced after the rename; if that fails the command
\* reports an error and restarts nothing, but the new file is in place.
Rename(w) ==
  /\ pc[w] = "rename"
  /\ file' = [version |-> file.version + 1, config |-> rendered[w]]
  /\ serial' = IF Edited(serial, op[w], id[w]) = Refused THEN serial
               ELSE Edited(serial, op[w], id[w])
  /\ \/ /\ Goto(w, "apply")
        /\ lock' = Nobody
        /\ written' = [written EXCEPT ![w] = file.version + 1]
        /\ UNCHANGED <<op, id, before, rendered, result>>
     \/ Report(w, "error") /\ UNCHANGED written
  /\ UNCHANGED <<daemon, edits, raced>>

\* The daemon reads the file once, when it starts, and refuses to run on one
\* that does not resolve.
Loaded == IF Resolves(file.config) THEN file ELSE Stopped

\* Mutant: the change takes effect when somebody restarts the daemon.
ApplyLater(w) ==
  /\ pc[w] = "apply"
  /\ Report(w, "ok")
  /\ UNCHANGED <<file, written, daemon, history>>

\* A command's `systemctl try-restart` leaves a stopped daemon down; the menu,
\* which alone can tune, ends each of its edits with `restart`.  Either may fail,
\* and is reported.  Guided enrollment only gives the daemon back, or starts it.
Apply(w) ==
  /\ pc[w] = "apply"
  /\ \/ /\ op[w].kind = "enroll"
        /\ UNCHANGED daemon
        /\ Report(w, "saved")
     \/ /\ op[w].kind # "enroll"
        /\ \/ daemon' = Loaded
           \/ daemon = Stopped /\ op[w].kind # "tune" /\ UNCHANGED daemon
        /\ Report(w, "ok")
     \/ /\ op[w].kind # "enroll"
        /\ UNCHANGED daemon
        /\ Report(w, "error")
  /\ UNCHANGED <<file, written, history>>

\* The process is killed: the kernel drops its lock, nothing else is undone.
Die(w) ==
  /\ pc[w] # "idle"
  /\ Report(w, "error")
  /\ UNCHANGED <<file, written, daemon, history>>

StartDaemon ==
  /\ daemon = Stopped /\ daemon' = Loaded
  /\ UNCHANGED <<file, lock, pc, plan, result, history>>

StopDaemon ==
  /\ daemon # Stopped /\ daemon' = Stopped
  /\ UNCHANGED <<file, lock, pc, plan, result, history>>

\* An editor saves a device's removal over the file, whoever holds the lock.
HandEdit ==
  /\ edits < MaxHandEdits /\ Room
  /\ edits' = edits + 1
  /\ \E d \in file.config.devices :
       /\ file' = [version |-> file.version + 1, config |-> Without(file.config, d.id)]
       /\ serial' = Without(file.config, d.id)
  /\ raced' = (raced \/ \E w \in Writer : pc[w] = "rename")
  /\ UNCHANGED <<lock, pc, plan, result, daemon>>

Run(w) ==
  \/ Identify(w) \/ Derive(w) \/ Lock(w) \/ LockTimesOut(w) \/ Read(w)
  \/ Verify(w) \/ Rename(w) \/ Apply(w)

Next ==
  \/ \E w \in Writer :
       (\E o \in Op : Begin(w, o)) \/ Run(w) \/ StageFails(w) \/ Die(w)
  \/ StartDaemon \/ StopDaemon \/ HandEdit

\* Fairness.  A running command is scheduled; one that is not in Running may
\* be stopped (^Z) at any point, the lock in its hands.
Spec == Init /\ [][Next]_vars
FairSpec == Spec /\ \A w \in Running : WF_vars(Run(w))

-----------------------------------------------------------------------------
(***************************************************************************)
(* Properties.                                                             *)
(***************************************************************************)

(***************************************************************************)
(* The commands, however they interleave and wherever they die, leave a    *)
(* file the daemon can run on, or one that enrolls nobody (update_config,  *)
(* devices.rs:210-234).  Hand edits may not.                               *)
(***************************************************************************)
FileUsable ==
  edits = 0 => file.config.devices = {} \/ Resolves(file.config)

(***************************************************************************)
(* The file is what all the edits made so far come to, applied one after   *)
(* another: no update is lost, not even an editor's, unless the editor     *)
(* wrote between the last check and the rename (atomic.rs:120-125).        *)
(***************************************************************************)
NoUpdateLost == ~raced => file.config = serial

(***************************************************************************)
(* A change that was reported as made is enforced: the running daemon      *)
(* loaded the file after it (main.rs:267-291).  A removed device does not  *)
(* unlock, a stricter rule holds.                                          *)
(***************************************************************************)
ReportedIsEnforced ==
  \A w \in Writer :
    result[w] = "ok" /\ daemon # Stopped => daemon.version >= written[w]

\* A command always ends, even if the one that holds the lock never does
\* (atomic.rs:142-164).
CommandsEnd == \A w \in Running : pc[w] \in Busy ~> pc[w] = "idle"

(***************************************************************************)
(* What the comment on derive_id promises: enrolling something new never   *)
(* silently replaces something enrolled (devices.rs:105-109).              *)
(***************************************************************************)
EnrollReplacesNothing ==
  [][\A w \in Writer :
       /\ pc[w] = "rename" /\ file' # file /\ op[w].kind = "enroll"
       /\ pc'[w] # "rename"
       => Keys(file.config) \subseteq Keys(file'.config)]_vars
=============================================================================
