---------------------------- MODULE Integration ----------------------------
(***************************************************************************)
(* `setup` and `uninstall` (crates/cli/src/setup.rs and setup/): how the   *)
(* integration gets into a user's session and out of it again.             *)
(*                                                                         *)
(* It is spread over surfaces that nothing keeps together: the lock        *)
(* plugin's directory, what Omarchy has enabled, the code its shell has    *)
(* compiled, the Hyprland binding, the menu row, the units, the package.   *)
(* Every command is a sequence of steps, each of which may fail, and may   *)
(* die in between; two commands may run at once.                           *)
(***************************************************************************)
EXTENDS Naturals, Sequences, SequencesExt

CONSTANTS
  Process,    \* the commands that may run at once
  OwnLock,    \* a lock plugin of the user's own under the same id
  Nothing,    \* no directory, no stamp, nothing compiled
  Own,        \* the entries of the user's own in the menu extension
  Found,      \* how the binding and the menu may be found: [binding, menu]
  MaxRuns,    \* bound: commands begun
  MaxEvents,  \* bound: steps that fail by chance, deaths, commands begun beside
              \* another, and what happens elsewhere on the machine, all together
  MaxUpgrade  \* bound: updates of Omarchy's lock, of either kind

Version == [files : 0..MaxUpgrade, copied : 0..MaxUpgrade]

ASSUME ContentAssumption ==
  OwnLock # Nothing /\ {OwnLock, Nothing} \intersect Version = {} /\ Nothing \notin Nat
ASSUME BoundAssumption == MaxRuns \in Nat /\ MaxEvents \in Nat /\ MaxUpgrade \in Nat

VARIABLES
  stock,      \* Omarchy's own lock: its [files, copied]
  target,     \* the plugin directory: a clone, OwnLock or Nothing
  stage,      \* each process' stage directory
  rollback,   \* each process' rollback directory
  leftover,   \* the rollback directories of processes that ended
  enabled,    \* whether Omarchy has the plugin in charge of locking
  compiled,   \* what the shell has compiled under the plugin's id
  stamp,      \* lock.fingerprint in the state directory
  binding,    \* the markers in bindings.lua, in their order
  menu,       \* the menu extension, as module MenuExtension has it
  units,      \* [enabled, active], sets of the user's units
  socket,     \* whether the socket directory exists
  config,     \* whether config.toml exists
  package,    \* whether the package is installed
  pc,         \* where each process is in its command
  clone,      \* what each process rendered
  first,      \* first_install
  previous,   \* whether there was a plugin to put aside
  kept,       \* whether a step of the uninstall failed
  given,      \* history: the menu extension before any command
  alone,      \* history: the process whose command has had the integration to itself
  found,      \* history: the machine as that command found it
  single,     \* history: at most one marker of each kind in the bindings it found
  clean,      \* history: no step of it failed by chance
  result,     \* history: what it said in the end
  orderly,    \* history: commands came one at a time, and no code but ours ran
              \* under the plugin's id since the shell was told of ours
  runs,       \* history: commands begun, for the bound
  events      \* history: what MaxEvents bounds

plugin == <<target, stage, rollback, leftover, enabled>>
shell == <<compiled, stamp>>
desktop == <<binding, menu>>
service == <<units, socket, config>>
local == <<clone, first, previous, kept>>
history == <<given, alone, found, single, clean, orderly, runs, events>>
vars == <<stock, plugin, shell, desktop, service, package, pc, local, result, history>>

Content == Version \union {OwnLock, Nothing}
Unit == {"path", "service"}

Text == INSTANCE MenuExtension

\* A block of the bindings is the text from a start marker to an end marker.
Block == <<"start", "end">>
HasBlock(markers) ==
  \E i, j \in DOMAIN markers : i < j /\ markers[i] = "start" /\ markers[j] = "end"
Single(markers) == \A i, j \in DOMAIN markers : markers[i] = markers[j] => i = j

\* Both markers are there, and the first ones are the wrong way round.
Reversed(markers) == Text!Malformed(markers)

ASSUME OwnAssumption ==
  Own \intersect ({"open", "close", "comma", "rows", "nl"} \union Text!Mark \union Text!Note) = {}

ASSUME FoundAssumption ==
  \A f \in Found : /\ f.binding \in Seq({"start", "end"})
                   /\ f.menu \in Seq(Text!Token) /\ Text!OneBlock(f.menu)

IsGenerated == target \in Version      \* is_generated: its file has the marker
HasRow == Text!HasBlock(menu)

Integrated == IsGenerated /\ enabled /\ binding = Block /\ HasRow
Bare == target = Nothing /\ ~enabled /\ ~HasBlock(binding) /\ ~HasRow
Stranded == target = Nothing /\ enabled

\* The machine, as far as the properties ask how a command found it.
Machine ==
  CASE Integrated -> "integrated"
    [] Bare -> "bare"
    [] Stranded -> "stranded"
    [] target = OwnLock -> "own"
    [] OTHER -> "partial"

SetupSteps ==
  {"render", "look", "claim", "stage", "previous", "aside", "swap", "putback", "discard",
   "discover", "enable", "bind", "row", "reload", "code", "restart", "stamp", "units",
   "watch", "serve"}
UndoSteps == {"undo", "undoLock", "undoBind", "undoRow", "undoReload"}
UninstallSteps ==
  {"sudo", "lock", "remove", "unrow", "unbind", "unwatch", "unserve", "unsocket",
   "unstate", "forget", "package"}
Busy(p) == pc[p] # "idle"
Idle == \A p \in Process : ~Busy(p)

TypeOK ==
  /\ stock \in Version /\ target \in Content
  /\ stage \in [Process -> Version \union {Nothing}]
  /\ rollback \in [Process -> Content]
  /\ leftover \subseteq Version \union {OwnLock}
  /\ enabled \in BOOLEAN
  /\ compiled \in Content /\ stamp \in 0..MaxUpgrade \union {Nothing}
  /\ binding \in Seq({"start", "end"})
  /\ menu \in Seq(Text!Token) /\ given \in Seq(Text!Token)
  /\ units \in [enabled : SUBSET Unit, active : SUBSET Unit]
  /\ socket \in BOOLEAN /\ config \in BOOLEAN /\ package \in BOOLEAN
  /\ pc \in [Process -> {"idle"} \union SetupSteps \union UndoSteps \union UninstallSteps]
  /\ clone \in [Process -> Version \union {Nothing}]
  /\ first \in [Process -> BOOLEAN] /\ previous \in [Process -> BOOLEAN]
  /\ kept \in [Process -> BOOLEAN]
  /\ \A p \in Process :
       /\ pc[p] \in SetupSteps \ {"render"} => clone[p] # Nothing
       /\ pc[p] \in {"previous", "aside", "swap"} => stage[p] # Nothing
  /\ alone \in Process \union {Nothing}
  /\ found \in {"integrated", "bare", "stranded", "own", "partial"}
  /\ single \in BOOLEAN /\ clean \in BOOLEAN /\ orderly \in BOOLEAN
  /\ result \in {"none", "ok", "refused", "failed", "undone", "stuck", "removed", "kept", "died"}
  /\ runs \in 0..MaxRuns /\ events \in 0..MaxEvents

Init ==
  /\ stock = [files |-> 0, copied |-> 0]
  /\ target \in {Nothing, OwnLock} /\ enabled = (target = OwnLock)
  /\ stage = [p \in Process |-> Nothing] /\ rollback = [p \in Process |-> Nothing]
  /\ leftover = {}
  /\ compiled = target /\ stamp = Nothing
  /\ \E f \in Found : binding = f.binding /\ menu = f.menu
  /\ given = menu
  /\ units = [enabled |-> {}, active |-> {}] /\ socket = FALSE
  /\ config \in BOOLEAN /\ package = TRUE
  /\ pc = [p \in Process |-> "idle"]
  /\ clone = [p \in Process |-> Nothing]
  /\ first = [p \in Process |-> FALSE] /\ previous = [p \in Process |-> FALSE]
  /\ kept = [p \in Process |-> FALSE]
  /\ alone = Nothing /\ found = "bare" /\ single = FALSE /\ clean = FALSE
  /\ result = "none" /\ orderly = TRUE
  /\ runs = 0 /\ events = 0

-----------------------------------------------------------------------------
(***************************************************************************)
(* Commands begin, go on, fail and end.                                    *)
(***************************************************************************)

Moves(p, step) == pc' = [pc EXCEPT ![p] = step] /\ UNCHANGED result
Goto(p, step) == Moves(p, step) /\ UNCHANGED local

Forgets(p) ==
  /\ clone' = [clone EXCEPT ![p] = Nothing]
  /\ first' = [first EXCEPT ![p] = FALSE] /\ previous' = [previous EXCEPT ![p] = FALSE]
  /\ kept' = [kept EXCEPT ![p] = FALSE]

Ends(p, said) ==
  /\ pc' = [pc EXCEPT ![p] = "idle"] /\ Forgets(p)
  /\ result' = IF p = alone THEN said ELSE result

\* What a behaviour may have only so many of.
Event == events < MaxEvents /\ events' = events + 1

\* A process of its own: what the last one left under its names stays there.
Begin(p) ==
  /\ ~Busy(p) /\ runs < MaxRuns
  /\ \E step \in {"render", "sudo"} : pc' = [pc EXCEPT ![p] = step]
  /\ leftover' = leftover \union ({rollback[p]} \ {Nothing})
  /\ rollback' = [rollback EXCEPT ![p] = Nothing]
  /\ stage' = [stage EXCEPT ![p] = Nothing]
  /\ alone' = IF Idle THEN p ELSE Nothing
  /\ found' = IF Idle THEN Machine ELSE "bare"
  /\ single' = (Idle /\ Single(binding))
  /\ clean' = Idle /\ orderly' = (orderly /\ Idle) /\ result' = "none"
  /\ runs' = runs + 1
  /\ IF Idle THEN UNCHANGED events ELSE Event
  /\ UNCHANGED <<stock, target, enabled, shell, desktop, service, package, local, given>>

\* Something goes wrong that this model does not explain.
Chance(p) ==
  /\ Event
  /\ clean' = (clean /\ p # alone)
  /\ UNCHANGED <<given, found, single, alone, orderly, runs>>

Die(p) ==
  /\ Busy(p) /\ Chance(p) /\ Ends(p, "died")
  /\ UNCHANGED <<stock, plugin, shell, desktop, service, package>>

\* An error before the clone is in place: the stage directory is taken away.
Refuse(p) ==
  /\ Ends(p, "refused")
  /\ stage' = [stage EXCEPT ![p] = Nothing]
  /\ UNCHANGED <<stock, target, rollback, leftover, enabled, shell, desktop, service,
                 package>>

\* An error in lock::install after that is returned as it is.
Fail(p) ==
  Ends(p, "failed") /\ UNCHANGED <<stock, plugin, shell, desktop, service, package>>

\* Mutant: every install is undone, a rerun over a working one as well.
AlwaysRollBack(p) ==
  Goto(p, "undo") /\ UNCHANGED <<stock, plugin, shell, desktop, service, package>>

\* A later error undoes a first install, and only that.
RollBack(p) ==
  /\ IF first[p] THEN Goto(p, "undo") ELSE Ends(p, "failed")
  /\ UNCHANGED <<stock, plugin, shell, desktop, service, package>>

Mishap(p) ==
  /\ Chance(p)
  /\ \/ pc[p] \in {"render", "look", "claim", "stage", "aside", "sudo"} /\ Refuse(p)
     \/ pc[p] \in {"putback", "discard", "discover", "enable"} /\ Fail(p)
     \/ pc[p] \in {"bind", "row", "reload"} /\ RollBack(p)

-----------------------------------------------------------------------------
(***************************************************************************)
(* setup, as far as the swap: apply, render_clone, claim_target,           *)
(* write_clone.                                                            *)
(***************************************************************************)

Render(p) ==
  /\ pc[p] = "render" /\ UNCHANGED history
  /\ IF package
     THEN /\ clone' = [clone EXCEPT ![p] = stock] /\ Moves(p, "look")
          /\ UNCHANGED <<stock, plugin, shell, desktop, service, package, first, previous, kept>>
     ELSE Refuse(p)

Look(p) ==
  /\ pc[p] = "look" /\ Moves(p, "claim")
  /\ first' = [first EXCEPT ![p] = ~IsGenerated]
  /\ UNCHANGED <<stock, plugin, shell, desktop, service, package, clone, previous, kept, history>>

Claim(p) ==
  /\ pc[p] = "claim" /\ UNCHANGED history
  /\ IF target = OwnLock THEN Refuse(p)
     ELSE /\ Goto(p, "stage")
          /\ UNCHANGED <<stock, plugin, shell, desktop, service, package>>

\* Mutant: an error in building the stage directory goes unnoticed.
StageAnyhow(p) ==
  /\ pc[p] = "stage" /\ Goto(p, "previous")
  /\ stage' \in {stage, [stage EXCEPT ![p] = [files |-> clone[p].files, copied |-> stock.copied]]}
  /\ UNCHANGED <<stock, target, rollback, leftover, enabled, shell, desktop, service, package, history>>

\* The rendered files are in memory; the others are copied as they are now.
Stage(p) ==
  /\ pc[p] = "stage" /\ Goto(p, "previous")
  /\ stage' = [stage EXCEPT ![p] = [files |-> clone[p].files, copied |-> stock.copied]]
  /\ UNCHANGED <<stock, target, rollback, leftover, enabled, shell, desktop, service, package, history>>

Previous(p) ==
  /\ pc[p] = "previous"
  /\ previous' = [previous EXCEPT ![p] = target # Nothing]
  /\ Moves(p, IF target # Nothing THEN "aside" ELSE "swap")
  /\ UNCHANGED <<stock, plugin, shell, desktop, service, package, clone, first, kept, history>>

\* Mutant: the previous plugin is deleted rather than put aside.
AsideForGood(p) ==
  /\ pc[p] = "aside" /\ UNCHANGED history
  /\ Goto(p, "swap") /\ target' = Nothing
  /\ UNCHANGED <<stock, rollback, stage, leftover, enabled, shell, desktop, service, package>>

Aside(p) ==
  /\ pc[p] = "aside" /\ UNCHANGED history
  /\ IF target = Nothing THEN Refuse(p)
     ELSE /\ Goto(p, "swap")
          /\ rollback' = [rollback EXCEPT ![p] = target] /\ target' = Nothing
          /\ UNCHANGED <<stock, stage, leftover, enabled, shell, desktop, service, package>>

\* The rename fails where somebody else put a plugin, or by chance.
SwapFails(p) ==
  /\ pc[p] = "swap"
  /\ IF target # Nothing THEN UNCHANGED history ELSE Chance(p)
  /\ IF previous[p] THEN Goto(p, "putback") ELSE Ends(p, "refused")
  /\ stage' = [stage EXCEPT ![p] = Nothing]
  /\ UNCHANGED <<stock, target, rollback, leftover, enabled, shell, desktop, service, package>>

Swap(p) ==
  /\ pc[p] = "swap" /\ target = Nothing
  /\ target' = stage[p] /\ stage' = [stage EXCEPT ![p] = Nothing]
  /\ Goto(p, IF previous[p] THEN "discard" ELSE "discover")
  /\ UNCHANGED <<stock, rollback, leftover, enabled, shell, desktop, service, package,
                 history>>

\* What this rename says is ignored.
PutBack(p) ==
  /\ pc[p] = "putback" /\ UNCHANGED history
  /\ IF target = Nothing
     THEN /\ Ends(p, "refused")
          /\ target' = rollback[p] /\ rollback' = [rollback EXCEPT ![p] = Nothing]
          /\ UNCHANGED <<stock, stage, leftover, enabled, shell, desktop, service, package>>
     ELSE Fail(p)

Discard(p) ==
  /\ pc[p] = "discard" /\ Goto(p, "discover")
  /\ rollback' = [rollback EXCEPT ![p] = Nothing]
  /\ UNCHANGED <<stock, target, stage, leftover, enabled, shell, desktop, service, package,
                 history>>

-----------------------------------------------------------------------------
(***************************************************************************)
(* setup, from discovery on: lock::install, binding::install,              *)
(* menu::install, reload_code, service::enable.                            *)
(***************************************************************************)

\* validate, rescan and the forty looks at the plugin list.
Discover(p) ==
  /\ pc[p] = "discover" /\ UNCHANGED history
  /\ IF target = Nothing THEN Fail(p)
     ELSE /\ Goto(p, "enable")
          /\ UNCHANGED <<stock, plugin, shell, desktop, service, package>>

\* The shell keeps an instance it already has under this id.
Enable(p) ==
  /\ pc[p] = "enable" /\ UNCHANGED history
  /\ IF target = Nothing THEN Fail(p)
     ELSE /\ Goto(p, "bind")
          /\ enabled' = TRUE
          /\ compiled' = IF compiled = Nothing THEN target ELSE compiled
          /\ UNCHANGED <<stock, target, stage, rollback, leftover, stamp, desktop, service, package>>

\* A file with one block, or with no marker; any other is refused.
Bind(p) ==
  /\ pc[p] = "bind" /\ UNCHANGED history
  /\ IF binding \notin {<<>>, Block} THEN RollBack(p)
     ELSE /\ Goto(p, "row") /\ binding' = Block
          /\ UNCHANGED <<stock, plugin, shell, menu, service, package>>

AddRow(p) ==
  /\ pc[p] = "row" /\ UNCHANGED history
  /\ IF Text!Malformed(menu) \/ Text!Unclosed(menu) THEN RollBack(p)
     ELSE /\ Goto(p, "reload") /\ menu' = Text!RenderEntry(menu)
          /\ UNCHANGED <<stock, plugin, shell, binding, service, package>>

Reload(p) ==
  /\ pc[p] = "reload" /\ Goto(p, "code")
  /\ UNCHANGED <<stock, plugin, shell, desktop, service, package, history>>

\* Mutant: the stamp is written before the restart it stands for.
CodeStampsFirst(p) ==
  /\ pc[p] = "code"
  /\ Goto(p, IF stamp = clone[p].files THEN "units" ELSE "restart")
  /\ stamp' = clone[p].files
  /\ UNCHANGED <<stock, plugin, compiled, desktop, service, package, history>>

Code(p) ==
  /\ pc[p] = "code"
  /\ Goto(p, IF stamp = clone[p].files THEN "units" ELSE "restart")
  /\ UNCHANGED <<stock, plugin, shell, desktop, service, package, history>>

\* What a shell compiles that starts now.
Loaded == IF enabled THEN target ELSE Nothing

Restart(p) ==
  /\ pc[p] = "restart" /\ Goto(p, "stamp") /\ compiled' = Loaded
  /\ UNCHANGED <<stock, plugin, stamp, desktop, service, package, history>>

Stamp(p) ==
  /\ pc[p] = "stamp" /\ Goto(p, "units") /\ stamp' = clone[p].files
  /\ UNCHANGED <<stock, plugin, compiled, desktop, service, package, history>>

EnableUnits(p) ==
  /\ pc[p] = "units" /\ Goto(p, "watch")
  /\ units' = [units EXCEPT !.enabled = Unit]
  /\ UNCHANGED <<stock, plugin, shell, desktop, socket, config, package, history>>

Watch(p) ==
  /\ pc[p] = "watch" /\ Goto(p, "serve")
  /\ units' = [units EXCEPT !.active = @ \union {"path"}]
  /\ UNCHANGED <<stock, plugin, shell, desktop, socket, config, package, history>>

Serve(p) ==
  /\ pc[p] = "serve" /\ Ends(p, "ok")
  /\ IF config
     THEN units' = [units EXCEPT !.active = @ \union {"service"}] /\ socket' = TRUE
     ELSE units' = [units EXCEPT !.active = @ \ {"service"}] /\ UNCHANGED socket
  /\ UNCHANGED <<stock, plugin, shell, desktop, config, package, history>>

\* Neither the shell nor the units can fail a setup: it warns.
Warn(p) ==
  /\ Chance(p)
  /\ \/ pc[p] \in {"restart", "stamp"} /\ Goto(p, "units")
     \/ pc[p] \in {"units", "watch", "serve"} /\ Ends(p, "ok")
  /\ UNCHANGED <<stock, plugin, shell, desktop, service, package>>

-----------------------------------------------------------------------------
(***************************************************************************)
(* The undoing of a first install, and uninstall.  They share what they    *)
(* remove with: lock::remove, binding::remove, menu::remove.               *)
(***************************************************************************)

Undoing(p) == pc[p] \in UndoSteps

\* An error ends the undoing; uninstall notes it and goes on.
Cannot(p, next) ==
  IF Undoing(p) THEN Ends(p, "stuck")
  ELSE /\ Moves(p, next) /\ kept' = [kept EXCEPT ![p] = TRUE]
       /\ UNCHANGED <<clone, first, previous>>

Sudo(p) ==
  /\ pc[p] = "sudo" /\ Goto(p, "lock")
  /\ UNCHANGED <<stock, plugin, shell, desktop, service, package, history>>

LookForLock(p) ==
  /\ pc[p] \in {"undo", "lock"}
  /\ Goto(p, IF IsGenerated
             THEN IF Undoing(p) THEN "undoLock" ELSE "remove"
             ELSE IF Undoing(p) THEN "undoBind" ELSE "unrow")
  /\ UNCHANGED <<stock, plugin, shell, desktop, service, package, history>>

\* `omarchy plugin remove`, and the backup it made.
RemoveLock(p) ==
  /\ pc[p] \in {"undoLock", "remove"} /\ target # Nothing
  /\ Goto(p, IF Undoing(p) THEN "undoBind" ELSE "unrow")
  /\ target' = Nothing /\ enabled' = FALSE
  /\ UNCHANGED <<stock, stage, rollback, leftover, shell, desktop, service, package, history>>

\* It fails: nothing to remove, or by chance after any part of its work.
RemoveLockFails(p) ==
  /\ pc[p] \in {"undoLock", "remove"} /\ Cannot(p, "unrow")
  /\ \/ target = Nothing /\ UNCHANGED <<target, enabled, history>>
     \/ Chance(p) /\ target' \in {target, Nothing} /\ enabled' = FALSE
     \/ Chance(p) /\ UNCHANGED <<target, enabled>>
  /\ UNCHANGED <<stock, stage, rollback, leftover, shell, desktop, service, package>>

RemoveRow(p) ==
  /\ pc[p] \in {"undoRow", "unrow"} /\ UNCHANGED history
  /\ IF Text!Malformed(menu) THEN Cannot(p, "unbind") /\ UNCHANGED menu
     ELSE /\ Goto(p, IF Undoing(p) THEN "undoReload" ELSE "unbind")
          /\ menu' = Text!RenderRemoval(menu)
  /\ UNCHANGED <<stock, plugin, shell, binding, service, package>>

\* The text goes from the first start marker, before which there is no marker,
\* to the first end marker.
WithoutFirst(markers) == SubSeq(markers, Text!First(markers, "end") + 1, Len(markers))

\* binding::remove: where the markers are not both there nothing is removed, and
\* where the first ones are the wrong way round it fails. Hyprland's reload
\* after it can fail the undoing, but not an uninstall.
Unbind(p) ==
  /\ pc[p] \in {"undoBind", "unbind"} /\ UNCHANGED history
  /\ IF Reversed(binding) THEN Cannot(p, "unwatch") /\ UNCHANGED binding
     ELSE /\ Goto(p, IF Undoing(p) THEN "undoRow" ELSE "unwatch")
          /\ binding' = IF Text!HasBlock(binding) THEN WithoutFirst(binding) ELSE binding
  /\ UNCHANGED <<stock, plugin, shell, menu, service, package>>

Undone(p) ==
  /\ pc[p] = "undoReload" /\ Ends(p, "undone")
  /\ UNCHANGED <<stock, plugin, shell, desktop, service, package, history>>

Stop(unit) == [enabled |-> units.enabled \ {unit}, active |-> units.active \ {unit}]

\* Mutant: the service is stopped while its path unit still watches.
UnwatchLast(p) ==
  /\ pc[p] \in {"unwatch", "unserve"}
  /\ Goto(p, IF pc[p] = "unwatch" THEN "unserve" ELSE "unsocket")
  /\ units' = Stop(IF pc[p] = "unwatch" THEN "service" ELSE "path")
  /\ UNCHANGED <<stock, plugin, shell, desktop, socket, config, package, history>>

\* The path unit goes first: it would start the service again.
StopUnits(p) ==
  /\ pc[p] \in {"unwatch", "unserve"}
  /\ Goto(p, IF pc[p] = "unwatch" THEN "unserve" ELSE "unsocket")
  /\ units' = Stop(IF pc[p] = "unwatch" THEN "path" ELSE "service")
  /\ UNCHANGED <<stock, plugin, shell, desktop, socket, config, package, history>>

RemoveSocket(p) ==
  /\ pc[p] = "unsocket" /\ Goto(p, "unstate") /\ socket' = FALSE
  /\ UNCHANGED <<stock, plugin, shell, desktop, units, config, package, history>>

RemoveState(p) ==
  /\ pc[p] = "unstate" /\ Goto(p, "forget") /\ stamp' = Nothing
  /\ UNCHANGED <<stock, plugin, compiled, desktop, service, package, history>>

\* Enrollment::Keep or Forget.
Forget(p) ==
  /\ pc[p] = "forget" /\ Goto(p, "package") /\ config' \in {config, FALSE}
  /\ UNCHANGED <<stock, plugin, shell, desktop, units, socket, package, history>>

RemovePackage(p) ==
  /\ pc[p] = "package"
  /\ Ends(p, IF kept[p] THEN "kept" ELSE "removed")
  /\ package' = (package /\ kept[p])
  /\ UNCHANGED <<stock, plugin, shell, desktop, service, history>>

\* A step of the undoing, or of the uninstall, fails by chance.
CannotByChance(p) ==
  /\ Chance(p)
  /\ \/ pc[p] \in {"undoBind", "undoRow", "undoReload"} /\ Cannot(p, pc[p])
     \/ pc[p] = "unrow" /\ Cannot(p, "unbind")
     \/ pc[p] = "unbind" /\ Cannot(p, "unwatch")
     \/ pc[p] \in {"unwatch", "unserve"} /\ Cannot(p, "unsocket")
     \/ pc[p] = "unsocket" /\ Cannot(p, "unstate")
     \/ pc[p] = "unstate" /\ Cannot(p, "forget")
     \/ pc[p] = "forget" /\ Cannot(p, "package")
     \/ pc[p] = "package" /\ Ends(p, "kept")
  /\ UNCHANGED <<stock, plugin, shell, desktop, service, package>>

Setup(p) ==
  \/ Render(p) \/ Look(p) \/ Claim(p) \/ Stage(p) \/ Previous(p) \/ Aside(p) \/ Swap(p)
  \/ SwapFails(p) \/ PutBack(p) \/ Discard(p) \/ Discover(p) \/ Enable(p) \/ Bind(p)
  \/ AddRow(p) \/ Reload(p) \/ Code(p) \/ Restart(p) \/ Stamp(p) \/ EnableUnits(p)
  \/ Watch(p) \/ Serve(p) \/ Mishap(p) \/ Warn(p)

Uninstall(p) ==
  \/ Sudo(p) \/ LookForLock(p) \/ RemoveLock(p) \/ RemoveLockFails(p) \/ RemoveRow(p)
  \/ Unbind(p) \/ Undone(p) \/ StopUnits(p) \/ RemoveSocket(p) \/ RemoveState(p)
  \/ Forget(p) \/ RemovePackage(p) \/ CannotByChance(p)

-----------------------------------------------------------------------------
(***************************************************************************)
(* The rest of the machine.                                                *)
(***************************************************************************)

Elsewhere == Event /\ UNCHANGED <<given, found, single, alone, clean, orderly, runs>>

\* An update of Omarchy brings another lock: files that are patched, or others.
Upgrade ==
  /\ Elsewhere
  /\ \E part \in {"files", "copied"} :
       stock[part] < MaxUpgrade /\ stock' = [stock EXCEPT ![part] = @ + 1]
  /\ UNCHANGED <<plugin, shell, desktop, service, package, pc, local, result>>

Aloof ==
  /\ Event /\ alone' = Nothing /\ found' = "bare" /\ single' = FALSE /\ clean' = FALSE
  /\ result' = "none"
  /\ orderly' = (orderly /\ stamp = Nothing) /\ UNCHANGED <<given, runs>>

\* `omarchy plugin clone`, and `plugin remove` of what it made.
CloneLock ==
  /\ target = Nothing /\ target' = OwnLock /\ enabled' = TRUE /\ Aloof
  /\ compiled' = IF compiled = Nothing THEN OwnLock ELSE compiled
  /\ UNCHANGED <<stock, stage, rollback, leftover, stamp, desktop, service, package, pc, local>>

DropLock ==
  /\ target = OwnLock /\ target' = Nothing /\ enabled' = FALSE /\ Aloof
  /\ UNCHANGED <<stock, stage, rollback, leftover, shell, desktop, service, package, pc, local>>

RestartShell ==
  /\ compiled # Loaded /\ compiled' = Loaded /\ Elsewhere
  /\ UNCHANGED <<stock, plugin, stamp, desktop, service, package, pc, local, result>>

Enroll ==
  /\ ~config /\ config' = TRUE /\ Elsewhere
  /\ UNCHANGED <<stock, plugin, shell, desktop, units, socket, package, pc, local, result>>

\* The path unit starts the service where there is a config.
Trigger ==
  /\ "path" \in units.active /\ config
  /\ units' = [units EXCEPT !.active = @ \union {"service"}] /\ socket' = TRUE
  /\ UNCHANGED <<stock, plugin, shell, desktop, config, package, pc, local, result, history>>

Reinstall ==
  /\ ~package /\ package' = TRUE /\ Elsewhere
  /\ UNCHANGED <<stock, plugin, shell, desktop, service, pc, local, result>>

Next ==
  \/ \E p \in Process : Begin(p) \/ Setup(p) \/ Uninstall(p) \/ Die(p)
  \/ Upgrade \/ CloneLock \/ DropLock \/ RestartShell \/ Enroll \/ Trigger \/ Reinstall

Spec == Init /\ [][Next]_vars

-----------------------------------------------------------------------------
(***************************************************************************)
(* Properties.                                                             *)
(***************************************************************************)

(***************************************************************************)
(* However setups and uninstalls overlap, fail and die: while Omarchy has  *)
(* the plugin in charge of locking there is one in its place, or the one   *)
(* that was is still on disk under a rollback name, never neither. And a   *)
(* command that finds a lock plugin of the user's own under the id neither *)
(* replaces nor removes it (write_clone, lock.rs:436-487; claim_target,    *)
(* 415-434; remove, 578-583). A plugin the user clones between the claim   *)
(* and the first rename is not covered: it is moved aside and deleted.     *)
(***************************************************************************)
LockStays ==
  /\ enabled => target # Nothing \/ leftover # {} \/ \E p \in Process : rollback[p] # Nothing
  /\ alone # Nothing /\ found = "own" => target = OwnLock

(***************************************************************************)
(* The command that had the integration to itself has ended.               *)
(***************************************************************************)
Done == alone # Nothing /\ ~Busy(alone)

(***************************************************************************)
(* A setup that says ok has every piece in place; one that says it was     *)
(* undone has left none, but of a bindings.lua with several blocks, whose  *)
(* first is cut; a setup or uninstall that fails before it changed         *)
(* anything, or whose rerun over a working integration fails, leaves what  *)
(* was there working (setup.rs:37-42). The second rename and the one back  *)
(* may both fail: then the plugin is under its rollback name. A first      *)
(* setup that fails inside lock::install after the swap (setup.rs:54) is   *)
(* not undone, and nothing is said of it here.                             *)
(***************************************************************************)
NeverHalfIntegrated ==
  Done =>
    /\ result = "ok" => Integrated
    /\ result = "undone" =>
         /\ target = Nothing /\ ~enabled /\ ~HasRow
         /\ single => ~HasBlock(binding)
    /\ result \in {"refused", "failed", "undone", "stuck"} /\ found = "integrated" =>
         Integrated \/ (target = Nothing /\ rollback[alone] # Nothing)
    /\ result = "refused" /\ found = "bare" => Bare

(***************************************************************************)
(* An uninstall that removes the package has removed everything the        *)
(* package is needed for, whatever state earlier failures and deaths left, *)
(* and the path unit has not started the daemon again behind it. One that  *)
(* keeps the package had a step that failed in this very run, or found the *)
(* markers of the menu or of the bindings the wrong way round: what earlier*)
(* runs left half removed does not make it fail (teardown.rs:3-6, 53-113;  *)
(* service.rs:56-58; binding.rs:76-91). Of a bindings.lua with several     *)
(* blocks only the first goes. Where a swap that died had left no plugin   *)
(* at all, Omarchy's setting is not put back.                              *)
(***************************************************************************)
RemovalIsWhole ==
  Done =>
    /\ result = "removed" =>
         /\ ~IsGenerated /\ (found # "stranded" => (enabled => target = OwnLock))
         /\ (single => ~HasBlock(binding)) /\ ~HasRow
         /\ units = [enabled |-> {}, active |-> {}] /\ ~socket /\ stamp = Nothing
    /\ result = "kept" => ~clean \/ Text!Malformed(menu) \/ Reversed(binding)

(***************************************************************************)
(* After a setup that went well the shell runs the lock code that setup    *)
(* rendered, though the shell is only restarted when the stamp differs     *)
(* (reload_code, lock.rs:504-522), and stamps survive failed runs,         *)
(* restarts of the shell and updates. Helper files are copied, not         *)
(* rendered, and not in the fingerprint: an update that changes only those *)
(* does not reach a running shell. Nor is anything said where commands     *)
(* overlapped, or where a plugin of the user's own ran under this id while *)
(* a stamp of ours was still there. And it rests on versions that only     *)
(* grow: a death between the restart and the stamp, then a downgrade to    *)
(* the version that is stamped, would leave the newer code running.        *)
(***************************************************************************)
RunsWhatItInstalled ==
  Done /\ clean /\ orderly /\ result = "ok" =>
    compiled \in Version /\ compiled.files = target.files

(***************************************************************************)
(* Any number of setups, failed ones too, and uninstalls leaves the user's *)
(* menu extension well formed with the user's entries and comments in      *)
(* their order, and it is one of three texts: as found, with the rows, or  *)
(* without them (menu.rs:138-196). This holds where the closing brace is   *)
(* the last brace of the file and first on its line, and a block that was  *)
(* there already has lines of its own and nothing of the user's in it.     *)
(* Where an entry shares the closing brace's line, or a comment after it   *)
(* has a brace, the result does not parse; of a file of one line the       *)
(* removal takes the user's entries with it; and next to a start marker    *)
(* that has lost its end a setup writes a second block, and the next       *)
(* removal cuts from the first marker on.                                  *)
(***************************************************************************)
MenuStaysGood ==
  Text!Editable(given) =>
    /\ Text!Parses(menu) /\ Text!TheUsers(menu) = Text!TheUsers(given)
    /\ menu \in {given, Text!RenderEntry(given), Text!RenderRemoval(given)}
=============================================================================
