---------------------------- MODULE ControlSocket ----------------------------
(***************************************************************************)
(* Who owns the control socket (serve and remove_stale_socket,             *)
(* crates/daemon/src/control.rs:46-135).  Several daemons may start at     *)
(* once: the user service, restarted by systemd, and standalone runs.      *)
(* Each takes a sibling lock file, probes what it finds at the endpoint,   *)
(* removes it if nobody listens there, and binds.  A process that dies     *)
(* leaves its endpoint behind and drops its lock.                          *)
(*                                                                         *)
(* The lock is on an open file, not on a path: when the runtime directory  *)
(* is removed (systemd does so when the unit stops, and uninstall does,    *)
(* setup/service.rs:78-80) the next daemon creates and locks another file. *)
(*                                                                         *)
(* A Squatter listens at the endpoint without the lock.  It is started     *)
(* while no daemon is, and binds and listens in one step.                  *)
(***************************************************************************)
EXTENDS Integers, FiniteSets

CONSTANTS
  Process,      \* daemons that follow the protocol
  Unit,         \* those systemd runs, and restarts after a failure
  Squatter,     \* listeners that do not
  MaxDeaths,    \* bound: processes that die while they hold something
  MaxWipes      \* bound: removals of the runtime directory

ASSUME ProcessAssumption ==
  IsFiniteSet(Process) /\ Unit \subseteq Process /\ Process \cap Squatter = {}
ASSUME NameAssumption == {"absent", "foreign"} \cap (Process \cup Squatter) = {}
ASSUME BoundAssumption == MaxDeaths \in Nat /\ MaxWipes \in Nat

VARIABLES
  pc,           \* where each process is in `serve'
  opened,       \* the lock file each process opened, by generation
  held,         \* processes that hold the lock on what they opened
  lockFile,     \* the generation of the file at the lock's path
  directory,    \* does the runtime directory exist?
  endpoint,     \* what is at the socket's path: nothing, a file, or the
                \* socket some process bound
  listening,    \* processes that accept on the socket they bound
  deaths, wipes, \* how often, for the bounds
  torn          \* history: the directory was removed under a starting process

vars == <<pc, opened, held, lockFile, directory, endpoint, listening,
          deaths, wipes, torn>>

Absent == "absent"
Foreign == "foreign"     \* something that is not a socket

\* Positions that own the open lock file; those before the bind.
Running == {"lock", "inspect", "probe", "remove", "bind", "listen", "chmod", "serve"}
Starting == {"lock", "inspect", "probe", "remove", "bind"}

TypeOK ==
  /\ pc \in [Process -> {"off"} \cup Running]
  /\ opened \in [Process -> 0..lockFile]
  /\ held \subseteq {p \in Process : pc[p] \in Running \ {"lock"}}
  /\ lockFile = wipes
  /\ directory \in BOOLEAN
  /\ endpoint \in {Absent, Foreign} \cup Process \cup Squatter
  /\ listening \subseteq {p \in Process : pc[p] \in {"chmod", "serve"}} \cup Squatter
  /\ deaths \in 0..MaxDeaths /\ wipes \in 0..MaxWipes /\ torn \in BOOLEAN
  /\ ~directory => endpoint = Absent

Init ==
  /\ pc = [p \in Process |-> "off"]
  /\ opened = [p \in Process |-> 0]
  /\ held = {}
  /\ lockFile = 0
  /\ directory \in BOOLEAN
  /\ endpoint \in IF directory THEN {Absent, Foreign} \cup Process ELSE {Absent}
  /\ listening = {}
  /\ deaths = 0 /\ wipes = 0 /\ torn = FALSE

-----------------------------------------------------------------------------
Goto(p, label) == pc' = [pc EXCEPT ![p] = label]

files == <<lockFile, directory, endpoint>>
history == <<deaths, wipes, torn>>

\* Mutant: the lock outlives the call that took it.
FailKeepsLock(p) ==
  /\ Goto(p, "off")
  /\ listening' = listening \ {p}
  /\ UNCHANGED <<opened, held, files, history>>

\* `serve' returns an error: its listener and its lock are closed with it.
Fail(p) ==
  /\ Goto(p, "off")
  /\ held' = held \ {p}
  /\ listening' = listening \ {p}
  /\ UNCHANGED <<opened, files, history>>

Proceed(p, label) ==
  Goto(p, label) /\ UNCHANGED <<opened, held, files, listening, history>>

\* The process is started; it makes the directory and opens the lock file.
Launch(p) ==
  /\ pc[p] = "off"
  /\ Goto(p, "lock")
  /\ opened' = [opened EXCEPT ![p] = lockFile]
  /\ directory' = TRUE
  /\ UNCHANGED <<held, lockFile, endpoint, listening, history>>

\* Somebody else has locked the very file p opened.
Contended(p) == \E q \in held : q # p /\ opened[q] = opened[p]

\* Mutant: the guard is dropped as soon as it is taken.
TakeLockAndDrop(p) ==
  /\ pc[p] = "lock"
  /\ IF Contended(p) THEN Fail(p) ELSE Proceed(p, "inspect")

\* flock, exclusive, without waiting.
TakeLock(p) ==
  /\ pc[p] = "lock"
  /\ IF Contended(p) THEN Fail(p)
     ELSE /\ Goto(p, "inspect")
          /\ held' = held \cup {p}
          /\ UNCHANGED <<opened, files, listening, history>>

\* Mutant: a socket found is a stale socket.
InspectBlind(p) ==
  /\ pc[p] = "inspect"
  /\ Proceed(p, IF endpoint = Absent THEN "bind" ELSE "remove")

\* symlink_metadata: nothing there, not a socket, or a socket to probe.
Inspect(p) ==
  /\ pc[p] = "inspect"
  /\ IF endpoint = Foreign THEN Fail(p)
     ELSE Proceed(p, IF endpoint = Absent THEN "bind" ELSE "probe")

\* Mutant: a refused connection is as good as an answer.
ProbeTimid(p) == pc[p] = "probe" /\ Fail(p)

\* A connection is refused where nobody listens; an answer, a timeout or a
\* path that has gone are errors.
Probe(p) ==
  /\ pc[p] = "probe"
  /\ IF endpoint = Absent \/ endpoint \in listening
       THEN Fail(p)
       ELSE Proceed(p, "remove")

\* remove_file: whatever is at the path by now.
Remove(p) ==
  /\ pc[p] = "remove"
  /\ IF endpoint = Absent THEN Fail(p)
     ELSE /\ endpoint' = Absent
          /\ Goto(p, "bind")
          /\ UNCHANGED <<opened, held, lockFile, directory, listening, history>>

\* bind(2) fails on a path that exists and in a directory that does not.
Bind(p) ==
  /\ pc[p] = "bind"
  /\ IF endpoint # Absent \/ ~directory THEN Fail(p)
     ELSE /\ endpoint' = p
          /\ Goto(p, "listen")
          /\ UNCHANGED <<opened, held, lockFile, directory, listening, history>>

Listen(p) ==
  /\ pc[p] = "listen"
  /\ listening' = listening \cup {p}
  /\ Goto(p, "chmod")
  /\ UNCHANGED <<opened, held, files, history>>

\* set_permissions works on the path, whoever's socket is there.
Chmod(p) ==
  /\ pc[p] = "chmod"
  /\ IF endpoint = Absent THEN Fail(p) ELSE Proceed(p, "serve")

\* The process is stopped or killed, or `accept' fails.  Nothing is cleaned up.
Die(p) ==
  /\ pc[p] # "off" /\ deaths < MaxDeaths
  /\ deaths' = deaths + 1
  /\ Goto(p, "off")
  /\ held' = held \ {p}
  /\ listening' = listening \ {p}
  /\ UNCHANGED <<opened, files, wipes, torn>>

-----------------------------------------------------------------------------
Active == {p \in Process : pc[p] # "off"} \cup listening

\* An uninstall removes the runtime directory, the lock file and the endpoint in
\* it. The step before it stops the unit, but may have failed.
Wipe ==
  /\ directory /\ wipes < MaxWipes
  /\ wipes' = wipes + 1
  /\ directory' = FALSE
  /\ endpoint' = Absent
  /\ lockFile' = lockFile + 1
  /\ torn' = (torn \/ \E p \in Process : pc[p] \in Starting)
  /\ UNCHANGED <<pc, opened, held, listening, deaths>>

Squat(s) ==
  /\ Active = {} /\ directory /\ endpoint = Absent
  /\ endpoint' = s
  /\ listening' = {s}
  /\ UNCHANGED <<pc, opened, held, lockFile, directory, history>>

Leave(s) ==
  /\ s \in listening
  /\ listening' = listening \ {s}
  /\ UNCHANGED <<pc, opened, held, files, history>>

Serve(p) ==
  \/ TakeLock(p) \/ Inspect(p) \/ Probe(p) \/ Remove(p) \/ Bind(p)
  \/ Listen(p) \/ Chmod(p)

Next ==
  \/ \E p \in Process : Launch(p) \/ Serve(p) \/ Die(p)
  \/ \E s \in Squatter : Squat(s) \/ Leave(s)
  \/ Wipe

(***************************************************************************)
(* Fairness.  systemd restarts the daemon after a failure (presenced.      *)
(* service, Restart=on-failure), and a starting process runs on.  Deaths   *)
(* and wipes are bounded, so in the end there are none.                    *)
(***************************************************************************)
Spec == Init /\ [][Next]_vars
FairSpec ==
  /\ Spec
  /\ \A u \in Unit : WF_vars(Launch(u))
  /\ \A p \in Process : WF_vars(Serve(p))

-----------------------------------------------------------------------------
(***************************************************************************)
(* Properties.                                                             *)
(*                                                                         *)
(* One case is left out: `torn', where the directory is removed while a    *)
(* daemon, a standalone one or a unit that would not stop, is between      *)
(* opening its lock and binding.  It then works at the new endpoint under  *)
(* a lock nobody else contends for.                                        *)
(***************************************************************************)

(***************************************************************************)
(* Starting daemons never cost a listening one its endpoint: neither the   *)
(* loser of a race to start (control.rs:300-304) nor a later start unlinks *)
(* a socket somebody accepts on.                                           *)
(***************************************************************************)
NeverUnlinksLive ==
  [][~torn' /\ wipes' = wipes /\ endpoint \in listening
        => endpoint' = endpoint]_vars

(***************************************************************************)
(* A daemon that serves is the one clients reach, so it is alone, and the  *)
(* fleet that answers is the one being scanned for: as long as the lock    *)
(* file it holds is the one at the path (control.rs:56-72).                *)
(***************************************************************************)
ServerIsReached ==
  \A p \in Process :
    pc[p] = "serve" /\ opened[p] = lockFile /\ ~torn
      => endpoint = p /\ p \in listening

(***************************************************************************)
(* A stale endpoint never keeps the daemon out for good: once processes    *)
(* stop dying, somebody answers at the endpoint for ever, unless something *)
(* that is not a socket is in the way, or an uninstall that could not stop *)
(* the unit has removed the directory under it (teardown.rs:85-89): it     *)
(* serves on where nobody reaches it, and is not started again.            *)
(***************************************************************************)
Detached == \E u \in Unit : pc[u] = "serve" /\ opened[u] # lockFile
EventuallyServed ==
  <>[](endpoint = Foreign \/ torn \/ Detached \/ endpoint \in listening)
=============================================================================
