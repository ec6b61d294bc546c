------------------------------ MODULE Session ------------------------------
(***************************************************************************)
(* The interactive menu's process (crates/cli/src/wizard.rs, wizard/       *)
(* daemon.rs, wizard/cancellable.rs, interrupt.rs): how it takes the       *)
(* adapter from the daemon for an operation and gives it back, while       *)
(* Ctrl+C and signals end the operation, or the process.                   *)
(*                                                                         *)
(* Three threads: the main one paints, polls keys and owns the pause; a    *)
(* worker runs the operation; one handles signals.  `systemctl` runs in    *)
(* processes of its own, which outlive this one.                           *)
(***************************************************************************)
EXTENDS Naturals

CONSTANTS
  MaxAsks,    \* bound: Ctrl+C and signals
  MaxPauses   \* bound: operations

ASSUME BoundAssumption == MaxAsks \in Nat /\ MaxPauses \in Nat

VARIABLES
  pc,         \* where each thread is; "exit" ends the process
  exited,     \* "no", "returned" from main, or "forced"
  quit,       \* QUIT_REQUESTED
  cancel,     \* the operation's cancel flag
  stopped,    \* DAEMON_STOPPED
  job,        \* each thread's systemctl: a verb, or "none"
  daemon,     \* whether presenced runs
  found,      \* history: it ran when the pause under way, or the last, began
  failed,     \* history: the pause's `systemctl start` failed: "no", "unsaid", "said"
  asks,       \* history: requests to leave, for the bound
  pauses,     \* history: pauses begun
  starts      \* history: `systemctl start` issued

vars == <<pc, exited, quit, cancel, stopped, job, daemon, found, failed, asks,
          pauses, starts>>

Thread == {"main", "signals"}
Alive == exited = "no"

MainPc == {"menu", "probe", "flag", "stop", "stopping", "working", "resume", "restart",
           "restarting", "result", "shown", "onquit", "putback", "leaving", "exit"}
WorkerPc == {"none", "busy", "ok", "error"}
SignalsPc == {"idle", "onquit", "putback", "leaving", "exit"}

TypeOK ==
  /\ pc \in [main : MainPc, signals : SignalsPc, worker : WorkerPc]
  /\ pc.worker = "busy" => pc.main \in {"working", "onquit", "putback", "leaving", "exit"}
  /\ exited \in {"no", "returned", "forced"}
  /\ quit \in BOOLEAN /\ cancel \in BOOLEAN /\ stopped \in BOOLEAN
  /\ job \in [Thread -> {"none", "stop", "start"}]
  /\ daemon \in BOOLEAN /\ found \in BOOLEAN
  /\ failed \in {"no", "unsaid", "said"}
  /\ asks \in 0..MaxAsks /\ pauses \in 0..MaxPauses /\ starts \in Nat

Init ==
  /\ pc = [main |-> "menu", signals |-> "idle", worker |-> "none"]
  /\ exited = "no" /\ quit = FALSE /\ cancel = FALSE /\ stopped = FALSE
  /\ job = [t \in Thread |-> "none"]
  /\ daemon \in BOOLEAN /\ found = FALSE /\ failed = "no"
  /\ asks = 0 /\ pauses = 0 /\ starts = 0

history == <<found, failed, asks, pauses>>
Goto(t, label) == pc' = [pc EXCEPT ![t] = label]

-----------------------------------------------------------------------------
(***************************************************************************)
(* systemd: it does what it is told, or fails to, when it gets to it.      *)
(***************************************************************************)
RunJob(t) ==
  /\ job[t] # "none"
  /\ job' = [job EXCEPT ![t] = "none"]
  /\ \/ daemon' = (job[t] = "start") /\ failed' = failed
     \/ daemon' = daemon /\ failed' = IF job[t] = "start" THEN "unsaid" ELSE failed
  /\ UNCHANGED <<pc, exited, quit, cancel, stopped, found, asks, pauses, starts>>

-----------------------------------------------------------------------------
(***************************************************************************)
(* Asking to leave.                                                        *)
(***************************************************************************)

\* Mutant: any number of requests is one request.
RequestQuitPolitely(t) ==
  /\ quit' = TRUE
  /\ UNCHANGED pc

\* request_quit: the second request does not return.
RequestQuit(t) ==
  /\ quit' = TRUE
  /\ IF quit THEN Goto(t, "onquit") ELSE UNCHANGED pc

Asked == asks < MaxAsks /\ asks' = asks + 1

\* SIGINT, handled when the handler is not in force_quit already.
Interrupt ==
  /\ Alive /\ pc.signals = "idle" /\ Asked
  /\ RequestQuit("signals")
  /\ UNCHANGED <<exited, cancel, stopped, job, daemon, found, failed, pauses, starts>>

\* SIGTERM, SIGHUP and SIGQUIT never ask.
Terminate ==
  /\ Alive /\ pc.signals = "idle" /\ Asked
  /\ quit' = TRUE
  /\ Goto("signals", "onquit")
  /\ UNCHANGED <<exited, cancel, stopped, job, daemon, found, failed, pauses, starts>>

\* Ctrl+C as a byte, while the operation's poll holds the terminal raw.
PressQuit ==
  /\ Alive /\ pc.main = "working" /\ Asked
  /\ RequestQuit("main")
  /\ UNCHANGED <<exited, cancel, stopped, job, daemon, found, failed, pauses, starts>>

\* Ctrl+C at a prompt: the read is interrupted, and the process leaves.
InterruptedPrompt ==
  /\ Alive /\ pc.main \in {"menu", "shown"} /\ Asked
  /\ quit' = TRUE
  /\ Goto("main", "onquit")
  /\ UNCHANGED <<exited, cancel, stopped, job, daemon, found, failed, pauses, starts>>

-----------------------------------------------------------------------------
(***************************************************************************)
(* Putting the daemon back: restart_unlockd, by whichever thread.          *)
(***************************************************************************)

\* Mutant: the flag is cleared some other time.
SwapNothing(t, act, idle) ==
  /\ IF stopped THEN Goto(t, act) ELSE Goto(t, idle)
  /\ UNCHANGED stopped

\* Whoever finds the flag set is the one to act.
Swap(t, act, idle) ==
  /\ stopped' = FALSE
  /\ IF stopped THEN Goto(t, act) ELSE Goto(t, idle)

\* systemctl start, and when it ends, as it may with an error, what comes next.
Start(t, act, wait) ==
  /\ Alive /\ pc[t] = act
  /\ job' = [job EXCEPT ![t] = "start"]
  /\ starts' = starts + 1
  /\ Goto(t, wait)
  /\ UNCHANGED <<exited, quit, cancel, stopped, daemon, history>>

Started(t, wait, next) ==
  /\ Alive /\ pc[t] = wait /\ job[t] = "none"
  /\ Goto(t, next)
  /\ UNCHANGED <<exited, quit, cancel, stopped, job, daemon, history, starts>>

\* force_quit: on_quit is restore_terminal.
OnQuit(t) ==
  /\ Alive /\ pc[t] = "onquit"
  /\ Swap(t, "putback", "exit")
  /\ UNCHANGED <<exited, quit, cancel, job, daemon, history, starts>>

\* process::exit: every thread is gone.
Exit(t) ==
  /\ Alive /\ pc[t] = "exit"
  /\ exited' = "forced"
  /\ UNCHANGED <<pc, quit, cancel, stopped, job, daemon, history, starts>>

-----------------------------------------------------------------------------
(***************************************************************************)
(* The main thread and its worker.                                         *)
(***************************************************************************)
Choose ==
  /\ Alive /\ pc.main = "menu" /\ pauses < MaxPauses
  /\ pc' = [pc EXCEPT !.main = "probe", !.worker = "none"]
  /\ pauses' = pauses + 1
  /\ found' = FALSE /\ failed' = "no"
  /\ UNCHANGED <<exited, quit, cancel, stopped, job, daemon, asks, starts>>

\* Nothing to stop, nothing to put back.
Work(label) == pc' = [pc EXCEPT !.main = label, !.worker = "busy"]

Probe ==
  /\ Alive /\ pc.main = "probe"
  /\ found' = daemon
  /\ cancel' = FALSE
  /\ IF daemon THEN Goto("main", "flag") ELSE Work("working")
  /\ UNCHANGED <<exited, quit, stopped, job, daemon, failed, asks, pauses, starts>>

Flag ==
  /\ Alive /\ pc.main = "flag"
  /\ stopped' = TRUE
  /\ Goto("main", "stop")
  /\ UNCHANGED <<exited, quit, cancel, job, daemon, history, starts>>

Stop ==
  /\ Alive /\ pc.main = "stop"
  /\ job' = [job EXCEPT !.main = "stop"]
  /\ Goto("main", "stopping")
  /\ UNCHANGED <<exited, quit, cancel, stopped, daemon, history, starts>>

Stopped ==
  /\ Alive /\ pc.main = "stopping" /\ job.main = "none"
  /\ Work("working")
  /\ UNCHANGED <<exited, quit, cancel, stopped, job, daemon, history, starts>>

\* Esc, or the poll finds that somebody asked to leave.
Cancel ==
  /\ Alive /\ pc.main = "working" /\ ~cancel
  /\ cancel' = TRUE
  /\ UNCHANGED <<pc, exited, quit, stopped, job, daemon, history, starts>>

\* The operation ends, fails, panics, or sees the flag.
Finish ==
  /\ Alive /\ pc.worker = "busy"
  /\ \E outcome \in {"ok", "error"} : Goto("worker", outcome)
  /\ UNCHANGED <<exited, quit, cancel, stopped, job, daemon, history, starts>>

\* Mutant: leaving needs no restart.
CollectOrLeave ==
  /\ Alive /\ pc.main = "working" /\ pc.worker # "busy"
  /\ Goto("main", IF quit THEN "shown" ELSE "resume")
  /\ UNCHANGED <<exited, quit, cancel, stopped, job, daemon, history, starts>>

Collect ==
  /\ Alive /\ pc.main = "working" /\ pc.worker # "busy"
  /\ Goto("main", "resume")
  /\ UNCHANGED <<exited, quit, cancel, stopped, job, daemon, history, starts>>

\* DaemonPause::resume, or the Drop of a path that never got that far.
Resume ==
  /\ Alive /\ pc.main = "resume"
  /\ Swap("main", "restart", "shown")
  /\ UNCHANGED <<exited, quit, cancel, job, daemon, history, starts>>

\* The screen that follows says that the restart failed.  Nothing is drawn once
\* somebody asked to leave (ui.rs:219-222); and after an operation that failed
\* only the details may say it, which the user need not open.
Show ==
  /\ Alive /\ pc.main = "result"
  /\ Goto("main", "shown")
  /\ \/ ~quit /\ failed' = IF failed = "unsaid" THEN "said" ELSE failed
     \/ (quit \/ pc.worker = "error") /\ failed' = failed
  /\ UNCHANGED <<exited, quit, cancel, stopped, job, daemon, found, asks, pauses,
                 starts>>

\* The last screen is dismissed; the loops above it leave if somebody asked to.
Dismiss ==
  /\ Alive /\ pc.main = "shown"
  /\ \/ ~quit /\ Goto("main", "menu") /\ UNCHANGED exited
     \/ quit /\ exited' = "returned" /\ UNCHANGED pc
  /\ UNCHANGED <<quit, cancel, stopped, job, daemon, history, starts>>

\* The user chooses Exit.
Return ==
  /\ Alive /\ pc.main = "menu"
  /\ exited' = "returned"
  /\ UNCHANGED <<pc, quit, cancel, stopped, job, daemon, history, starts>>

ForceQuit(t) ==
  \/ OnQuit(t) \/ Start(t, "putback", "leaving") \/ Started(t, "leaving", "exit")
  \/ Exit(t)
Main ==
  \/ Probe \/ Flag \/ Stop \/ Stopped \/ Collect \/ Resume
  \/ Start("main", "restart", "restarting") \/ Started("main", "restarting", "result")
  \/ Show \/ ForceQuit("main")
Signals == ForceQuit("signals")
User == Choose \/ Cancel \/ Dismiss \/ Return \/ Interrupt \/ Terminate
          \/ PressQuit \/ InterruptedPrompt

Next == Main \/ Signals \/ User \/ Finish \/ \E t \in Thread : RunJob(t)

\* Fairness.  Threads that can run do, and so does systemd.  An operation may
\* hang, and the user need not press anything.
Spec == Init /\ [][Next]_vars
FairSpec ==
  /\ Spec /\ WF_vars(Main) /\ WF_vars(Signals)
  /\ \A t \in Thread : WF_vars(RunJob(t))

-----------------------------------------------------------------------------
(***************************************************************************)
(* Properties.                                                             *)
(***************************************************************************)
Settled == \A t \in Thread : job[t] = "none"
PutBack == daemon \/ failed # "no"

\* The failure was shown, or there was no screen that had to show it.
Told == failed = "unsaid" => quit \/ pc.worker = "error"

(***************************************************************************)
(* A process that is not forced out leaves the daemon as it found it,      *)
(* whatever became of the operation, or has tried to, and has said that it *)
(* could not. Two paths drop that error: nothing is drawn once the user    *)
(* has asked to leave (ui.rs:219-222, wizard.rs:776-778, 1035-1037 and the *)
(* Drop of daemon.rs:77-81), and the screen of a failed pairing says it    *)
(* only on its details (wizard.rs:652-660) (wizard/daemon.rs:38-46).       *)
(***************************************************************************)
LeavesAsFound ==
  exited = "returned" /\ pc.signals = "idle" /\ found /\ Settled =>
    PutBack /\ (daemon \/ Told)

(***************************************************************************)
(* A pause is ended by at most one restart, whichever threads try          *)
(* (wizard/daemon.rs:83-86).                                               *)
(***************************************************************************)
OneRestart == starts <= pauses

(***************************************************************************)
(* An operation that will not stop does not trap the user: a second        *)
(* request to leave ends the process (interrupt.rs:12-16, 42-51).          *)
(***************************************************************************)
SecondAskExits == asks >= 2 ~> ~Alive

(***************************************************************************)
(* What the comment on DAEMON_STOPPED says of every exit, forced ones      *)
(* included: the daemon is not left stopped, unless systemd refused to     *)
(* start it (wizard/daemon.rs:38-46).                                      *)
(***************************************************************************)
NeverStranded == ~Alive /\ found /\ Settled => PutBack
=============================================================================
