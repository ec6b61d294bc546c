--------------------------- MODULE Session_proofs ---------------------------
(***************************************************************************)
(* The daemon is put back once, and is as it was found when the menu is    *)
(* left, for any number of operations and requests to leave.               *)
(***************************************************************************)
EXTENDS Session, Integers, TLAPS

(***************************************************************************)
(* Every variable keeps its type. The worker runs only while the main      *)
(* thread waits for it or leaves without it.                               *)
(***************************************************************************)
LEMMA InitTypeOK == ASSUME Init PROVE TypeOK
<1>1. /\ pc = [main |-> "menu", signals |-> "idle", worker |-> "none"]
      /\ "menu" \in MainPc /\ "idle" \in SignalsPc /\ "none" \in WorkerPc
  BY DEF Init, MainPc, SignalsPc, WorkerPc
<1>2. /\ pc \in [main : MainPc, signals : SignalsPc, worker : WorkerPc]
      /\ pc.worker # "busy"
  BY <1>1
<1>3. 0 \in 0..MaxAsks /\ 0 \in 0..MaxPauses
  BY BoundAssumption
<1> QED
  BY <1>2, <1>3 DEF Init, TypeOK

\* No step of a thread, of systemd or of the user breaks it.
LEMMA NextTypeOK == ASSUME TypeOK, [Next]_vars PROVE TypeOK'
<1> USE BoundAssumption DEF TypeOK, MainPc, SignalsPc, WorkerPc, Goto, history, Thread, Alive
<1>1. CASE Interrupt
  BY <1>1 DEF Interrupt, RequestQuit, Asked
<1>2. CASE Terminate
  BY <1>2 DEF Terminate, Asked
<1>3. CASE PressQuit
  BY <1>3 DEF PressQuit, RequestQuit, Asked
<1>4. CASE InterruptedPrompt
  BY <1>4 DEF InterruptedPrompt, Asked
<1>5. CASE Start("main", "restart", "restarting")
  BY <1>5 DEF Start
<1>6. CASE Started("main", "restarting", "result")
  BY <1>6 DEF Started
<1>7. CASE \E t \in Thread : ForceQuit(t)
  <2> SUFFICES ASSUME NEW t \in Thread, ForceQuit(t) PROVE TypeOK'
    BY <1>7
  <2>1. CASE OnQuit(t)
    <3>1. CASE t = "main"
      BY <2>1, <3>1 DEF OnQuit, Swap
    <3>2. CASE t = "signals"
      BY <2>1, <3>2 DEF OnQuit, Swap
    <3> QED
      BY <3>1, <3>2
  <2>2. CASE Start(t, "putback", "leaving")
    BY <2>2 DEF Start
  <2>3. CASE Started(t, "leaving", "exit")
    BY <2>3 DEF Started
  <2>4. CASE Exit(t)
    BY <2>4 DEF Exit
  <2> QED
    BY <2>1, <2>2, <2>3, <2>4 DEF ForceQuit
<1>8. CASE \E t \in Thread : RunJob(t)
  <2> SUFFICES ASSUME NEW t \in Thread, RunJob(t) PROVE TypeOK'
    BY <1>8
  <2>1. daemon' \in BOOLEAN /\ failed' \in {"no", "unsaid", "said"}
    BY Zenon DEF RunJob
  <2>2. job' \in [Thread -> {"none", "stop", "start"}]
    BY DEF RunJob
  <2>3. UNCHANGED <<pc, exited, quit, cancel, stopped, found, asks, pauses, starts>>
    BY DEF RunJob
  <2> QED
    BY <2>1, <2>2, <2>3
<1>9. CASE Choose
  <2>1. /\ pc' \in [main : MainPc, signals : SignalsPc, worker : WorkerPc]
        /\ pc'.worker = "busy" => pc'.main \in {"working", "onquit", "putback", "leaving", "exit"}
    BY <1>9 DEF Choose
  <2>2. found' \in BOOLEAN /\ failed' = "no"
    BY <1>9 DEF Choose
  <2>3. pauses < MaxPauses /\ pauses' = pauses + 1
    BY <1>9 DEF Choose
  <2>4. UNCHANGED <<exited, quit, cancel, stopped, job, daemon, asks, starts>>
    BY <1>9 DEF Choose
  <2> QED
    BY <2>1, <2>2, <2>3, <2>4
<1>10. CASE Probe
  <2>1. /\ pc' \in [main : MainPc, signals : SignalsPc, worker : WorkerPc]
        /\ pc'.worker = "busy" => pc'.main \in {"working", "onquit", "putback", "leaving", "exit"}
    BY <1>10 DEF Probe, Work
  <2>2. found' \in BOOLEAN
    BY <1>10 DEF Probe
  <2>4. cancel' \in BOOLEAN
    BY <1>10 DEF Probe
  <2>3. UNCHANGED <<exited, quit, stopped, job, daemon, failed, asks, pauses, starts>>
    BY <1>10 DEF Probe
  <2> QED
    BY <2>1, <2>2, <2>3, <2>4
<1>11. CASE Flag
  BY <1>11 DEF Flag
<1>12. CASE Stop
  BY <1>12 DEF Stop
<1>13. CASE Stopped
  BY <1>13 DEF Stopped, Work
<1>14. CASE Cancel
  BY <1>14 DEF Cancel
<1>15. CASE Finish
  BY <1>15 DEF Finish
<1>16. CASE Collect
  BY <1>16 DEF Collect
<1>17. CASE Resume
  BY <1>17 DEF Resume, Swap
<1>18. CASE Dismiss \/ Return
  BY <1>18 DEF Dismiss, Return
<1>19. CASE UNCHANGED vars
  BY <1>19 DEF vars
<1>20. CASE Show
  BY <1>20 DEF Show
<1> QED
  BY <1>1, <1>2, <1>3, <1>4, <1>5, <1>6, <1>7, <1>8, <1>9, <1>10, <1>11, <1>12,
     <1>13, <1>14, <1>15, <1>16, <1>17, <1>18, <1>19, <1>20
     DEF Next, Main, Signals, User, Thread

-----------------------------------------------------------------------------
(***************************************************************************)
(* One restart for each pause.  A restart is owed from the moment a pause  *)
(* is asked for until systemctl is run: first by the main thread on its    *)
(* way to set DAEMON_STOPPED, then by the flag, and then by whichever      *)
(* thread swapped it away.  What was issued and what is owed never come to *)
(* more than the pauses.                                                   *)
(***************************************************************************)
One(b) == IF b THEN 1 ELSE 0

Owed ==
  One(pc.main \in {"probe", "flag", "restart", "putback"}) + One(stopped)
    + One(pc.signals = "putback")

NothingOwedTwice == starts + Owed <= pauses

\* A swap moves what is owed from the flag to its thread: it never copies it.
LEMMA NextNothingOwedTwice ==
  ASSUME TypeOK, NothingOwedTwice, [Next]_vars PROVE NothingOwedTwice'
<1> USE DEF TypeOK, MainPc, SignalsPc, WorkerPc, Goto, history, Thread, NothingOwedTwice, Owed, One
<1>1. CASE Interrupt
  BY <1>1 DEF Interrupt, RequestQuit, Asked
<1>2. CASE Terminate
  BY <1>2 DEF Terminate, Asked
<1>3. CASE PressQuit
  BY <1>3 DEF PressQuit, RequestQuit, Asked
<1>4. CASE InterruptedPrompt
  BY <1>4 DEF InterruptedPrompt, Asked
<1>5. CASE Start("main", "restart", "restarting")
  BY <1>5 DEF Start
<1>6. CASE Started("main", "restarting", "result")
  BY <1>6 DEF Started
<1>7. CASE \E t \in Thread : ForceQuit(t)
  <2> SUFFICES ASSUME NEW t \in Thread, ForceQuit(t) PROVE NothingOwedTwice'
    BY <1>7
  <2>1. CASE OnQuit(t)
    BY <2>1 DEF OnQuit, Swap
  <2>2. CASE Start(t, "putback", "leaving")
    BY <2>2 DEF Start
  <2>3. CASE Started(t, "leaving", "exit")
    BY <2>3 DEF Started
  <2>4. CASE Exit(t)
    BY <2>4 DEF Exit
  <2> QED
    BY <2>1, <2>2, <2>3, <2>4 DEF ForceQuit
<1>8. CASE \E t \in Thread : RunJob(t)
  BY <1>8 DEF RunJob
<1>9. CASE Choose
  <2>1. pc.main = "menu" /\ pc'.main = "probe" /\ pc'.signals = pc.signals
    BY <1>9 DEF Choose
  <2>2. pauses' = pauses + 1 /\ UNCHANGED <<stopped, starts>>
    BY <1>9 DEF Choose
  <2> QED
    BY <2>1, <2>2
<1>10. CASE Probe
  <2>1. pc.main = "probe" /\ pc'.main \in {"flag", "working"} /\ pc'.signals = pc.signals
    BY <1>10 DEF Probe, Work
  <2>2. UNCHANGED <<stopped, starts, pauses>>
    BY <1>10 DEF Probe
  <2> QED
    BY <2>1, <2>2
<1>11. CASE Flag
  BY <1>11 DEF Flag
<1>12. CASE Stop
  BY <1>12 DEF Stop
<1>13. CASE Stopped
  BY <1>13 DEF Stopped, Work
<1>14. CASE Cancel \/ Finish \/ Collect
  <2>1. /\ pc'.main = pc.main \/ (pc.main = "working" /\ pc'.main = "resume")
        /\ pc'.signals = pc.signals
    BY <1>14 DEF Cancel, Finish, Collect
  <2>2. UNCHANGED <<stopped, starts, pauses>>
    BY <1>14 DEF Cancel, Finish, Collect
  <2> QED
    BY <2>1, <2>2
<1>15. CASE Resume
  BY <1>15 DEF Resume, Swap
<1>16. CASE Dismiss \/ Return
  BY <1>16 DEF Dismiss, Return
<1>17. CASE UNCHANGED vars
  BY <1>17 DEF vars
<1>18. CASE Show
  BY <1>18 DEF Show
<1> QED
  BY <1>1, <1>2, <1>3, <1>4, <1>5, <1>6, <1>7, <1>8, <1>9, <1>10, <1>11, <1>12,
     <1>13, <1>14, <1>15, <1>16, <1>17, <1>18
     DEF Next, Main, Signals, User

\* The types hold of the whole session (wizard.rs, wizard/daemon.rs).
THEOREM SessionTypeOK == Spec => []TypeOK
<1>1. TypeOK /\ [Next]_vars => TypeOK'
  BY NextTypeOK
<1> QED
  BY InitTypeOK, <1>1, PTL DEF Spec

(***************************************************************************)
(* However many threads race to put the daemon back, a pause is ended by   *)
(* at most one restart (wizard/daemon.rs:83-86).                           *)
(***************************************************************************)
THEOREM RestartsOnce == Spec => []OneRestart
<1>1. Init => NothingOwedTwice
  BY DEF Init, NothingOwedTwice, Owed, One
<1>2. TypeOK /\ NothingOwedTwice /\ [Next]_vars => NothingOwedTwice'
  BY NextNothingOwedTwice
<1>3. TypeOK /\ NothingOwedTwice => OneRestart
  BY DEF TypeOK, NothingOwedTwice, Owed, One, OneRestart
<1> QED
  BY SessionTypeOK, <1>1, <1>2, <1>3, PTL DEF Spec

-----------------------------------------------------------------------------
(***************************************************************************)
(* As it was found. While no signal has arrived, the only jobs are those   *)
(* the main thread waits for (Own), and a daemon that was found and has    *)
(* been stopped has its flag set until the restart (Flagged): so whenever  *)
(* the main thread is back at a prompt, or has waited for its restart, the *)
(* daemon runs or its start failed (Restored), and the screen in between   *)
(* has said so, if it had to. It returns from a prompt only.               *)
(***************************************************************************)
Returned == exited = "returned" => pc.main \in {"menu", "shown"}

Own ==
  /\ job.signals = "none"
  /\ job.main = "stop" => pc.main = "stopping"
  /\ job.main = "start" => pc.main \in {"restarting", "leaving"}

Flagged == found /\ pc.main \in {"stop", "stopping", "working", "resume"} => stopped

Restored ==
  \/ pc.main \in {"menu", "result", "shown"}
  \/ pc.main = "restarting" /\ job.main = "none"

Held ==
  /\ Returned
  /\ pc.signals = "idle" =>
       /\ Own
       /\ Flagged
       /\ found /\ Restored => PutBack
       /\ found /\ pc.main \in {"menu", "shown"} => daemon \/ Told

\* No step breaks it: a thread that is forced out never returns.
LEMMA NextHeld == ASSUME TypeOK, Held, [Next]_vars PROVE Held'
<1> USE DEF TypeOK, MainPc, SignalsPc, WorkerPc, Goto, history, Thread, Alive, Held, Returned, Own,
            Flagged, Restored, PutBack, Told
<1>1. CASE Interrupt
  BY <1>1 DEF Interrupt, RequestQuit, Asked
<1>2. CASE Terminate
  BY <1>2 DEF Terminate, Asked
<1>3. CASE PressQuit
  BY <1>3 DEF PressQuit, RequestQuit, Asked
<1>4. CASE InterruptedPrompt
  BY <1>4 DEF InterruptedPrompt, Asked
<1>5. CASE Start("main", "restart", "restarting")
  BY <1>5 DEF Start
<1>6. CASE Started("main", "restarting", "result")
  BY <1>6 DEF Started
<1>7. CASE \E t \in Thread : ForceQuit(t)
  <2> SUFFICES ASSUME NEW t \in Thread, ForceQuit(t) PROVE Held'
    BY <1>7
  <2>1. CASE OnQuit(t)
    BY <2>1 DEF OnQuit, Swap
  <2>2. CASE Start(t, "putback", "leaving")
    BY <2>2 DEF Start
  <2>3. CASE Started(t, "leaving", "exit")
    BY <2>3 DEF Started
  <2>4. CASE Exit(t)
    BY <2>4 DEF Exit
  <2> QED
    BY <2>1, <2>2, <2>3, <2>4 DEF ForceQuit
<1>8. CASE \E t \in Thread : RunJob(t)
  BY <1>8 DEF RunJob
<1>9. CASE Choose
  BY <1>9 DEF Choose
<1>10. CASE Probe
  BY <1>10 DEF Probe, Work
<1>11. CASE Flag
  BY <1>11 DEF Flag
<1>12. CASE Stop
  BY <1>12 DEF Stop
<1>13. CASE Stopped
  BY <1>13 DEF Stopped, Work
<1>14. CASE Cancel \/ Finish \/ Collect
  <2>1. CASE Cancel
    BY <2>1 DEF Cancel
  <2>2. CASE Finish
    BY <2>2 DEF Finish
  <2>3. CASE Collect
    BY <2>3 DEF Collect
  <2> QED
    BY <1>14, <2>1, <2>2, <2>3
<1>15. CASE Resume
  BY <1>15 DEF Resume, Swap
<1>16. CASE Dismiss \/ Return
  BY <1>16 DEF Dismiss, Return
<1>17. CASE UNCHANGED vars
  BY <1>17 DEF vars
<1>18. CASE Show
  BY <1>18 DEF Show
<1> QED
  BY <1>1, <1>2, <1>3, <1>4, <1>5, <1>6, <1>7, <1>8, <1>9, <1>10, <1>11, <1>12,
     <1>13, <1>14, <1>15, <1>16, <1>17, <1>18
     DEF Next, Main, Signals, User

(***************************************************************************)
(* A process that is not forced out leaves the daemon as it found it, or   *)
(* has tried to, and has said that it could not wherever a screen had to   *)
(* say it: not once the user has asked to leave, nor, after an operation   *)
(* that failed itself, outside its details (wizard/daemon.rs:38-46).       *)
(***************************************************************************)
THEOREM LeavesItAsFound == Spec => []LeavesAsFound
<1>1. Init => Held
  BY DEF Init, Held, Returned, Own, Flagged, Restored, PutBack, Told, Thread
<1>2. TypeOK /\ Held /\ [Next]_vars => Held'
  BY NextHeld
<1>3. Held => LeavesAsFound
  BY DEF Held, Returned, Restored, LeavesAsFound, PutBack, Told
<1> QED
  BY SessionTypeOK, <1>1, <1>2, <1>3, PTL DEF Spec
=============================================================================
