------------------------- MODULE Integration_proofs -------------------------
(***************************************************************************)
(* Proofs about module Integration, for any number of commands, however    *)
(* they overlap, fail and die: what happens to the lock plugin, what the   *)
(* shell runs, the types, and what a command that had the integration to   *)
(* itself has left behind when it says how it ended.                       *)
(*                                                                         *)
(* Each part has its invariant: LockInv, CodeInv, TypeInv and DoneInv.     *)
(***************************************************************************)
EXTENDS Integration, SequenceTheorems, WellFoundedInduction, TLAPS

Step == {"idle"} \union SetupSteps \union UndoSteps \union UninstallSteps

\* The steps of a command that has found a lock plugin of the user's own.
Harmless ==
  {"idle", "render", "look", "claim", "sudo", "lock", "unrow", "unbind", "unwatch",
   "unserve", "unsocket", "unstate", "forget", "package"}

Shape ==
  /\ stock \in Version /\ target \in Content
  /\ stage \in [Process -> Version \union {Nothing}]
  /\ rollback \in [Process -> Content]
  /\ pc \in [Process -> Step]
  /\ clone \in [Process -> Version \union {Nothing}]
  /\ previous \in [Process -> BOOLEAN]

\* What a process has in its hands before, between and after the two renames.
Holds(p) ==
  /\ pc[p] \in {"look", "claim", "stage"} => clone[p] # Nothing
  /\ pc[p] \in {"previous", "aside", "swap"} => stage[p] # Nothing
  /\ pc[p] = "aside" => previous[p]
  /\ pc[p] = "swap" /\ previous[p] => rollback[p] # Nothing
  /\ pc[p] = "putback" => rollback[p] # Nothing

(***************************************************************************)
(* Where Omarchy has a plugin in charge that is not in its place, its      *)
(* directory is under a rollback name that nobody is about to delete.      *)
(***************************************************************************)
Backed ==
  enabled /\ target = Nothing =>
    leftover # {} \/ \E p \in Process : rollback[p] # Nothing /\ pc[p] # "discard"

OwnIsSafe ==
  alone # Nothing /\ found = "own" =>
    target = OwnLock /\ \A p \in Process : pc[p] \in Harmless

LockInv ==
  /\ Shape
  /\ \A p \in Process : Holds(p)
  /\ Backed
  /\ OwnIsSafe

-----------------------------------------------------------------------------
(***************************************************************************)
(* Most steps of a process move it on, or end it, and touch no plugin.     *)
(***************************************************************************)
Plain == Step \ {"look", "claim", "stage", "previous", "aside", "swap", "putback"}

Keeps(p) ==
  /\ clone' \in {clone, [clone EXCEPT ![p] = Nothing]}
  /\ previous' \in {previous, [previous EXCEPT ![p] = FALSE]}

LEMMA OnwardInv ==
  ASSUME LockInv, NEW p \in Process, NEW label \in Plain \ {"discard"},
         pc' = [pc EXCEPT ![p] = label], Keeps(p),
         stage' \in {stage, [stage EXCEPT ![p] = Nothing]},
         UNCHANGED <<stock, target, rollback, leftover, enabled, found, alone>>,
         alone # Nothing /\ found = "own" => label \in Harmless
  PROVE  LockInv'
<1>1. Shape'
  BY DEF LockInv, Shape, Keeps, Plain
<1>2. ASSUME NEW q \in Process PROVE Holds(q)'
  <2>1. CASE q = p
    <3>1. pc'[p] \in Plain
      BY DEF LockInv, Shape
    <3> QED
      BY <2>1, <3>1 DEF Holds, Plain
  <2>2. CASE q # p
    <3>1. /\ pc'[q] = pc[q] /\ clone'[q] = clone[q] /\ previous'[q] = previous[q]
          /\ stage'[q] = stage[q] /\ rollback'[q] = rollback[q]
      BY <2>2 DEF LockInv, Shape, Keeps
    <3> QED
      BY <3>1 DEF LockInv, Holds
  <2> QED
    BY <2>1, <2>2
<1>3. Backed'
  <2>1. \A q \in Process : pc[q] # "discard" => pc'[q] # "discard"
    BY DEF LockInv, Shape
  <2> QED
    BY <2>1 DEF LockInv, Backed
<1>4. OwnIsSafe'
  BY DEF LockInv, Shape, OwnIsSafe
<1> QED
  BY <1>1, <1>2, <1>3, <1>4 DEF LockInv

\* The command is over, whatever it said.
LEMMA EndInv ==
  ASSUME LockInv, NEW p \in Process, NEW said, Ends(p, said),
         stage' \in {stage, [stage EXCEPT ![p] = Nothing]},
         UNCHANGED <<stock, target, rollback, leftover, enabled, found, alone>>
  PROVE  LockInv'
<1>1. "idle" \in Plain \ {"discard"} /\ "idle" \in Harmless
  BY DEF Plain, Step, Harmless
<1>2. pc' = [pc EXCEPT ![p] = "idle"] /\ Keeps(p)
  BY DEF Ends, Forgets, Keeps
<1> QED
  BY <1>1, <1>2, OnwardInv

\* A step from p's place to one that is no more than a step further.
LEMMA GotoInv ==
  ASSUME LockInv, NEW p \in Process, NEW label \in Plain \ {"discard"},
         Moves(p, label), UNCHANGED <<clone, previous>>,
         UNCHANGED <<stock, plugin, found, alone>>,
         label \in Harmless \/ pc[p] \notin Harmless
  PROVE  LockInv'
<1>1. alone # Nothing /\ found = "own" => label \in Harmless
  BY DEF LockInv, OwnIsSafe
<1>2. pc' = [pc EXCEPT ![p] = label] /\ Keeps(p)
  BY DEF Moves, Keeps
<1>3. UNCHANGED <<stock, target, stage, rollback, leftover, enabled, found, alone>>
  BY DEF plugin
<1> QED
  BY <1>1, <1>2, <1>3, OnwardInv

LEMMA CannotInv ==
  ASSUME LockInv, NEW p \in Process, NEW label \in Plain \ {"discard"},
         Cannot(p, label), UNCHANGED <<stock, plugin, found, alone>>,
         label \in Harmless \/ pc[p] \notin Harmless
  PROVE  LockInv'
<1>1. CASE Undoing(p)
  BY <1>1, EndInv DEF Cannot, plugin
<1>2. CASE ~Undoing(p)
  BY <1>2, GotoInv DEF Cannot
<1> QED
  BY <1>1, <1>2

\* A later error: the install is undone, or the command is over.
LEMMA RollBackInv ==
  ASSUME LockInv, NEW p \in Process, RollBack(p), pc[p] \in {"bind", "row", "reload"},
         UNCHANGED <<found, alone>>
  PROVE  LockInv'
<1>1. CASE first[p]
  <2>1. "undo" \in Plain \ {"discard"} /\ pc[p] \notin Harmless
    BY DEF Plain, Step, UndoSteps, SetupSteps, Harmless
  <2> QED
    BY <1>1, <2>1, GotoInv DEF RollBack, Goto, local
<1>2. CASE ~first[p]
  BY <1>2, EndInv DEF RollBack, plugin
<1> QED
  BY <1>1, <1>2

\* What is unchanged by what is left to chance.
LEMMA ChanceKeeps == ASSUME NEW p, Chance(p) PROVE UNCHANGED <<found, alone>>
  BY DEF Chance

LEMMA RefuseInv ==
  ASSUME LockInv, NEW p \in Process, Refuse(p), UNCHANGED <<found, alone>>
  PROVE  LockInv'
  BY EndInv DEF Refuse, LockInv, Shape

LEMMA FailInv ==
  ASSUME LockInv, NEW p \in Process, Fail(p), UNCHANGED <<found, alone>>
  PROVE  LockInv'
  BY EndInv DEF Fail, plugin

LEMMA MishapInv ==
  ASSUME LockInv, NEW p \in Process, Mishap(p) \/ Warn(p) \/ Die(p)
  PROVE  LockInv'
<1>1. UNCHANGED <<found, alone>>
  BY ChanceKeeps DEF Mishap, Warn, Die
<1>2. CASE Mishap(p)
  BY <1>1, <1>2, RefuseInv, FailInv, RollBackInv DEF Mishap
<1>3. CASE Warn(p)
  <2>1. "units" \in Plain \ {"discard"}
    BY DEF Plain, Step, SetupSteps
  <2>2. CASE pc[p] \in {"restart", "stamp"} /\ Goto(p, "units")
    BY <1>1, <1>3, <2>1, <2>2, GotoInv DEF Warn, Goto, local, Harmless
  <2>3. CASE Ends(p, "ok")
    BY <1>1, <1>3, <2>3, EndInv DEF Warn, plugin
  <2> QED
    BY <1>3, <2>2, <2>3 DEF Warn
<1>4. CASE Die(p)
  BY <1>1, <1>4, EndInv DEF Die, plugin
<1> QED
  BY <1>2, <1>3, <1>4

\* From discovery on a setup touches the plugin no more.
LEMMA LaterInv ==
  ASSUME LockInv, NEW p \in Process,
         \/ Discover(p) \/ Bind(p) \/ AddRow(p) \/ Reload(p) \/ Code(p) \/ Restart(p)
         \/ Stamp(p) \/ EnableUnits(p) \/ Watch(p) \/ Serve(p)
  PROVE  LockInv'
<1>1. {"enable", "row", "reload", "code", "units", "restart", "stamp", "watch", "serve"}
        \subseteq Plain \ {"discard"}
  BY DEF Plain, Step, SetupSteps
<1>2. CASE Discover(p)
  <2>1. CASE target = Nothing
    BY <1>2, <2>1, FailInv DEF Discover, history
  <2>2. CASE target # Nothing
    BY <1>1, <1>2, <2>2, GotoInv DEF Discover, Goto, local, history, Harmless
  <2> QED
    BY <2>1, <2>2
<1>3. CASE Bind(p)
  <2>1. CASE binding \notin {<<>>, Block}
    BY <1>3, <2>1, RollBackInv DEF Bind, history
  <2>2. CASE binding \in {<<>>, Block}
    BY <1>1, <1>3, <2>2, GotoInv DEF Bind, Goto, local, history, Harmless
  <2> QED
    BY <2>1, <2>2
<1>4. CASE AddRow(p)
  <2>1. CASE Text!Malformed(menu) \/ Text!Unclosed(menu)
    BY <1>4, <2>1, RollBackInv DEF AddRow, history
  <2>2. CASE ~(Text!Malformed(menu) \/ Text!Unclosed(menu))
    BY <1>1, <1>4, <2>2, GotoInv DEF AddRow, Goto, local, history, Harmless
  <2> QED
    BY <2>1, <2>2
<1>5. CASE Serve(p)
  BY <1>5, EndInv DEF Serve, plugin, history
<1>6. CASE Reload(p) \/ Code(p) \/ Restart(p) \/ Stamp(p) \/ EnableUnits(p) \/ Watch(p)
  <2>1. /\ UNCHANGED <<stock, plugin, history, clone, previous>>
        /\ pc[p] \notin Harmless
        /\ \E label \in {"code", "units", "restart", "stamp", "watch", "serve"} : Moves(p, label)
    BY <1>6 DEF Reload, Code, Restart, Stamp, EnableUnits, Watch, Goto, local, Harmless
  <2> QED
    BY <1>1, <2>1, GotoInv DEF history
<1> QED
  BY <1>2, <1>3, <1>4, <1>5, <1>6

-----------------------------------------------------------------------------
(***************************************************************************)
(* The undoing and uninstall.                                              *)
(***************************************************************************)

\* Where the plugin is the user's own, no command is about to remove it.
LEMMA OwnOrNot == ASSUME Shape, IsGenerated PROVE target # OwnLock
  BY ContentAssumption DEF IsGenerated

LEMMA RemoveLockInv ==
  ASSUME LockInv, NEW p \in Process, RemoveLock(p) \/ RemoveLockFails(p)
  PROVE  LockInv'
<1>1. pc[p] \in {"undoLock", "remove"}
  BY DEF RemoveLock, RemoveLockFails
<1>2. ~(alone # Nothing /\ found = "own")
  BY <1>1 DEF LockInv, OwnIsSafe, Harmless
<1>3. /\ \E label \in {"undoBind", "unrow", "idle"} : pc' = [pc EXCEPT ![p] = label]
      /\ Keeps(p)
      /\ target' \in {target, Nothing} /\ enabled' \in {enabled, FALSE}
      /\ (target' # target => enabled' = FALSE)
      /\ UNCHANGED <<stock, stage, rollback, leftover, found, alone>>
  <2>1. CASE RemoveLock(p)
    BY <2>1 DEF RemoveLock, Goto, Moves, local, history, Keeps
  <2>2. CASE RemoveLockFails(p)
    BY <2>2, ChanceKeeps
    DEF RemoveLockFails, Cannot, Ends, Moves, Forgets, history, Keeps
  <2> QED
    BY <2>1, <2>2
<1>4. Shape'
  <2>1. {"undoBind", "unrow", "idle"} \subseteq Step
    BY DEF Step, UndoSteps, UninstallSteps
  <2> QED
    BY <1>3, <2>1 DEF LockInv, Shape, Keeps, Content
<1>5. ASSUME NEW q \in Process PROVE Holds(q)'
  BY <1>3 DEF LockInv, Shape, Holds, Keeps
<1>6. Backed'
  <2>1. \A q \in Process : pc[q] # "discard" => pc'[q] # "discard"
    BY <1>3 DEF LockInv, Shape
  <2> QED
    BY <1>3, <2>1 DEF LockInv, Backed
<1> QED
  BY <1>2, <1>3, <1>4, <1>5, <1>6 DEF LockInv, OwnIsSafe

LEMMA UninstallInv ==
  ASSUME LockInv, NEW p \in Process, Uninstall(p)
  PROVE  LockInv'
<1>1. {"lock", "unrow", "unbind", "unwatch", "unserve", "unsocket", "unstate", "forget",
       "package", "undoBind", "undoRow", "undoLock", "undoReload", "remove"}
        \subseteq Plain \ {"discard"}
  BY DEF Plain, Step, UndoSteps, UninstallSteps
<1>2. {"lock", "unrow", "unbind", "unwatch", "unserve", "unsocket", "unstate", "forget",
       "package"} \subseteq Harmless
  BY DEF Harmless
<1>3. UndoSteps \cap Harmless = {}
  BY DEF UndoSteps, Harmless
<1>4. CASE LookForLock(p)
  <2>1. /\ UNCHANGED <<stock, plugin, history, clone, previous>>
        /\ \/ Moves(p, "unrow")
           \/ Moves(p, "remove") /\ IsGenerated
           \/ Moves(p, "undoLock") /\ Undoing(p)
           \/ Moves(p, "undoBind") /\ Undoing(p)
    BY <1>4 DEF LookForLock, Goto, local
  <2>2. CASE Moves(p, "remove") /\ IsGenerated
    <3>1. ~(alone # Nothing /\ found = "own")
      BY <2>2, OwnOrNot DEF LockInv, OwnIsSafe
    <3>2. pc' = [pc EXCEPT ![p] = "remove"] /\ Keeps(p)
      BY <2>1, <2>2 DEF Moves, Keeps
    <3> QED
      BY <1>1, <2>1, <3>1, <3>2, OnwardInv DEF plugin, history
  <2> QED
    BY <1>1, <1>2, <1>3, <2>1, <2>2, GotoInv DEF history, Undoing
<1>5. CASE RemoveLock(p) \/ RemoveLockFails(p)
  BY <1>5, RemoveLockInv
<1>6. CASE RemoveRow(p)
  <2>1. CASE Text!Malformed(menu)
    BY <1>1, <1>2, <1>6, <2>1, CannotInv DEF RemoveRow, history
  <2>2. CASE ~Text!Malformed(menu)
    BY <1>1, <1>2, <1>3, <1>6, <2>2, GotoInv
    DEF RemoveRow, Goto, local, history, Undoing
  <2> QED
    BY <2>1, <2>2
<1>7. CASE Unbind(p)
  <2>1. CASE Reversed(binding)
    BY <1>1, <1>2, <1>7, <2>1, CannotInv DEF Unbind, history
  <2>2. CASE ~Reversed(binding)
    BY <1>1, <1>2, <1>3, <1>7, <2>2, GotoInv DEF Unbind, Goto, local, history, Undoing
  <2> QED
    BY <2>1, <2>2
<1>8. CASE Undone(p) \/ RemovePackage(p)
  BY <1>8, EndInv DEF Undone, RemovePackage, plugin, history
<1>9. CASE Sudo(p) \/ StopUnits(p) \/ RemoveSocket(p) \/ RemoveState(p) \/ Forget(p)
  <2>1. /\ UNCHANGED <<stock, plugin, history, clone, previous>>
        /\ \E label \in {"lock", "unserve", "unsocket", "unstate", "forget", "package"} :
             Moves(p, label)
    BY <1>9 DEF Sudo, StopUnits, RemoveSocket, RemoveState, Forget, Goto, local
  <2> QED
    BY <1>1, <1>2, <2>1, GotoInv DEF history
<1>10. CASE CannotByChance(p)
  <2>1. UNCHANGED <<stock, plugin, found, alone>>
    BY <1>10, ChanceKeeps DEF CannotByChance
  <2>2. CASE Ends(p, "kept")
    BY <2>1, <2>2, EndInv DEF plugin
  <2>3. CASE pc[p] \in UndoSteps /\ Cannot(p, pc[p])
    BY <2>1, <2>3, EndInv DEF Cannot, Undoing, plugin
  <2>4. CASE \E label \in {"unbind", "unwatch", "unsocket", "unstate", "forget", "package"} :
               Cannot(p, label)
    BY <1>1, <1>2, <2>1, <2>4, CannotInv
  <2> QED
    BY <1>10, <2>2, <2>3, <2>4 DEF CannotByChance, UndoSteps
<1> QED
  BY <1>4, <1>5, <1>6, <1>7, <1>8, <1>9, <1>10 DEF Uninstall

-----------------------------------------------------------------------------
(***************************************************************************)
(* setup as far as the swap.                                               *)
(***************************************************************************)
LEMMA EarlyInv ==
  ASSUME LockInv, NEW p \in Process, Render(p) \/ Look(p) \/ Claim(p)
  PROVE  LockInv'
<1>1. UNCHANGED <<found, alone>>
  BY DEF Render, Look, Claim, history
<1>2. CASE Refuse(p)
  BY <1>1, <1>2, RefuseInv
<1>3. CASE ~Refuse(p)
  <2>1. /\ UNCHANGED <<stock, plugin, previous>>
        /\ \/ pc' = [pc EXCEPT ![p] = "look"] /\ clone' = [clone EXCEPT ![p] = stock]
           \/ pc[p] = "look" /\ pc' = [pc EXCEPT ![p] = "claim"] /\ clone' = clone
           \/ /\ pc[p] = "claim" /\ pc' = [pc EXCEPT ![p] = "stage"] /\ clone' = clone
              /\ target # OwnLock
    BY <1>3 DEF Render, Look, Claim, Moves, Goto, local
  <2>2. stock # Nothing
    BY ContentAssumption DEF LockInv, Shape
  <2>3. Shape'
    BY <2>1 DEF LockInv, Shape, plugin, Step, SetupSteps
  <2>4. ASSUME NEW q \in Process PROVE Holds(q)'
    BY <2>1, <2>2 DEF LockInv, Shape, Holds, plugin
  <2>5. Backed'
    <3>1. \A q \in Process : pc[q] # "discard" => pc'[q] # "discard"
      BY <2>1 DEF LockInv, Shape
    <3> QED
      BY <2>1, <3>1 DEF LockInv, Backed, plugin
  <2>6. OwnIsSafe'
    BY <1>1, <2>1 DEF LockInv, Shape, OwnIsSafe, plugin, Harmless
  <2> QED
    BY <2>3, <2>4, <2>5, <2>6 DEF LockInv
<1> QED
  BY <1>2, <1>3

LEMMA StageInv ==
  ASSUME LockInv, NEW p \in Process, Stage(p) \/ Previous(p)
  PROVE  LockInv'
<1>1. UNCHANGED <<stock, target, rollback, leftover, enabled, found, alone, clone>>
  BY DEF Stage, Previous, Goto, local, history, plugin
<1>2. ~(alone # Nothing /\ found = "own")
  BY DEF Stage, Previous, LockInv, OwnIsSafe, Harmless
<1>3. CASE Stage(p)
  <2> DEFINE made == [files |-> clone[p].files, copied |-> stock.copied]
  <2>1. made \in Version /\ made # Nothing
    <3>1. clone[p] \in Version /\ stock \in Version
      BY <1>3 DEF Stage, LockInv, Shape, Holds
    <3> QED
      BY <3>1, ContentAssumption DEF Version
  <2>2. /\ pc[p] = "stage" /\ pc' = [pc EXCEPT ![p] = "previous"]
        /\ stage' = [stage EXCEPT ![p] = made] /\ previous' = previous
    BY <1>3 DEF Stage, Goto, Moves, local
  <2> HIDE DEF made
  <2>3. Shape'
    BY <1>1, <2>1, <2>2 DEF LockInv, Shape, Step, SetupSteps
  <2>4. ASSUME NEW q \in Process PROVE Holds(q)'
    BY <1>1, <2>1, <2>2 DEF LockInv, Shape, Holds
  <2>5. Backed'
    BY <1>1, <2>2 DEF LockInv, Shape, Backed
  <2> QED
    BY <1>1, <1>2, <2>3, <2>4, <2>5 DEF LockInv, OwnIsSafe
<1>4. CASE Previous(p)
  <2>1. /\ pc[p] = "previous" /\ stage' = stage
        /\ \/ /\ pc' = [pc EXCEPT ![p] = "aside"] /\ target # Nothing
              /\ previous' = [previous EXCEPT ![p] = TRUE]
           \/ /\ pc' = [pc EXCEPT ![p] = "swap"] /\ target = Nothing
              /\ previous' = [previous EXCEPT ![p] = FALSE]
    BY <1>4 DEF Previous, Moves, plugin
  <2>2. Shape'
    BY <1>1, <2>1 DEF LockInv, Shape, Step, SetupSteps
  <2>3. ASSUME NEW q \in Process PROVE Holds(q)'
    BY <1>1, <2>1 DEF LockInv, Shape, Holds
  <2>4. Backed'
    BY <1>1, <2>1 DEF LockInv, Shape, Backed
  <2> QED
    BY <1>1, <1>2, <2>2, <2>3, <2>4 DEF LockInv, OwnIsSafe
<1> QED
  BY <1>3, <1>4

\* The previous plugin is put aside before it is missed.
LEMMA AsideInv ==
  ASSUME LockInv, NEW p \in Process, Aside(p)
  PROVE  LockInv'
<1>1. CASE target = Nothing
  BY <1>1, RefuseInv DEF Aside, history
<1>2. CASE target # Nothing
  <2>1. /\ pc[p] = "aside" /\ pc' = [pc EXCEPT ![p] = "swap"]
        /\ rollback' = [rollback EXCEPT ![p] = target] /\ target' = Nothing
        /\ UNCHANGED <<stock, stage, clone, previous, found, alone>>
    BY <1>2 DEF Aside, Goto, Moves, local, history
  <2>2. ~(alone # Nothing /\ found = "own")
    BY <2>1 DEF LockInv, OwnIsSafe, Harmless
  <2>3. Shape'
    BY <2>1 DEF LockInv, Shape, Step, SetupSteps, Content
  <2>4. ASSUME NEW q \in Process PROVE Holds(q)'
    BY <1>2, <2>1 DEF LockInv, Shape, Holds
  <2>5. rollback'[p] # Nothing /\ pc'[p] # "discard"
    BY <1>2, <2>1 DEF LockInv, Shape
  <2> QED
    BY <2>1, <2>2, <2>3, <2>4, <2>5 DEF LockInv, OwnIsSafe, Backed
<1> QED
  BY <1>1, <1>2

LEMMA SwapInv ==
  ASSUME LockInv, NEW p \in Process, Swap(p) \/ SwapFails(p) \/ Discard(p)
  PROVE  LockInv'
<1>1. pc[p] \in {"swap", "discard"}
  BY DEF Swap, SwapFails, Discard
<1>2. ~(alone # Nothing /\ found = "own")
  BY <1>1 DEF LockInv, OwnIsSafe, Harmless
<1>3. CASE Swap(p)
  <2>1. /\ pc[p] = "swap" /\ target' = stage[p] /\ stage' = [stage EXCEPT ![p] = Nothing]
        /\ \E label \in {"discard", "discover"} : pc' = [pc EXCEPT ![p] = label]
        /\ UNCHANGED <<stock, rollback, clone, previous, found, alone>>
    BY <1>3 DEF Swap, Goto, Moves, local, history
  <2>2. target' # Nothing
    BY <2>1 DEF LockInv, Holds
  <2>3. Shape'
    BY <2>1 DEF LockInv, Shape, Step, SetupSteps, Content
  <2>4. ASSUME NEW q \in Process PROVE Holds(q)'
    BY <2>1 DEF LockInv, Shape, Holds
  <2> QED
    BY <1>2, <2>1, <2>2, <2>3, <2>4 DEF LockInv, OwnIsSafe, Backed
<1>4. CASE SwapFails(p)
  <2>1. UNCHANGED <<stock, target, rollback, leftover, enabled, found, alone>>
    BY <1>4, ChanceKeeps DEF SwapFails, history
  <2>2. CASE ~previous[p]
    BY <1>4, <2>1, <2>2, EndInv DEF SwapFails
  <2>3. CASE previous[p]
    <3>1. /\ pc[p] = "swap" /\ pc' = [pc EXCEPT ![p] = "putback"]
          /\ stage' = [stage EXCEPT ![p] = Nothing] /\ UNCHANGED <<clone, previous>>
      BY <1>4, <2>3 DEF SwapFails, Goto, Moves, local
    <3>2. Shape'
      BY <2>1, <3>1 DEF LockInv, Shape, Step, SetupSteps
    <3>3. ASSUME NEW q \in Process PROVE Holds(q)'
      BY <2>1, <2>3, <3>1 DEF LockInv, Shape, Holds
    <3>4. Backed'
      BY <2>1, <3>1 DEF LockInv, Shape, Backed
    <3> QED
      BY <1>2, <2>1, <3>2, <3>3, <3>4 DEF LockInv, OwnIsSafe
  <2> QED
    BY <2>2, <2>3
<1>5. CASE Discard(p)
  <2>1. /\ pc[p] = "discard" /\ pc' = [pc EXCEPT ![p] = "discover"]
        /\ rollback' = [rollback EXCEPT ![p] = Nothing]
        /\ UNCHANGED <<stock, target, stage, leftover, enabled, clone, previous, found, alone>>
    BY <1>5 DEF Discard, Goto, Moves, local, history
  <2>2. Shape'
    BY <2>1 DEF LockInv, Shape, Step, SetupSteps, Content
  <2>3. ASSUME NEW q \in Process PROVE Holds(q)'
    BY <2>1 DEF LockInv, Shape, Holds
  <2>4. Backed'
    <3>1. \A q \in Process : pc[q] # "discard" =>
            q # p /\ rollback'[q] = rollback[q] /\ pc'[q] = pc[q]
      BY <2>1 DEF LockInv, Shape
    <3> QED
      BY <2>1, <3>1 DEF LockInv, Backed
  <2> QED
    BY <1>2, <2>1, <2>2, <2>3, <2>4 DEF LockInv, OwnIsSafe
<1> QED
  BY <1>3, <1>4, <1>5

\* What is put back was there, and is in its place again.
LEMMA PutBackInv ==
  ASSUME LockInv, NEW p \in Process, PutBack(p)
  PROVE  LockInv'
<1>1. CASE target # Nothing
  BY <1>1, FailInv DEF PutBack, history
<1>2. CASE target = Nothing
  <2>1. /\ pc[p] = "putback" /\ pc' = [pc EXCEPT ![p] = "idle"] /\ Keeps(p)
        /\ target' = rollback[p] /\ rollback' = [rollback EXCEPT ![p] = Nothing]
        /\ UNCHANGED <<stock, stage, found, alone>>
    BY <1>2 DEF PutBack, Ends, Forgets, Keeps, history
  <2>2. ~(alone # Nothing /\ found = "own")
    BY <2>1 DEF LockInv, OwnIsSafe, Harmless
  <2>3. target' # Nothing
    BY <2>1 DEF LockInv, Holds
  <2>4. Shape'
    BY <2>1 DEF LockInv, Shape, Keeps, Step, Content
  <2>5. ASSUME NEW q \in Process PROVE Holds(q)'
    BY <2>1 DEF LockInv, Shape, Holds, Keeps
  <2> QED
    BY <2>1, <2>2, <2>3, <2>4, <2>5 DEF LockInv, OwnIsSafe, Backed
<1> QED
  BY <1>1, <1>2

\* Only a plugin that is there is put in charge.
LEMMA EnableInv ==
  ASSUME LockInv, NEW p \in Process, Enable(p)
  PROVE  LockInv'
<1>1. CASE target = Nothing
  BY <1>1, FailInv DEF Enable, history
<1>2. CASE target # Nothing
  <2>1. /\ pc[p] = "enable" /\ pc' = [pc EXCEPT ![p] = "bind"]
        /\ UNCHANGED <<stock, target, stage, rollback, clone, previous, found, alone>>
    BY <1>2 DEF Enable, Goto, Moves, local, history
  <2>2. ~(alone # Nothing /\ found = "own")
    BY <2>1 DEF LockInv, OwnIsSafe, Harmless
  <2>3. Shape'
    BY <2>1 DEF LockInv, Shape, Step, SetupSteps
  <2>4. ASSUME NEW q \in Process PROVE Holds(q)'
    BY <2>1 DEF LockInv, Shape, Holds
  <2> QED
    BY <1>2, <2>1, <2>2, <2>3, <2>4 DEF LockInv, OwnIsSafe, Backed
<1> QED
  BY <1>1, <1>2

-----------------------------------------------------------------------------
(***************************************************************************)
(* A command begins, with the machine as it is.                            *)
(***************************************************************************)
LEMMA BeginInv ==
  ASSUME LockInv, NEW p \in Process, Begin(p)
  PROVE  LockInv'
<1>1. /\ \E label \in {"render", "sudo"} : pc' = [pc EXCEPT ![p] = label]
      /\ pc[p] = "idle"
      /\ leftover' = leftover \union ({rollback[p]} \ {Nothing})
      /\ rollback' = [rollback EXCEPT ![p] = Nothing]
      /\ stage' = [stage EXCEPT ![p] = Nothing]
      /\ UNCHANGED <<stock, target, enabled, clone, previous>>
  BY DEF Begin, local, Busy
<1>2. Shape'
  BY <1>1 DEF LockInv, Shape, Step, SetupSteps, UninstallSteps, Content
<1>3. ASSUME NEW q \in Process PROVE Holds(q)'
  BY <1>1 DEF LockInv, Shape, Holds
<1>4. Backed'
  <2>1. SUFFICES ASSUME enabled, target = Nothing, leftover' = {}
        PROVE  \E q \in Process : rollback'[q] # Nothing /\ pc'[q] # "discard"
    BY <1>1 DEF Backed
  <2>2. leftover = {} /\ rollback[p] = Nothing
    BY <1>1, <2>1
  <2>3. PICK q \in Process : rollback[q] # Nothing /\ pc[q] # "discard"
    BY <2>1, <2>2 DEF LockInv, Backed
  <2>4. q # p /\ rollback'[q] = rollback[q] /\ pc'[q] = pc[q]
    BY <1>1, <2>2, <2>3 DEF LockInv, Shape
  <2> QED
    BY <2>3, <2>4
<1>5. OwnIsSafe'
  <2>1. SUFFICES ASSUME found' = "own"
        PROVE  target' = OwnLock /\ \A q \in Process : pc'[q] \in Harmless
    BY DEF OwnIsSafe
  <2>2. Idle /\ Machine = "own"
    BY <2>1 DEF Begin
  <2>3. target = OwnLock
    BY <2>2 DEF Machine
  <2>4. \A q \in Process : pc[q] = "idle"
    BY <2>2 DEF Idle, Busy
  <2> QED
    BY <1>1, <2>3, <2>4 DEF LockInv, Shape, Harmless
<1> QED
  BY <1>2, <1>3, <1>4, <1>5 DEF LockInv

\* What happens elsewhere: nobody's steps or directories are touched.
LEMMA ElsewhereInv ==
  ASSUME LockInv, UNCHANGED <<pc, local, stage, rollback, leftover>>,
         stock' \in Version, target' \in Content,
         \/ UNCHANGED <<target, enabled, found, alone>>
         \/ (enabled' => target' # Nothing) /\ alone' = Nothing
  PROVE  LockInv'
<1>1. Shape' /\ \A q \in Process : Holds(q)'
  BY DEF LockInv, Shape, Holds, local
<1> QED
  BY <1>1 DEF LockInv, Backed, OwnIsSafe

LEMMA MachineInv ==
  ASSUME LockInv,
         \/ Upgrade \/ CloneLock \/ DropLock \/ RestartShell \/ Enroll \/ Trigger \/ Reinstall
  PROVE  LockInv'
<1>1. Nothing \in Content /\ OwnLock \in Content /\ OwnLock # Nothing
  BY ContentAssumption DEF Content
<1>2. stock \in Version /\ target \in Content
  BY DEF LockInv, Shape
<1>3. CASE Upgrade
  <2>1. stock' \in Version
    <3>1. PICK part \in {"files", "copied"} :
            stock[part] < MaxUpgrade /\ stock' = [stock EXCEPT ![part] = @ + 1]
      BY <1>3 DEF Upgrade
    <3> QED
      BY <1>2, <3>1, BoundAssumption DEF Version
  <2> QED
    BY <1>2, <1>3, <2>1, ElsewhereInv DEF Upgrade, Elsewhere, plugin
<1>4. CASE CloneLock \/ DropLock
  BY <1>1, <1>2, <1>4, ElsewhereInv DEF CloneLock, DropLock, Aloof
<1>5. CASE RestartShell \/ Enroll \/ Trigger \/ Reinstall
  BY <1>2, <1>5, ElsewhereInv
  DEF RestartShell, Enroll, Trigger, Reinstall, Elsewhere, plugin, history
<1> QED
  BY <1>3, <1>4, <1>5

LEMMA NextInv == ASSUME LockInv, [Next]_vars PROVE LockInv'
<1>1. ASSUME NEW p \in Process, Setup(p) PROVE LockInv'
  <2>1. CASE \/ Discover(p) \/ Bind(p) \/ AddRow(p) \/ Reload(p) \/ Code(p) \/ Restart(p)
             \/ Stamp(p) \/ EnableUnits(p) \/ Watch(p) \/ Serve(p)
    BY <2>1, LaterInv
  <2>2. CASE Render(p) \/ Look(p) \/ Claim(p) \/ Stage(p) \/ Previous(p) \/ Aside(p)
    BY <2>2, EarlyInv, StageInv, AsideInv
  <2>3. CASE Swap(p) \/ SwapFails(p) \/ Discard(p) \/ PutBack(p) \/ Enable(p)
    BY <2>3, SwapInv, PutBackInv, EnableInv
  <2>4. CASE Mishap(p) \/ Warn(p)
    BY <2>4, MishapInv
  <2> QED
    BY <1>1, <2>1, <2>2, <2>3, <2>4 DEF Setup
<1>2. ASSUME NEW p \in Process, Begin(p) \/ Uninstall(p) \/ Die(p) PROVE LockInv'
  BY <1>2, BeginInv, UninstallInv, MishapInv
<1>3. CASE UNCHANGED vars
  BY <1>3 DEF vars, plugin, local, history, LockInv, Shape, Holds, Backed, OwnIsSafe
<1> QED
  BY <1>1, <1>2, <1>3, MachineInv DEF Next

LEMMA InitInv == ASSUME Init PROVE LockInv
<1>1. Shape
  <2>1. stock \in Version
    BY BoundAssumption DEF Init, Version
  <2> QED
    BY <2>1 DEF Init, Shape, Content, Step
<1>2. \A p \in Process : Holds(p)
  BY DEF Init, Holds
<1> QED
  BY <1>1, <1>2, ContentAssumption DEF Init, LockInv, Backed, OwnIsSafe

(***************************************************************************)
(* However many setups and uninstalls overlap, fail and die: while Omarchy *)
(* has the plugin in charge of locking there is one in its place, or the   *)
(* one that was is still on disk under a rollback name; and a command that *)
(* finds a lock plugin of the user's own leaves it (lock.rs:415-434,       *)
(* 436-487, 578-583). A rollback directory is only deleted by a process    *)
(* whose own plugin was in place after it was made, and whoever takes that *)
(* away makes another.                                                     *)
(***************************************************************************)
THEOREM LockAlwaysStays == Spec => []LockStays
<1>1. LockInv => LockStays
  BY DEF LockInv, Backed, OwnIsSafe, LockStays
<1> QED
  BY <1>1, InitInv, NextInv, PTL DEF Spec

-----------------------------------------------------------------------------
(***************************************************************************)
(* What the shell runs.  Versions only grow: what a setup has rendered is  *)
(* at least as new as whatever was in place, compiled or stamped when it   *)
(* began, and the stamp is never ahead of what the shell has compiled.     *)
(***************************************************************************)
Known(content, v) == content \in Version => content.files <= v

Newest ==
  /\ Known(target, stock.files) /\ Known(compiled, stock.files)
  /\ \A p \in Process : /\ Known(clone[p], stock.files) /\ Known(stage[p], stock.files)
                        /\ Known(rollback[p], stock.files)

\* The code under this id is ours, and no older than what the stamp says.
NotBefore(content) == content # OwnLock /\ (content \in Version => stamp <= content.files)

Stamped ==
  stamp # Nothing =>
    stamp \in Nat /\ stamp <= stock.files /\ NotBefore(target) /\ NotBefore(compiled)

Rendered == SetupSteps \ {"render"}
InCharge == {"bind", "row", "reload", "code", "restart", "stamp", "units", "watch", "serve"}
InPlace == {"discard", "discover", "enable"} \union InCharge

\* A setup that nobody came between, step by step.
Order(p) ==
  /\ pc[p] \in Rendered =>
       /\ clone[p] \in Version
       /\ Known(target, clone[p].files) /\ Known(compiled, clone[p].files)
       /\ Known(rollback[p], clone[p].files)
       /\ stamp # Nothing => stamp <= clone[p].files
  /\ pc[p] \in {"previous", "aside", "swap"} =>
       stage[p] \in Version /\ stage[p].files = clone[p].files
  /\ pc[p] = "swap" /\ previous[p] /\ stamp # Nothing => NotBefore(rollback[p])
  /\ pc[p] = "putback" /\ stamp # Nothing => NotBefore(rollback[p])
  /\ pc[p] \in InPlace => target \in Version /\ target.files = clone[p].files
  /\ pc[p] \in InCharge => enabled /\ compiled # Nothing
  /\ pc[p] = "stamp" => compiled = target
  /\ pc[p] \in {"units", "watch", "serve"} /\ clean /\ alone = p =>
       compiled \in Version /\ compiled.files = target.files

Sole == \A p, q \in Process : pc[p] # "idle" /\ pc[q] # "idle" => p = q

Installed ==
  Done /\ clean /\ result = "ok" =>
    /\ enabled /\ target \in Version
    /\ compiled \in Version /\ compiled.files = target.files

CodeInv ==
  /\ compiled \in Content
  /\ Newest
  /\ alone # Nothing => \A q \in Process : q # alone => pc[q] = "idle"
  /\ orderly => Sole /\ Stamped /\ Installed /\ \A p \in Process : Order(p)

\* An idle process, and one that is not in a setup, has nothing to keep.
LEMMA OrderElsewhere ==
  ASSUME NEW p, pc[p] \notin Rendered PROVE Order(p)
  BY DEF Order, Rendered, SetupSteps, InPlace, InCharge

(***************************************************************************)
(* A step of one process that leaves what the shell has, and the plugin.   *)
(***************************************************************************)
Quiet(p) ==
  /\ clone' \in {clone, [clone EXCEPT ![p] = Nothing]}
  /\ stage' \in {stage, [stage EXCEPT ![p] = Nothing]}
  /\ UNCHANGED <<stock, target, rollback, enabled, compiled, stamp, alone, orderly>>
  /\ clean' => clean

LEMMA QuietInv ==
  ASSUME LockInv, CodeInv, NEW p \in Process, NEW label, pc[p] # "idle",
         pc' = [pc EXCEPT ![p] = label], Quiet(p),
         orderly => Order(p)' /\ Installed'
  PROVE  CodeInv'
<1>1. Shape
  BY DEF LockInv
<1>2. Newest'
  <2>1. ASSUME NEW q \in Process
        PROVE  Known(clone'[q], stock.files) /\ Known(stage'[q], stock.files)
    <3>1. /\ clone'[q] = clone[q] \/ clone'[q] = Nothing
          /\ stage'[q] = stage[q] \/ stage'[q] = Nothing
      BY <1>1 DEF Quiet, Shape
    <3> QED
      BY <3>1, ContentAssumption DEF CodeInv, Newest, Known
  <2> QED
    BY <2>1 DEF CodeInv, Newest, Quiet, Known
<1>3. alone' # Nothing => \A q \in Process : q # alone' => pc'[q] = "idle"
  BY <1>1 DEF CodeInv, Shape, Quiet
<1>4. SUFFICES ASSUME orderly
      PROVE  Sole' /\ Stamped' /\ \A q \in Process : Order(q)'
  BY <1>2, <1>3 DEF CodeInv, Quiet
<1>5. Sole'
  BY <1>1, <1>4 DEF CodeInv, Shape, Sole
<1>6. Stamped'
  BY <1>4 DEF CodeInv, Stamped, NotBefore, Quiet
<1>7. ASSUME NEW q \in Process PROVE Order(q)'
  <2>1. CASE q = p
    BY <1>4, <2>1 DEF Quiet
  <2>2. CASE q # p
    <3>1. pc'[q] = "idle"
      BY <1>1, <1>4, <2>2 DEF CodeInv, Shape, Sole
    <3> QED
      BY <3>1 DEF Order, Rendered, SetupSteps, InPlace, InCharge
  <2> QED
    BY <2>1, <2>2
<1> QED
  BY <1>5, <1>6, <1>7

\* A command's end proves nothing unless it is that of a setup gone well.
LEMMA NotInstalled ==
  ASSUME LockInv, CodeInv, NEW p \in Process, NEW label, pc[p] # "idle",
         pc' = [pc EXCEPT ![p] = label], UNCHANGED alone,
         label # "idle" \/ (p = alone => result' # "ok")
  PROVE  Installed'
<1>1. SUFFICES ASSUME alone # Nothing, pc'[alone] = "idle", result' = "ok" PROVE FALSE
  BY DEF Installed, Done, Busy
<1>2. p = alone
  BY <1>1 DEF CodeInv
<1>3. label = "idle"
  BY <1>1, <1>2 DEF LockInv, Shape
<1> QED
  BY <1>1, <1>2, <1>3

\* A step out of the setup, or of an uninstall.
LEMMA LeaveInv ==
  ASSUME LockInv, CodeInv, NEW p \in Process, NEW label \in Step \ Rendered, pc[p] # "idle",
         pc' = [pc EXCEPT ![p] = label], Quiet(p),
         label # "idle" \/ (p = alone => result' # "ok")
  PROVE  CodeInv'
<1>1. Order(p)'
  <2>1. pc'[p] \notin Rendered
    BY DEF LockInv, Shape
  <2> QED
    BY <2>1 DEF Order, Rendered, SetupSteps, InPlace, InCharge
<1>2. Installed'
  BY NotInstalled DEF Quiet
<1> QED
  BY <1>1, <1>2, QuietInv

LEMMA EndsInv ==
  ASSUME LockInv, CodeInv, NEW p \in Process, pc[p] # "idle",
         NEW said \in {"refused", "failed", "undone", "stuck", "removed", "kept", "died"},
         Ends(p, said), stage' \in {stage, [stage EXCEPT ![p] = Nothing]}, clean' => clean,
         UNCHANGED <<stock, target, rollback, enabled, compiled, stamp, alone, orderly>>
  PROVE  CodeInv'
<1>1. "idle" \in Step \ Rendered
  BY DEF Step, Rendered, SetupSteps
<1>2. pc' = [pc EXCEPT ![p] = "idle"] /\ Quiet(p)
  BY DEF Ends, Forgets, Quiet
<1>3. p = alone => result' # "ok"
  BY DEF Ends
<1> QED
  BY <1>1, <1>2, <1>3, LeaveInv

\* The same, as the actions say it.
LEMMA RefuseCode ==
  ASSUME LockInv, CodeInv, NEW p \in Process, pc[p] # "idle", Refuse(p),
         UNCHANGED <<alone, orderly>>, clean' => clean
  PROVE  CodeInv'
  BY EndsInv DEF Refuse, shell

LEMMA FailCode ==
  ASSUME LockInv, CodeInv, NEW p \in Process, pc[p] # "idle", Fail(p),
         UNCHANGED <<alone, orderly>>, clean' => clean
  PROVE  CodeInv'
  BY EndsInv DEF Fail, plugin, shell

LEMMA RollBackCode ==
  ASSUME LockInv, CodeInv, NEW p \in Process, pc[p] # "idle", RollBack(p),
         UNCHANGED <<alone, orderly>>, clean' => clean
  PROVE  CodeInv'
<1>1. CASE first[p]
  <2>1. "undo" \in Step \ Rendered
    BY DEF Step, Rendered, SetupSteps, UndoSteps
  <2> QED
    BY <1>1, <2>1, LeaveInv DEF RollBack, Goto, Moves, local, plugin, shell, Quiet
<1>2. CASE ~first[p]
  BY <1>2, EndsInv DEF RollBack, plugin, shell
<1> QED
  BY <1>1, <1>2

LEMMA CannotCode ==
  ASSUME LockInv, CodeInv, NEW p \in Process, pc[p] # "idle", NEW label \in UninstallSteps,
         Cannot(p, label) \/ (Moves(p, label) /\ UNCHANGED <<clone, first, previous>>),
         UNCHANGED <<stock, plugin, shell, alone, orderly>>, clean' => clean
  PROVE  CodeInv'
<1>1. CASE Ends(p, "stuck")
  BY <1>1, EndsInv DEF plugin, shell
<1>2. CASE Moves(p, label) /\ UNCHANGED <<clone, first, previous>>
  <2>1. label \in Step \ Rendered
    BY DEF Step, Rendered, SetupSteps, UninstallSteps
  <2>2. label # "idle"
    BY DEF UninstallSteps
  <2> QED
    BY <1>2, <2>1, <2>2, LeaveInv DEF Moves, plugin, shell, Quiet
<1> QED
  BY <1>1, <1>2 DEF Cannot

\* What is left to chance makes no command a good one.
LEMMA ChanceCode ==
  ASSUME NEW p, Chance(p) PROVE UNCHANGED <<alone, orderly>> /\ (clean' => clean)
  BY DEF Chance

-----------------------------------------------------------------------------
(***************************************************************************)
(* The undoing, uninstall, and what fails by chance.                       *)
(***************************************************************************)
LEMMA MishapCode ==
  ASSUME LockInv, CodeInv, NEW p \in Process, Mishap(p) \/ Die(p)
  PROVE  CodeInv'
<1>1. pc[p] # "idle" /\ UNCHANGED <<alone, orderly>> /\ (clean' => clean)
  BY ChanceCode DEF Mishap, Die, Busy
<1>2. CASE Mishap(p)
  BY <1>1, <1>2, RefuseCode, FailCode, RollBackCode DEF Mishap
<1>3. CASE Die(p)
  BY <1>1, <1>3, EndsInv DEF Die, plugin, shell
<1> QED
  BY <1>2, <1>3

\* What takes the plugin or the stamp away leaves the rest in order.
LEMMA TakeInv ==
  ASSUME LockInv, CodeInv, NEW p \in Process, pc[p] # "idle",
         NEW label \in Step \ Rendered, pc' = [pc EXCEPT ![p] = label],
         label # "idle" \/ (p = alone => result' # "ok"),
         target' \in {target, Nothing}, stamp' \in {stamp, Nothing},
         clone' \in {clone, [clone EXCEPT ![p] = Nothing]},
         UNCHANGED <<stock, stage, rollback, compiled, alone, orderly>>, clean' => clean
  PROVE  CodeInv'
<1>1. Shape
  BY DEF LockInv
<1>2. Newest'
  <2>1. ASSUME NEW q \in Process PROVE Known(clone'[q], stock.files)
    <3>1. clone'[q] = clone[q] \/ clone'[q] = Nothing
      BY <1>1 DEF Shape
    <3> QED
      BY <3>1, ContentAssumption DEF CodeInv, Newest, Known
  <2> QED
    BY <2>1, ContentAssumption DEF CodeInv, Newest, Known
<1>3. alone' # Nothing => \A q \in Process : q # alone' => pc'[q] = "idle"
  BY <1>1 DEF CodeInv, Shape
<1>4. compiled' \in Content
  BY DEF CodeInv
<1>5. SUFFICES ASSUME orderly
      PROVE  Sole' /\ Stamped' /\ Installed' /\ \A q \in Process : Order(q)'
  BY <1>2, <1>3, <1>4 DEF CodeInv
<1>6. Sole'
  BY <1>1, <1>5 DEF CodeInv, Shape, Sole
<1>7. Stamped'
  BY <1>5, ContentAssumption DEF CodeInv, Stamped, NotBefore
<1>8. ASSUME NEW q \in Process PROVE Order(q)'
  <2>1. pc'[q] \notin Rendered
    BY <1>1, <1>5 DEF CodeInv, Shape, Sole, Rendered, SetupSteps
  <2> QED
    BY <2>1 DEF Order, Rendered, SetupSteps, InPlace, InCharge
<1> QED
  BY <1>6, <1>7, <1>8, NotInstalled

LEMMA UninstallCode ==
  ASSUME LockInv, CodeInv, NEW p \in Process, Uninstall(p)
  PROVE  CodeInv'
<1>1. (UndoSteps \union UninstallSteps \union {"idle"}) \cap Rendered = {}
  BY DEF UndoSteps, UninstallSteps, Rendered, SetupSteps
<1>2. pc[p] # "idle"
  BY DEF Uninstall, Sudo, LookForLock, RemoveLock, RemoveLockFails, RemoveRow, Unbind,
     Undone, StopUnits, RemoveSocket, RemoveState, Forget, RemovePackage, CannotByChance
<1>3. CASE LookForLock(p) \/ (Unbind(p) /\ ~Reversed(binding))
  <2>1. /\ UNCHANGED <<stock, plugin, shell, history, local>>
        /\ \E label \in UndoSteps \union UninstallSteps : Moves(p, label)
    BY <1>3 DEF LookForLock, Unbind, Goto, UndoSteps, UninstallSteps
  <2>2. PICK label \in UndoSteps \union UninstallSteps : Moves(p, label)
    BY <2>1
  <2>3. label \in Step \ Rendered /\ label # "idle"
    BY <1>1 DEF Step, UndoSteps, UninstallSteps
  <2> QED
    BY <1>2, <2>1, <2>2, <2>3, LeaveInv DEF Moves, plugin, shell, history, local, Quiet
<1>4. CASE RemoveLock(p) \/ RemoveLockFails(p)
  <2>1. /\ \E label \in {"undoBind", "unrow", "idle"} :
             /\ pc' = [pc EXCEPT ![p] = label]
             /\ label # "idle" \/ (p = alone => result' # "ok")
        /\ target' \in {target, Nothing}
        /\ clone' \in {clone, [clone EXCEPT ![p] = Nothing]}
        /\ UNCHANGED <<stock, stage, rollback, compiled, stamp, alone, orderly>>
        /\ clean' => clean
    <3>1. CASE RemoveLock(p)
      BY <3>1 DEF RemoveLock, Goto, Moves, local, shell, history
    <3>2. CASE RemoveLockFails(p)
      <4>1. UNCHANGED <<alone, orderly>> /\ (clean' => clean)
        BY <3>2, ChanceCode DEF RemoveLockFails, history
      <4> QED
        BY <3>2, <4>1 DEF RemoveLockFails, Cannot, Ends, Moves, Forgets, shell
    <3> QED
      BY <1>4, <3>1, <3>2
  <2>2. {"undoBind", "unrow", "idle"} \subseteq Step \ Rendered
    BY DEF Step, UndoSteps, UninstallSteps, Rendered, SetupSteps
  <2> QED
    BY <1>2, <2>1, <2>2, TakeInv
<1>5. CASE RemoveState(p)
  <2>1. /\ pc' = [pc EXCEPT ![p] = "forget"] /\ stamp' = Nothing
        /\ UNCHANGED <<stock, target, stage, rollback, compiled, clone, alone, orderly, clean>>
    BY <1>5 DEF RemoveState, Goto, Moves, plugin, local, history
  <2>2. "forget" \in Step \ Rendered
    BY DEF Step, UninstallSteps, Rendered, SetupSteps
  <2> QED
    BY <1>2, <2>1, <2>2, TakeInv
<1>6. CASE RemoveRow(p)
  <2>1. "unbind" \in UninstallSteps /\ "undoReload" \in Step \ Rendered
    BY DEF Step, UndoSteps, UninstallSteps, Rendered, SetupSteps
  <2>2. CASE Text!Malformed(menu)
    BY <1>2, <1>6, <2>1, <2>2, CannotCode DEF RemoveRow, history
  <2>3. CASE ~Text!Malformed(menu) /\ Goto(p, "undoReload")
    BY <1>2, <1>6, <2>1, <2>3, LeaveInv
    DEF RemoveRow, Goto, Moves, local, plugin, shell, history, Quiet
  <2>4. CASE ~Text!Malformed(menu) /\ Goto(p, "unbind")
    BY <1>2, <1>6, <2>1, <2>4, CannotCode DEF RemoveRow, Goto, local, history
  <2> QED
    BY <1>6, <2>2, <2>3, <2>4 DEF RemoveRow
<1>7. CASE Undone(p) \/ RemovePackage(p)
  BY <1>2, <1>7, EndsInv DEF Undone, RemovePackage, plugin, shell, history
<1>8. CASE Sudo(p) \/ StopUnits(p) \/ RemoveSocket(p) \/ Forget(p)
  <2>1. /\ UNCHANGED <<stock, plugin, shell, history, local>>
        /\ \E label \in UninstallSteps : Moves(p, label)
    BY <1>8 DEF Sudo, StopUnits, RemoveSocket, Forget, Goto, UninstallSteps
  <2> QED
    BY <1>2, <2>1, CannotCode DEF history, local
<1>9. CASE CannotByChance(p)
  <2>1. UNCHANGED <<stock, plugin, shell, alone, orderly>> /\ (clean' => clean)
    BY <1>9, ChanceCode DEF CannotByChance
  <2>2. CASE Ends(p, "kept")
    BY <1>2, <2>1, <2>2, EndsInv DEF plugin, shell
  <2>3. CASE pc[p] \in UndoSteps /\ Cannot(p, pc[p])
    BY <1>2, <2>1, <2>3, EndsInv DEF Cannot, Undoing, plugin, shell
  <2>4. CASE \E label \in {"unbind", "unwatch", "unsocket", "unstate", "forget", "package"} :
               Cannot(p, label)
    <3>1. {"unbind", "unwatch", "unsocket", "unstate", "forget", "package"} \subseteq UninstallSteps
      BY DEF UninstallSteps
    <3> QED
      BY <1>2, <2>1, <2>4, <3>1, CannotCode
  <2> QED
    BY <1>9, <2>2, <2>3, <2>4 DEF CannotByChance, UndoSteps
<1>10. CASE Unbind(p) /\ Reversed(binding)
  <2>1. "unwatch" \in UninstallSteps
    BY DEF UninstallSteps
  <2> QED
    BY <1>2, <1>10, <2>1, CannotCode DEF Unbind, history
<1> QED
  BY <1>3, <1>4, <1>5, <1>6, <1>7, <1>8, <1>9, <1>10 DEF Uninstall

-----------------------------------------------------------------------------
(***************************************************************************)
(* setup: each step hands on to the next what that one needs.              *)
(***************************************************************************)

\* A step that does change the plugin, the shell's code or the stamp.
LEMMA StepCode ==
  ASSUME LockInv, CodeInv, NEW p \in Process, NEW label, pc[p] # "idle",
         pc' = [pc EXCEPT ![p] = label], UNCHANGED <<alone, orderly>>,
         compiled' \in Content, Newest',
         orderly => Stamped' /\ Order(p)' /\ Installed'
  PROVE  CodeInv'
<1>1. pc \in [Process -> Step]
  BY DEF LockInv, Shape
<1>2. alone' # Nothing => \A q \in Process : q # alone' => pc'[q] = "idle"
  BY <1>1 DEF CodeInv
<1>3. SUFFICES ASSUME orderly PROVE Sole' /\ \A q \in Process : Order(q)'
  BY <1>2 DEF CodeInv
<1>4. Sole'
  BY <1>1, <1>3 DEF CodeInv, Sole
<1>5. ASSUME NEW q \in Process PROVE Order(q)'
  <2>1. CASE q = p
    BY <1>3, <2>1
  <2>2. CASE q # p
    <3>1. pc'[q] = "idle"
      BY <1>1, <1>3, <2>2 DEF CodeInv, Sole
    <3> QED
      BY <3>1 DEF Order, Rendered, SetupSteps, InPlace, InCharge
  <2> QED
    BY <2>1, <2>2
<1> QED
  BY <1>4, <1>5

\* A clone is of the lock as it is, and none newer has been seen.
LEMMA RenderCode ==
  ASSUME LockInv, CodeInv, NEW p \in Process, Render(p)
  PROVE  CodeInv'
<1>1. pc[p] = "render" /\ UNCHANGED history
  BY DEF Render
<1>2. CASE ~package
  BY <1>1, <1>2, RefuseCode DEF Render, history
<1>3. CASE package
  <2>1. /\ pc' = [pc EXCEPT ![p] = "look"] /\ clone' = [clone EXCEPT ![p] = stock]
        /\ UNCHANGED <<stock, target, stage, rollback, enabled, compiled, stamp, result,
                       alone, clean, orderly>>
    BY <1>3 DEF Render, Moves, plugin, shell, history
  <2>2. Shape
    BY DEF LockInv
  <2>3. pc'[p] = "look" /\ clone'[p] = stock
    BY <2>1, <2>2 DEF Shape
  <2>4. stock \in Version /\ stock.files \in Nat
    BY <2>2 DEF Shape, Version
  <2>5. Newest'
    <3>1. ASSUME NEW q \in Process PROVE Known(clone'[q], stock.files)
      <4>1. clone'[q] = clone[q] \/ clone'[q] = stock
        BY <2>1, <2>2 DEF Shape
      <4> QED
        BY <2>4, <4>1 DEF CodeInv, Newest, Known
    <3> QED
      BY <2>1, <3>1 DEF CodeInv, Newest, Known
  <2>6. orderly => Order(p)'
    BY <2>1, <2>3, <2>4 DEF Order, CodeInv, Newest, Stamped, Known, InPlace, InCharge
  <2>7. orderly => Stamped'
    BY <2>1 DEF CodeInv, Stamped, NotBefore
  <2>8. Installed'
    BY <1>1, <2>1, NotInstalled
  <2> QED
    BY <1>1, <2>1, <2>5, <2>6, <2>7, <2>8, StepCode DEF CodeInv
<1> QED
  BY <1>2, <1>3

\* Steps that change only where the process is.
LEMMA OnwardCode ==
  ASSUME LockInv, CodeInv, NEW p \in Process,
         \/ Look(p) \/ Claim(p) \/ Previous(p) \/ Discover(p) \/ Reload(p) \/ EnableUnits(p)
         \/ Watch(p) \/ Bind(p) \/ AddRow(p)
  PROVE  CodeInv'
<1>1. pc[p] # "idle" /\ UNCHANGED history
  BY DEF Look, Claim, Previous, Discover, Reload, EnableUnits, Watch, Bind, AddRow
<1>2. CASE Refuse(p) \/ Fail(p) \/ RollBack(p)
  BY <1>1, <1>2, RefuseCode, FailCode, RollBackCode DEF history
<1>3. CASE ~(Refuse(p) \/ Fail(p) \/ RollBack(p))
  <2>1. /\ UNCHANGED <<stock, plugin, shell, clone, result>>
        /\ \/ pc[p] = "look" /\ pc' = [pc EXCEPT ![p] = "claim"]
           \/ pc[p] = "claim" /\ pc' = [pc EXCEPT ![p] = "stage"]
           \/ pc[p] = "previous" /\ pc' = [pc EXCEPT ![p] = "aside"]
           \/ /\ pc[p] = "previous" /\ pc' = [pc EXCEPT ![p] = "swap"]
              /\ previous' = [previous EXCEPT ![p] = FALSE]
           \/ pc[p] = "discover" /\ pc' = [pc EXCEPT ![p] = "enable"]
           \/ pc[p] = "bind" /\ pc' = [pc EXCEPT ![p] = "row"]
           \/ pc[p] = "row" /\ pc' = [pc EXCEPT ![p] = "reload"]
           \/ pc[p] = "reload" /\ pc' = [pc EXCEPT ![p] = "code"]
           \/ pc[p] = "units" /\ pc' = [pc EXCEPT ![p] = "watch"]
           \/ pc[p] = "watch" /\ pc' = [pc EXCEPT ![p] = "serve"]
    BY <1>3 DEF Look, Claim, Previous, Discover, Reload, EnableUnits, Watch, Bind, AddRow,
       Goto, Moves, local
  <2>2. Shape
    BY DEF LockInv
  <2>3. PICK label \in Rendered : pc' = [pc EXCEPT ![p] = label]
    BY <2>1 DEF Rendered, SetupSteps
  <2>4. pc'[p] = label /\ label # "idle"
    BY <2>2, <2>3 DEF Shape, Rendered, SetupSteps
  <2>5. Installed'
    BY <1>1, <2>1, <2>3, <2>4, NotInstalled DEF history
  <2>6. Quiet(p)
    BY <1>1, <2>1 DEF Quiet, plugin, shell, history
  <2>7. ASSUME Order(p) PROVE Order(p)'
    <3>1. pc'[p] = "swap" => ~previous'[p]
      BY <2>1, <2>2 DEF Shape
    <3>2. UNCHANGED <<target, stage, rollback, enabled, compiled, stamp, clone, clean, alone>>
      BY <1>1, <2>1 DEF plugin, shell, history
    <3>3. /\ pc[p] \in Rendered /\ pc'[p] # "putback" /\ pc'[p] # "stamp"
          /\ pc'[p] \in {"previous", "aside", "swap"} => pc[p] = "previous"
          /\ pc'[p] \in InPlace => pc[p] \in InPlace
          /\ pc'[p] \in InCharge => pc[p] \in InCharge
          /\ pc'[p] \in {"units", "watch", "serve"} => pc[p] \in {"units", "watch", "serve"}
      BY <2>1, <2>2 DEF Shape, Rendered, SetupSteps, InPlace, InCharge
    <3> QED
      BY <2>7, <3>1, <3>2, <3>3 DEF Order, Known, NotBefore
  <2> QED
    BY <1>1, <2>3, <2>5, <2>6, <2>7, QuietInv DEF CodeInv
<1> QED
  BY <1>2, <1>3

\* What is staged has the files that were rendered.
LEMMA StageCode ==
  ASSUME LockInv, CodeInv, NEW p \in Process, Stage(p)
  PROVE  CodeInv'
<1> DEFINE made == [files |-> clone[p].files, copied |-> stock.copied]
<1>1. /\ pc[p] = "stage" /\ pc' = [pc EXCEPT ![p] = "previous"]
      /\ stage' = [stage EXCEPT ![p] = made]
      /\ UNCHANGED <<stock, target, rollback, enabled, compiled, stamp, clone, alone, clean,
                     orderly>>
  BY DEF Stage, Goto, Moves, local, shell, history
<1>2. Shape
  BY DEF LockInv
<1>3. /\ made \in Version /\ made.files = clone[p].files /\ clone[p] \in Version
      /\ stock.files \in Nat
  <2>1. clone[p] \in Version /\ stock \in Version
    BY <1>1, <1>2 DEF LockInv, Shape, Holds
  <2> QED
    BY <2>1 DEF Version
<1> HIDE DEF made
<1>4. pc'[p] = "previous" /\ stage'[p] = made
  BY <1>1, <1>2 DEF Shape
<1>5. Newest'
  <2>1. ASSUME NEW q \in Process PROVE Known(stage'[q], stock.files)
    <3>1. stage'[q] = stage[q] \/ (q = p /\ stage'[q] = made)
      BY <1>1, <1>2 DEF Shape
    <3> QED
      BY <1>3, <3>1 DEF CodeInv, Newest, Known
  <2> QED
    BY <1>1, <2>1 DEF CodeInv, Newest, Known
<1>6. orderly => Order(p)'
  <2>1. CASE orderly
    <3>1. Order(p)
      BY <2>1 DEF CodeInv
    <3> QED
      BY <1>1, <1>3, <1>4, <3>1
      DEF Order, Known, Rendered, SetupSteps, InPlace, InCharge
  <2> QED
    BY <2>1
<1>7. orderly => Stamped'
  BY <1>1 DEF CodeInv, Stamped, NotBefore
<1>8. Installed'
  BY <1>1, NotInstalled
<1> QED
  BY <1>1, <1>5, <1>6, <1>7, <1>8, StepCode DEF CodeInv

\* What is put aside is no older than the stamp.
LEMMA AsideCode ==
  ASSUME LockInv, CodeInv, NEW p \in Process, Aside(p)
  PROVE  CodeInv'
<1>1. pc[p] = "aside" /\ UNCHANGED history
  BY DEF Aside
<1>2. CASE target = Nothing
  BY <1>1, <1>2, RefuseCode DEF Aside, history
<1>3. CASE target # Nothing
  <2>1. /\ pc' = [pc EXCEPT ![p] = "swap"]
        /\ rollback' = [rollback EXCEPT ![p] = target] /\ target' = Nothing
        /\ UNCHANGED <<stock, stage, enabled, compiled, stamp, clone, alone, clean, orderly>>
    BY <1>1, <1>3 DEF Aside, Goto, Moves, local, shell, history
  <2>2. Shape
    BY DEF LockInv
  <2>3. pc'[p] = "swap" /\ rollback'[p] = target
    BY <2>1, <2>2 DEF Shape
  <2>4. Newest'
    <3>1. ASSUME NEW q \in Process PROVE Known(rollback'[q], stock.files)
      <4>1. rollback'[q] = rollback[q] \/ rollback'[q] = target
        BY <2>1, <2>2 DEF Shape
      <4> QED
        BY <4>1 DEF CodeInv, Newest
    <3> QED
      BY <2>1, <3>1, ContentAssumption DEF CodeInv, Newest, Known
  <2>5. ASSUME orderly PROVE Stamped' /\ Order(p)'
    <3>1. Order(p) /\ Stamped
      BY <2>5 DEF CodeInv
    <3>2. Stamped'
      BY <2>1, <3>1, ContentAssumption DEF Stamped, NotBefore
    <3> QED
      BY <1>1, <2>1, <2>3, <3>1, <3>2, ContentAssumption
      DEF Order, Stamped, NotBefore, Known, Rendered, SetupSteps, InPlace, InCharge
  <2>6. Installed'
    BY <1>1, <2>1, NotInstalled
  <2> QED
    BY <1>1, <2>1, <2>4, <2>5, <2>6, StepCode DEF CodeInv
<1> QED
  BY <1>2, <1>3

\* What is put in place was rendered from a lock no older than the stamp.
LEMMA SwapCode ==
  ASSUME LockInv, CodeInv, NEW p \in Process, Swap(p)
  PROVE  CodeInv'
<1>1. /\ pc[p] = "swap"
      /\ target' = stage[p] /\ stage' = [stage EXCEPT ![p] = Nothing]
      /\ UNCHANGED <<stock, rollback, enabled, compiled, stamp, clone, alone, clean, orderly>>
  BY DEF Swap, Goto, Moves, local, shell, history
<1>2. Shape
  BY DEF LockInv
<1>3. PICK label \in {"discard", "discover"} : pc' = [pc EXCEPT ![p] = label]
  BY DEF Swap, Goto, Moves
<1>4. pc'[p] = label
  BY <1>2, <1>3 DEF Shape
<1>5. Newest'
  <2>1. ASSUME NEW q \in Process PROVE Known(stage'[q], stock.files)
    <3>1. stage'[q] = stage[q] \/ stage'[q] = Nothing
      BY <1>1, <1>2 DEF Shape
    <3> QED
      BY <3>1, ContentAssumption DEF CodeInv, Newest, Known
  <2> QED
    BY <1>1, <2>1 DEF CodeInv, Newest, Known
<1>6. ASSUME orderly PROVE Stamped' /\ Order(p)'
  <2>1. Order(p) /\ Stamped
    BY <1>6 DEF CodeInv
  <2>2. /\ stage[p] \in Version /\ stage[p].files = clone[p].files
        /\ stamp # Nothing => stamp <= clone[p].files
    BY <1>1, <2>1 DEF Order, Rendered, SetupSteps
  <2>3. Stamped'
    BY <1>1, <2>1, <2>2, ContentAssumption DEF Stamped, NotBefore
  <2>4. stage[p].files <= clone[p].files
    BY <2>2 DEF Version
  <2> QED
    BY <1>1, <1>4, <2>1, <2>2, <2>3, <2>4
    DEF Order, Known, Rendered, SetupSteps, InPlace, InCharge
<1>7. Installed'
  BY <1>1, <1>3, NotInstalled
<1> QED
  BY <1>1, <1>3, <1>5, <1>6, <1>7, StepCode DEF CodeInv

LEMMA SwapFailsCode ==
  ASSUME LockInv, CodeInv, NEW p \in Process, SwapFails(p)
  PROVE  CodeInv'
<1>1. /\ pc[p] = "swap" /\ stage' = [stage EXCEPT ![p] = Nothing]
      /\ UNCHANGED <<stock, target, rollback, enabled, compiled, stamp>>
  BY DEF SwapFails, shell
<1>2. UNCHANGED <<alone, orderly>> /\ (clean' => clean)
  BY ChanceCode DEF SwapFails, history
<1>3. CASE ~previous[p]
  BY <1>1, <1>2, <1>3, EndsInv DEF SwapFails
<1>4. CASE previous[p]
  <2>1. pc' = [pc EXCEPT ![p] = "putback"] /\ clone' = clone
    BY <1>4 DEF SwapFails, Goto, Moves, local
  <2>2. pc'[p] = "putback"
    BY <2>1 DEF LockInv, Shape
  <2>3. ASSUME Order(p) PROVE Order(p)'
    BY <1>1, <1>4, <2>1, <2>2, <2>3
    DEF Order, Known, NotBefore, Rendered, SetupSteps, InPlace, InCharge
  <2>4. Installed'
    BY <1>1, <1>2, <2>1, NotInstalled
  <2> QED
    BY <1>1, <1>2, <2>1, <2>3, <2>4, QuietInv DEF CodeInv, Quiet
<1> QED
  BY <1>3, <1>4

LEMMA PutBackCode ==
  ASSUME LockInv, CodeInv, NEW p \in Process, PutBack(p)
  PROVE  CodeInv'
<1>1. pc[p] = "putback" /\ UNCHANGED history
  BY DEF PutBack
<1>2. CASE target # Nothing
  BY <1>1, <1>2, FailCode DEF PutBack, history
<1>3. CASE target = Nothing
  <2>1. /\ pc' = [pc EXCEPT ![p] = "idle"] /\ (p = alone => result' # "ok")
        /\ clone' = [clone EXCEPT ![p] = Nothing]
        /\ target' = rollback[p] /\ rollback' = [rollback EXCEPT ![p] = Nothing]
        /\ UNCHANGED <<stock, stage, enabled, compiled, stamp, alone, clean, orderly>>
    BY <1>1, <1>3 DEF PutBack, Ends, Forgets, shell, history
  <2>2. Shape
    BY DEF LockInv
  <2>3. Newest'
    <3>1. ASSUME NEW q \in Process
          PROVE  Known(clone'[q], stock.files) /\ Known(rollback'[q], stock.files)
      <4>1. /\ clone'[q] = clone[q] \/ clone'[q] = Nothing
            /\ rollback'[q] = rollback[q] \/ rollback'[q] = Nothing
        BY <2>1, <2>2 DEF Shape
      <4> QED
        BY <4>1, ContentAssumption DEF CodeInv, Newest, Known
    <3> QED
      BY <2>1, <3>1 DEF CodeInv, Newest, Known
  <2>4. orderly => Stamped'
    <3>1. CASE orderly
      <4>1. Order(p) /\ Stamped
        BY <3>1 DEF CodeInv
      <4> QED
        BY <1>1, <2>1, <4>1 DEF Order, Stamped, NotBefore
    <3> QED
      BY <3>1
  <2>5. Order(p)'
    <3>1. pc'[p] = "idle"
      BY <2>1, <2>2 DEF Shape
    <3> QED
      BY <3>1 DEF Order, Rendered, SetupSteps, InPlace, InCharge
  <2>6. Installed'
    BY <1>1, <2>1, NotInstalled
  <2> QED
    BY <1>1, <2>1, <2>3, <2>4, <2>5, <2>6, StepCode DEF CodeInv
<1> QED
  BY <1>2, <1>3

LEMMA DiscardCode ==
  ASSUME LockInv, CodeInv, NEW p \in Process, Discard(p)
  PROVE  CodeInv'
<1>1. /\ pc[p] = "discard" /\ pc' = [pc EXCEPT ![p] = "discover"]
      /\ rollback' = [rollback EXCEPT ![p] = Nothing]
      /\ UNCHANGED <<stock, target, stage, enabled, compiled, stamp, clone, alone, clean, orderly>>
  BY DEF Discard, Goto, Moves, local, shell, history
<1>2. pc'[p] = "discover" /\ rollback'[p] = Nothing
  BY <1>1 DEF LockInv, Shape
<1>3. Newest'
  <2>1. ASSUME NEW q \in Process PROVE Known(rollback'[q], stock.files)
    <3>1. rollback'[q] = rollback[q] \/ rollback'[q] = Nothing
      BY <1>1 DEF LockInv, Shape
    <3> QED
      BY <3>1, ContentAssumption DEF CodeInv, Newest, Known
  <2> QED
    BY <1>1, <2>1 DEF CodeInv, Newest, Known
<1>4. ASSUME orderly PROVE Stamped' /\ Order(p)'
  <2>1. Order(p) /\ Stamped
    BY <1>4 DEF CodeInv
  <2>2. Stamped'
    BY <1>1, <2>1 DEF Stamped, NotBefore
  <2> QED
    BY <1>1, <1>2, <2>1, <2>2, ContentAssumption
    DEF Order, Known, Rendered, SetupSteps, InPlace, InCharge
<1>5. Installed'
  BY <1>1, NotInstalled
<1> QED
  BY <1>1, <1>3, <1>4, <1>5, StepCode DEF CodeInv

-----------------------------------------------------------------------------
(***************************************************************************)
(* From the plugin put in charge to the code that runs.                    *)
(***************************************************************************)
LEMMA EnableCode ==
  ASSUME LockInv, CodeInv, NEW p \in Process, Enable(p)
  PROVE  CodeInv'
<1>1. pc[p] = "enable" /\ UNCHANGED history
  BY DEF Enable
<1>2. CASE target = Nothing
  BY <1>1, <1>2, FailCode DEF Enable, history
<1>3. CASE target # Nothing
  <2>1. /\ pc' = [pc EXCEPT ![p] = "bind"] /\ enabled' = TRUE
        /\ compiled' = IF compiled = Nothing THEN target ELSE compiled
        /\ UNCHANGED <<stock, target, stage, rollback, stamp, clone, alone, clean, orderly>>
    BY <1>1, <1>3 DEF Enable, Goto, Moves, local, history
  <2>2. pc'[p] = "bind" /\ target \in Content
    BY <2>1 DEF LockInv, Shape
  <2>3. compiled' \in Content /\ compiled' # Nothing /\ compiled' \in {compiled, target}
    BY <1>3, <2>1, <2>2 DEF CodeInv
  <2>4. Newest'
    BY <2>1, <2>3 DEF CodeInv, Newest, Known
  <2>5. ASSUME orderly PROVE Stamped' /\ Order(p)'
    <3>1. Order(p) /\ Stamped
      BY <2>5 DEF CodeInv
    <3>2. Stamped'
      BY <2>1, <2>3, <3>1 DEF Stamped, NotBefore
    <3> QED
      BY <1>1, <2>1, <2>2, <2>3, <3>1, <3>2
      DEF Order, Known, Rendered, SetupSteps, InPlace, InCharge
  <2>6. Installed'
    BY <1>1, <2>1, NotInstalled
  <2> QED
    BY <1>1, <2>1, <2>3, <2>4, <2>5, <2>6, StepCode DEF CodeInv
<1> QED
  BY <1>2, <1>3

\* A stamp that is this clone's stands for code no older and none newer.
LEMMA CodeCode ==
  ASSUME LockInv, CodeInv, NEW p \in Process, Code(p)
  PROVE  CodeInv'
<1>1. /\ pc[p] = "code"
      /\ pc' = [pc EXCEPT ![p] = IF stamp = clone[p].files THEN "units" ELSE "restart"]
      /\ UNCHANGED <<stock, target, stage, rollback, enabled, compiled, stamp, clone, alone,
                     clean, orderly>>
  BY DEF Code, Goto, Moves, local, plugin, shell, history
<1>2. pc'[p] = IF stamp = clone[p].files THEN "units" ELSE "restart"
  BY <1>1 DEF LockInv, Shape
<1>3. Newest'
  BY <1>1 DEF CodeInv, Newest, Known
<1>4. ASSUME orderly PROVE Stamped' /\ Order(p)'
  <2>1. Order(p) /\ Stamped
    BY <1>4 DEF CodeInv
  <2>2. Stamped'
    BY <1>1, <2>1 DEF Stamped, NotBefore
  <2>3. /\ clone[p] \in Version /\ Known(compiled, clone[p].files)
        /\ target \in Version /\ target.files = clone[p].files /\ compiled # Nothing
    BY <1>1, <2>1 DEF Order, Rendered, SetupSteps, InPlace, InCharge
  <2>4. ASSUME stamp = clone[p].files
        PROVE  compiled \in Version /\ compiled.files = target.files
    <3>1. clone[p].files \in Nat
      BY <2>3 DEF Version
    <3>2. NotBefore(compiled)
      BY <2>1, <2>4, <3>1, ContentAssumption DEF Stamped
    <3>3. compiled \in Version
      BY <2>3, <3>2 DEF CodeInv, NotBefore, Content
    <3>4. stamp <= compiled.files /\ compiled.files <= clone[p].files /\ compiled.files \in Nat
      BY <2>3, <3>2, <3>3 DEF NotBefore, Known, Version
    <3> QED
      BY <2>3, <2>4, <3>1, <3>3, <3>4
  <2> QED
    BY <1>1, <1>2, <2>1, <2>2, <2>4
    DEF Order, Known, Rendered, SetupSteps, InPlace, InCharge
<1>5. Installed'
  BY <1>1, NotInstalled
<1> QED
  BY <1>1, <1>3, <1>4, <1>5, StepCode DEF CodeInv

\* A shell that starts compiles what is in its place.
LEMMA LoadedInv ==
  ASSUME LockInv, CodeInv
  PROVE  /\ Loaded \in Content /\ Known(Loaded, stock.files)
         /\ orderly /\ stamp # Nothing => NotBefore(Loaded)
<1>1. Loaded \in {target, Nothing}
  BY DEF Loaded
<1> QED
  BY <1>1, ContentAssumption
  DEF LockInv, Shape, Content, CodeInv, Newest, Known, Stamped, NotBefore

LEMMA RestartCode ==
  ASSUME LockInv, CodeInv, NEW p \in Process, Restart(p)
  PROVE  CodeInv'
<1>1. /\ pc[p] = "restart" /\ pc' = [pc EXCEPT ![p] = "stamp"] /\ compiled' = Loaded
      /\ UNCHANGED <<stock, target, stage, rollback, enabled, stamp, clone, alone, clean,
                     orderly>>
  BY DEF Restart, Goto, Moves, local, plugin, history
<1>2. pc'[p] = "stamp"
  BY <1>1 DEF LockInv, Shape
<1>3. Newest'
  BY <1>1, LoadedInv DEF CodeInv, Newest, Known
<1>4. ASSUME orderly PROVE Stamped' /\ Order(p)'
  <2>1. Order(p) /\ Stamped
    BY <1>4 DEF CodeInv
  <2>2. Stamped'
    BY <1>1, <1>4, <2>1, LoadedInv DEF Stamped, NotBefore
  <2>3. enabled /\ target \in Version /\ target.files = clone[p].files
    BY <1>1, <2>1 DEF Order, InPlace, InCharge
  <2>4. compiled' = target /\ target # Nothing
    BY <1>1, <2>3, ContentAssumption DEF Loaded
  <2> QED
    BY <1>1, <1>2, <2>1, <2>2, <2>3, <2>4
    DEF Order, Known, Rendered, SetupSteps, InPlace, InCharge
<1>5. Installed'
  BY <1>1, NotInstalled
<1> QED
  BY <1>1, <1>3, <1>4, <1>5, LoadedInv, StepCode DEF CodeInv

LEMMA StampCode ==
  ASSUME LockInv, CodeInv, NEW p \in Process, Stamp(p)
  PROVE  CodeInv'
<1>1. /\ pc[p] = "stamp" /\ pc' = [pc EXCEPT ![p] = "units"] /\ stamp' = clone[p].files
      /\ UNCHANGED <<stock, target, stage, rollback, enabled, compiled, clone, alone, clean,
                     orderly>>
  BY DEF Stamp, Goto, Moves, local, plugin, history
<1>2. pc'[p] = "units"
  BY <1>1 DEF LockInv, Shape
<1>3. Newest'
  BY <1>1 DEF CodeInv, Newest, Known
<1>4. ASSUME orderly PROVE Stamped' /\ Order(p)'
  <2>1. Order(p)
    BY <1>4 DEF CodeInv
  <2>2. /\ clone[p] \in Version /\ compiled = target
        /\ target \in Version /\ target.files = clone[p].files
    BY <1>1, <2>1 DEF Order, Rendered, SetupSteps, InPlace, InCharge
  <2>3. clone[p].files \in Nat /\ clone[p].files <= stock.files
    BY <2>2 DEF Version, CodeInv, Newest, Known
  <2>4. Stamped'
    BY <1>1, <2>2, <2>3, ContentAssumption DEF Stamped, NotBefore, Version
  <2> QED
    BY <1>1, <1>2, <2>1, <2>2, <2>3, <2>4
    DEF Order, Known, Rendered, SetupSteps, InPlace, InCharge
<1>5. Installed'
  BY <1>1, NotInstalled
<1> QED
  BY <1>1, <1>3, <1>4, <1>5, StepCode DEF CodeInv

LEMMA ServeCode ==
  ASSUME LockInv, CodeInv, NEW p \in Process, Serve(p) \/ Warn(p)
  PROVE  CodeInv'
<1>1. /\ UNCHANGED <<stock, target, stage, rollback, enabled, compiled, stamp, alone, orderly>>
      /\ clean' => clean
      /\ pc[p] \in {"restart", "stamp", "units", "watch", "serve"}
      /\ clean' /\ p = alone => pc[p] = "serve"
  <2>1. CASE Serve(p)
    BY <2>1 DEF Serve, plugin, shell, history
  <2>2. CASE Warn(p)
    <3>1. ~(clean' /\ p = alone)
      BY <2>2 DEF Warn, Chance
    <3> QED
      BY <2>2, <3>1, ChanceCode DEF Warn, plugin, shell
  <2> QED
    BY <2>1, <2>2
<1>2. /\ \E label \in {"idle", "units"} : pc' = [pc EXCEPT ![p] = label]
      /\ clone' \in {clone, [clone EXCEPT ![p] = Nothing]}
      /\ pc'[p] = "units" => clone' = clone
  BY DEF Serve, Warn, Ends, Forgets, Goto, Moves, local, LockInv, Shape
<1>3. pc'[p] \in {"idle", "units"} /\ \A q \in Process : q # p => pc'[q] = pc[q]
  BY <1>2 DEF LockInv, Shape
<1>4. Quiet(p)
  BY <1>1, <1>2 DEF Quiet
<1>5. ASSUME orderly PROVE Order(p)' /\ Installed'
  <2>1. Order(p)
    BY <1>5 DEF CodeInv
  <2>2. Order(p)'
    <3>1. CASE pc'[p] = "idle"
      BY <3>1 DEF Order, Rendered, SetupSteps, InPlace, InCharge
    <3>2. CASE pc'[p] = "units"
      <4>1. ~(clean' /\ alone' = p)
        BY <1>1, <3>2 DEF Serve, Warn, Chance, Ends, LockInv, Shape
      <4> QED
        BY <1>1, <1>2, <2>1, <3>2, <4>1
        DEF Order, Known, Rendered, SetupSteps, InPlace, InCharge
    <3> QED
      BY <1>3, <3>1, <3>2
  <2>3. Installed'
    <3>1. SUFFICES ASSUME alone # Nothing, pc'[alone] = "idle", clean'
          PROVE  /\ enabled /\ target \in Version
                 /\ compiled \in Version /\ compiled.files = target.files
      BY <1>1 DEF Installed, Done, Busy
    <3>2. alone = p
      BY <1>1, <3>1 DEF CodeInv
    <3>3. pc[p] = "serve" /\ clean
      BY <1>1, <3>1, <3>2
    <3> QED
      BY <2>1, <3>2, <3>3 DEF Order, InPlace, InCharge
  <2> QED
    BY <2>2, <2>3
<1> QED
  BY <1>1, <1>2, <1>4, <1>5, QuietInv

-----------------------------------------------------------------------------
(***************************************************************************)
(* A command begins, and what happens elsewhere.                           *)
(***************************************************************************)
LEMMA BeginCode ==
  ASSUME LockInv, CodeInv, NEW p \in Process, Begin(p)
  PROVE  CodeInv'
<1>1. /\ stage' = [stage EXCEPT ![p] = Nothing]
      /\ rollback' = [rollback EXCEPT ![p] = Nothing]
      /\ UNCHANGED <<stock, target, compiled, stamp, clone>>
      /\ orderly' => orderly /\ Idle
      /\ alone' # Nothing => Idle /\ alone' = p
      /\ result' = "none"
  BY DEF Begin, shell, local
<1>2. PICK label \in {"render", "sudo"} : pc' = [pc EXCEPT ![p] = label]
  BY DEF Begin
<1>3. Shape
  BY DEF LockInv
<1>4. Newest'
  <2>1. ASSUME NEW q \in Process
        PROVE  Known(stage'[q], stock.files) /\ Known(rollback'[q], stock.files)
    <3>1. /\ stage'[q] = stage[q] \/ stage'[q] = Nothing
          /\ rollback'[q] = rollback[q] \/ rollback'[q] = Nothing
      BY <1>1, <1>3 DEF Shape
    <3> QED
      BY <3>1, ContentAssumption DEF CodeInv, Newest, Known
  <2> QED
    BY <1>1, <2>1 DEF CodeInv, Newest, Known
<1>5. Idle => \A q \in Process : q # p => pc'[q] = "idle"
  BY <1>2, <1>3 DEF Shape, Idle, Busy
<1>6. ASSUME orderly' PROVE Sole' /\ Stamped' /\ Installed' /\ \A q \in Process : Order(q)'
  <2>1. Stamped'
    BY <1>1, <1>6 DEF CodeInv, Stamped, NotBefore
  <2>2. \A q \in Process : pc'[q] \notin Rendered
    BY <1>1, <1>2, <1>3, <1>5, <1>6 DEF Shape, Rendered, SetupSteps
  <2>3. \A q \in Process : Order(q)'
    BY <2>2 DEF Order, Rendered, SetupSteps, InPlace, InCharge
  <2>4. Sole'
    BY <1>1, <1>5, <1>6 DEF Sole
  <2> QED
    BY <1>1, <2>1, <2>3, <2>4 DEF Installed
<1> QED
  BY <1>1, <1>4, <1>5, <1>6 DEF CodeInv

\* The user's own lock ends what is said of ours, but where it was not known.
LEMMA AloofCode ==
  ASSUME LockInv, CodeInv, CloneLock \/ DropLock
  PROVE  CodeInv'
<1>1. /\ target' \in {Nothing, OwnLock} /\ compiled' \in {compiled, OwnLock}
      /\ target \notin Version
      /\ UNCHANGED <<stock, stage, rollback, stamp, pc, clone, previous>>
      /\ alone' = Nothing /\ (orderly' => orderly /\ stamp = Nothing)
  BY ContentAssumption DEF CloneLock, DropLock, Aloof, shell, local
<1>2. Newest' /\ compiled' \in Content
  BY <1>1, ContentAssumption DEF CodeInv, Newest, Known, Content
<1>3. ASSUME orderly' PROVE Sole' /\ Stamped' /\ Installed' /\ \A q \in Process : Order(q)'
  <2>1. Sole' /\ Stamped'
    BY <1>1, <1>3 DEF CodeInv, Sole, Stamped
  <2>2. Installed'
    BY <1>1 DEF Installed, Done
  <2>3. ASSUME NEW q \in Process PROVE Order(q)'
    <3>1. Order(q)
      BY <1>1, <1>3 DEF CodeInv
    <3>2. pc[q] \notin InPlace
      BY <1>1, <3>1 DEF Order
    <3> QED
      BY <1>1, <1>3, <3>1, <3>2, ContentAssumption DEF Order, Known, InPlace, InCharge
  <2> QED
    BY <2>1, <2>2, <2>3
<1> QED
  BY <1>1, <1>2, <1>3 DEF CodeInv

LEMMA UpgradeCode ==
  ASSUME LockInv, CodeInv, Upgrade
  PROVE  CodeInv'
<1>1. UNCHANGED <<target, stage, rollback, enabled, compiled, stamp, pc, clone, previous, alone,
                  clean, orderly, result>>
  BY DEF Upgrade, Elsewhere, plugin, shell, local
<1>2. stock.files \in Nat /\ stock'.files \in Nat /\ stock.files <= stock'.files
  <2>1. PICK part \in {"files", "copied"} : stock' = [stock EXCEPT ![part] = @ + 1]
    BY DEF Upgrade
  <2> QED
    BY <2>1 DEF LockInv, Shape, Version
<1>3. \A v : Known(v, stock.files) => Known(v, stock'.files)
  BY <1>2 DEF Known, Version
<1>4. Newest'
  BY <1>1, <1>3 DEF CodeInv, Newest, Known
<1>5. orderly => Stamped'
  BY <1>1, <1>2 DEF CodeInv, Stamped, NotBefore
<1>6. ASSUME orderly PROVE Sole' /\ Installed' /\ \A q \in Process : Order(q)'
  BY <1>1, <1>6 DEF CodeInv, Sole, Installed, Done, Busy, Order, Known, NotBefore
<1> QED
  BY <1>1, <1>4, <1>5, <1>6 DEF CodeInv

\* A shell that starts between two steps has what the restart would give it.
LEMMA RestartShellCode ==
  ASSUME LockInv, CodeInv, RestartShell
  PROVE  CodeInv'
<1>1. /\ compiled' = Loaded
      /\ UNCHANGED <<stock, target, stage, rollback, enabled, stamp, pc, clone, previous, alone,
                     clean, orderly, result>>
  BY DEF RestartShell, Elsewhere, plugin, local
<1>2. compiled' \in Content /\ Newest'
  BY <1>1, LoadedInv DEF CodeInv, Newest, Known
<1>3. ASSUME orderly PROVE Sole' /\ Stamped' /\ Installed' /\ \A q \in Process : Order(q)'
  <2>1. Sole' /\ Stamped'
    BY <1>1, <1>3, LoadedInv DEF CodeInv, Sole, Stamped, NotBefore
  <2>2. Installed'
    BY <1>1, <1>3 DEF CodeInv, Installed, Done, Busy, Loaded
  <2>3. ASSUME NEW q \in Process PROVE Order(q)'
    <3>1. Order(q)
      BY <1>3 DEF CodeInv
    <3>2. pc[q] \in InCharge => compiled' = target /\ target \in Version /\ target # Nothing
      BY <1>1, <3>1, ContentAssumption DEF Order, Loaded, InPlace
    <3>3. pc[q] \in Rendered => Known(compiled', clone[q].files)
      BY <1>1, <3>1, ContentAssumption DEF Order, Loaded, Known
    <3> QED
      BY <1>1, <3>1, <3>2, <3>3 DEF Order, Known, NotBefore, InCharge
  <2> QED
    BY <2>1, <2>2, <2>3
<1> QED
  BY <1>1, <1>2, <1>3 DEF CodeInv

LEMMA ElsewhereCode ==
  ASSUME LockInv, CodeInv, Enroll \/ Trigger \/ Reinstall \/ UNCHANGED vars
  PROVE  CodeInv'
<1>1. UNCHANGED <<stock, plugin, shell, pc, local, alone, clean, orderly, result>>
  BY DEF Enroll, Trigger, Reinstall, vars, Elsewhere, history
<1> QED
  BY <1>1 DEF plugin, shell, local, CodeInv, Newest, Known, Sole, Stamped, NotBefore,
     Installed, Done, Busy, Order

LEMMA NextCode == ASSUME LockInv, CodeInv, [Next]_vars PROVE CodeInv'
<1>1. ASSUME NEW p \in Process, Setup(p) PROVE CodeInv'
  <2>1. CASE \/ Look(p) \/ Claim(p) \/ Previous(p) \/ Discover(p) \/ Reload(p)
             \/ EnableUnits(p) \/ Watch(p) \/ Bind(p) \/ AddRow(p)
    BY <2>1, OnwardCode
  <2>2. CASE Render(p) \/ Stage(p) \/ Aside(p) \/ Swap(p) \/ SwapFails(p)
    BY <2>2, RenderCode, StageCode, AsideCode, SwapCode, SwapFailsCode
  <2>3. CASE PutBack(p) \/ Discard(p) \/ Enable(p) \/ Mishap(p)
    BY <2>3, PutBackCode, DiscardCode, EnableCode, MishapCode
  <2>4. CASE Code(p) \/ Restart(p) \/ Stamp(p) \/ Serve(p) \/ Warn(p)
    BY <2>4, CodeCode, RestartCode, StampCode, ServeCode
  <2> QED
    BY <1>1, <2>1, <2>2, <2>3, <2>4 DEF Setup
<1>2. ASSUME NEW p \in Process, Begin(p) \/ Uninstall(p) \/ Die(p) PROVE CodeInv'
  BY <1>2, BeginCode, UninstallCode, MishapCode
<1>3. CASE Upgrade \/ CloneLock \/ DropLock \/ RestartShell
  BY <1>3, UpgradeCode, AloofCode, RestartShellCode
<1> QED
  BY <1>1, <1>2, <1>3, ElsewhereCode DEF Next

LEMMA InitCode == ASSUME Init PROVE CodeInv
<1>1. /\ target \in {Nothing, OwnLock} /\ compiled = target /\ stamp = Nothing
      /\ alone = Nothing
      /\ \A p \in Process : /\ pc[p] = "idle" /\ clone[p] = Nothing
                            /\ stage[p] = Nothing /\ rollback[p] = Nothing
  BY DEF Init
<1>2. Newest /\ compiled \in Content
  BY <1>1, ContentAssumption DEF Newest, Known, Content
<1>3. \A p \in Process : Order(p)
  BY <1>1 DEF Order, Rendered, SetupSteps, InPlace, InCharge
<1> QED
  BY <1>1, <1>2, <1>3 DEF CodeInv, Sole, Stamped, Installed, Done

(***************************************************************************)
(* After a setup that went well the shell runs the lock code that setup    *)
(* rendered, though a stamp that says so spares it the restart             *)
(* (reload_code, lock.rs:504-522): for any number of commands that came    *)
(* one at a time, however they failed and died, with any number of updates *)
(* and restarts of the shell in between.  The stamp is never ahead of what *)
(* the shell has compiled, and what it has compiled never ahead of what is *)
(* rendered next, so a stamp that equals the latter leaves no room.        *)
(***************************************************************************)
THEOREM ShellRunsWhatWasInstalled == Spec => []RunsWhatItInstalled
<1>1. Init => LockInv /\ CodeInv
  BY InitInv, InitCode
<1>2. LockInv /\ CodeInv /\ [Next]_vars => (LockInv /\ CodeInv)'
  BY NextInv, NextCode
<1>3. CodeInv => RunsWhatItInstalled
  BY DEF CodeInv, Installed, RunsWhatItInstalled
<1> QED
  BY <1>1, <1>2, <1>3, PTL DEF Spec

-----------------------------------------------------------------------------
(***************************************************************************)
(* The texts of the menu extension: of what is removed no block is left,   *)
(* and of what is added there is one.                                      *)
(***************************************************************************)
LEMMA MinInI ==
  ASSUME NEW I, I \subseteq Nat, I # {}
  PROVE  Text!Min(I) \in I /\ \A y \in I : Text!Min(I) <= y
<1>1. \E x \in I : \A y \in I : <<y, x>> \notin OpToRel(<, Nat)
  BY NatLessThanWellFounded, WFMin
<1>2. PICK x \in I : \A y \in I : ~(y < x)
  BY <1>1 DEF OpToRel
<1>3. \A y \in I : x <= y
  BY <1>2
<1> QED
  BY <1>3 DEF Text!Min

LEMMA MaxInI ==
  ASSUME NEW n \in Nat, NEW I, I \subseteq 1..n, I # {}
  PROVE  Text!Max(I) \in I /\ \A y \in I : y <= Text!Max(I)
<1> DEFINE J == {n - i : i \in I}
<1>1. J \subseteq Nat /\ J # {}
  <2>1. \A i \in I : n - i \in Nat
    OBVIOUS
  <2> QED
    BY <2>1
<1>2. PICK x \in I : Text!Min(J) = n - x
  BY <1>1, MinInI
<1>3. \A y \in I : n - y \in J
  OBVIOUS
<1>4. \A y \in I : n - x <= n - y
  BY <1>1, <1>2, <1>3, MinInI
<1>5. \A y \in I : x >= y
  BY <1>4
<1> QED
  BY <1>5 DEF Text!Max

\* What a search from the front finds, and from the back.
LEMMA FirstIs ==
  ASSUME NEW S, NEW doc \in Seq(S), NEW t
  PROVE  /\ Text!First(doc, t) \in 0..Len(doc)
         /\ Text!First(doc, t) # 0 =>
              /\ doc[Text!First(doc, t)] = t
              /\ \A i \in 1..Len(doc) : doc[i] = t => Text!First(doc, t) <= i
         /\ Text!First(doc, t) = 0 => \A i \in 1..Len(doc) : doc[i] # t
<1> DEFINE I == {i \in 1..Len(doc) : doc[i] = t}
<1>1. Text!First(doc, t) = IF I # {} THEN Text!Min(I) ELSE 0
  BY DEF Text!First, Text!SelectInSeq
<1>2. I \subseteq Nat /\ \A i : i \in I <=> i \in 1..Len(doc) /\ doc[i] = t
  OBVIOUS
<1>3. I # {} => Text!Min(I) \in I /\ \A y \in I : Text!Min(I) <= y
  BY <1>2, MinInI
<1>4. Len(doc) \in Nat
  OBVIOUS
<1> HIDE DEF I
<1>5. CASE I = {}
  BY <1>1, <1>2, <1>4, <1>5
<1>6. CASE I # {}
  BY <1>1, <1>2, <1>3, <1>4, <1>6
<1> QED
  BY <1>5, <1>6

LEMMA LastIs ==
  ASSUME NEW n \in Nat, NEW I, I \subseteq 1..n, NEW last, last = IF I # {} THEN Text!Max(I) ELSE 0
  PROVE  last \in 0..n /\ (last # 0 => last \in I) /\ \A i \in I : i <= last /\ last # 0
<1>1. I # {} => Text!Max(I) \in I /\ \A y \in I : y <= Text!Max(I)
  BY MaxInI
<1>2. CASE I = {}
  BY <1>2
<1>3. CASE I # {}
  <2>1. last \in I /\ \A i \in I : i <= last
    BY <1>1, <1>3
  <2>2. last \in 1..n
    BY <2>1
  <2> QED
    BY <2>1, <2>2
<1> QED
  BY <1>2, <1>3

LEMMA LastBraceIs ==
  ASSUME NEW S, NEW doc \in Seq(S)
  PROVE  /\ Text!LastBrace(doc) \in 0..Len(doc)
         /\ Text!LastBrace(doc) # 0 <=>
              \E i \in 1..Len(doc) : doc[i] \in {"close", "brace"} \union Text!Entry
         /\ Text!LastBrace(doc) # 0 =>
              doc[Text!LastBrace(doc)] \in {"close", "brace"} \union Text!Entry
         /\ \A i \in 1..Len(doc) :
              doc[i] \in {"close", "brace"} \union Text!Entry => i <= Text!LastBrace(doc)
<1> DEFINE I == {i \in 1..Len(doc) : doc[i] \in {"close", "brace"} \union Text!Entry}
           last == Text!LastBrace(doc)
<1>1. last = IF I # {} THEN Text!Max(I) ELSE 0
  BY DEF Text!LastBrace, Text!SelectLastInSeq
<1>2. I \subseteq 1..Len(doc) /\ Len(doc) \in Nat
  OBVIOUS
<1>3. \A i : i \in I <=> i \in 1..Len(doc) /\ doc[i] \in {"close", "brace"} \union Text!Entry
  OBVIOUS
<1> HIDE DEF I, last
<1>4. last \in 0..Len(doc) /\ (last # 0 => last \in I) /\ \A i \in I : i <= last /\ last # 0
  BY <1>1, <1>2, LastIs
<1> QED
  BY <1>3, <1>4 DEF last

\* The line ends, and the last token, that a search finds lie in the text.
LEMMA LineEndIs ==
  ASSUME NEW S, NEW doc \in Seq(S), NEW n \in 1..Len(doc)
  PROVE  /\ Text!Before(doc, n) \in Seq(S) /\ Len(Text!Before(doc, n)) = n - 1
         /\ Text!LineEndBefore(doc, n) \in 0..(n - 1)
         /\ n > 1 /\ doc[n - 1] = "nl" => Text!LineEndBefore(doc, n) = n - 1
<1>1. /\ Text!Before(doc, n) \in Seq(S) /\ Len(Text!Before(doc, n)) = n - 1
      /\ \A i \in 1..(n - 1) : Text!Before(doc, n)[i] = doc[i]
  BY SubSeqProperties DEF Text!Before
<1> DEFINE I == {i \in 1..(n - 1) : Text!Before(doc, n)[i] = "nl"}
           last == Text!LineEndBefore(doc, n)
<1>2. last = IF I # {} THEN Text!Max(I) ELSE 0
  BY <1>1 DEF Text!LineEndBefore, Text!SelectLastInSeq
<1>3. I \subseteq 1..(n - 1) /\ n - 1 \in Nat
  OBVIOUS
<1>4. n > 1 /\ doc[n - 1] = "nl" => n - 1 \in I
  BY <1>1
<1> HIDE DEF I, last
<1>5. last \in 0..(n - 1) /\ \A i \in I : i <= last
  BY <1>2, <1>3, LastIs
<1>6. ASSUME n - 1 \in I PROVE last = n - 1
  BY <1>5, <1>6
<1> QED
  BY <1>1, <1>4, <1>5, <1>6 DEF last

LEMMA LastMeaningfulIs ==
  ASSUME NEW S, NEW doc \in Seq(S)
  PROVE  /\ Text!LastMeaningful(doc) \in 0..Len(doc)
         /\ Text!LastMeaningful(doc) # 0 => doc[Text!LastMeaningful(doc)] \in Text!Meaningful
         /\ \A i \in 1..Len(doc) : doc[i] \in Text!Meaningful => i <= Text!LastMeaningful(doc)
<1> DEFINE I == {i \in 1..Len(doc) : doc[i] \in Text!Meaningful}
           last == Text!LastMeaningful(doc)
<1>1. last = IF I # {} THEN Text!Max(I) ELSE 0
  BY DEF Text!LastMeaningful, Text!SelectLastInSeq
<1>2. I \subseteq 1..Len(doc) /\ Len(doc) \in Nat
  OBVIOUS
<1>3. \A i : i \in I <=> i \in 1..Len(doc) /\ doc[i] \in Text!Meaningful
  OBVIOUS
<1> HIDE DEF I, last
<1>4. last \in 0..Len(doc) /\ (last # 0 => last \in I) /\ \A i \in I : i <= last
  BY <1>1, <1>2, LastIs
<1> QED
  BY <1>3, <1>4 DEF last

-----------------------------------------------------------------------------
(***************************************************************************)
(* Tokens in a text that is cut and put together.                          *)
(***************************************************************************)
Occurs(doc, t) == \E i \in 1..Len(doc) : doc[i] = t
Once(doc, t) == \A i, j \in 1..Len(doc) : doc[i] = t /\ doc[j] = t => i = j

LEMMA InPart ==
  ASSUME NEW S, NEW doc \in Seq(S), NEW m \in Nat \ {0}, NEW n \in Nat, n <= Len(doc)
  PROVE  /\ SubSeq(doc, m, n) \in Seq(S)
         /\ Len(SubSeq(doc, m, n)) = IF m <= n THEN n - m + 1 ELSE 0
         /\ \A i \in 1..Len(SubSeq(doc, m, n)) :
              m + i - 1 \in m..n /\ SubSeq(doc, m, n)[i] = doc[m + i - 1]
         /\ \A i \in m..n : SubSeq(doc, m, n)[i - m + 1] = doc[i]
<1>1. \A i \in m..n : doc[i] \in S
  OBVIOUS
<1>2. /\ SubSeq(doc, m, n) \in Seq(S)
      /\ Len(SubSeq(doc, m, n)) = IF m <= n THEN n - m + 1 ELSE 0
      /\ \A i \in 1..(n - m + 1) : SubSeq(doc, m, n)[i] = doc[m + i - 1]
  BY <1>1, SubSeqProperties
<1>3. ASSUME NEW i \in 1..Len(SubSeq(doc, m, n))
      PROVE  m + i - 1 \in m..n /\ i \in 1..(n - m + 1)
  BY <1>2
<1>4. ASSUME NEW i \in m..n
      PROVE  i - m + 1 \in 1..(n - m + 1) /\ m + (i - m + 1) - 1 = i
  OBVIOUS
<1>5. \A i \in m..n : SubSeq(doc, m, n)[i - m + 1] = doc[i]
  BY <1>2, <1>4
<1> QED
  BY <1>2, <1>3, <1>5

LEMMA InBoth ==
  ASSUME NEW S, NEW a \in Seq(S), NEW b \in Seq(S), NEW t
  PROVE  /\ a \o b \in Seq(S)
         /\ Occurs(a \o b, t) <=> Occurs(a, t) \/ Occurs(b, t)
         /\ Once(a, t) /\ ~Occurs(b, t) => Once(a \o b, t)
         /\ ~Occurs(a, t) /\ Once(b, t) => Once(a \o b, t)
<1>1. /\ a \o b \in Seq(S) /\ Len(a \o b) = Len(a) + Len(b)
      /\ \A i \in 1..(Len(a) + Len(b)) :
           (a \o b)[i] = IF i <= Len(a) THEN a[i] ELSE b[i - Len(a)]
  BY ConcatProperties
<1>2. Len(a) \in Nat /\ Len(b) \in Nat
  OBVIOUS
<1>3. \A i \in 1..Len(a) : (a \o b)[i] = a[i] /\ i \in 1..(Len(a) + Len(b))
  BY <1>1, <1>2
<1>4. \A i \in 1..Len(b) : (a \o b)[Len(a) + i] = b[i] /\ Len(a) + i \in 1..(Len(a) + Len(b))
  BY <1>1, <1>2
<1>5. \A i \in 1..(Len(a) + Len(b)) :
        \/ i \in 1..Len(a) /\ (a \o b)[i] = a[i]
        \/ i - Len(a) \in 1..Len(b) /\ (a \o b)[i] = b[i - Len(a)]
  BY <1>1, <1>2
<1>6. Occurs(a \o b, t) <=> Occurs(a, t) \/ Occurs(b, t)
  BY <1>1, <1>3, <1>4, <1>5 DEF Occurs
<1>7. ASSUME Once(a, t), ~Occurs(b, t) PROVE Once(a \o b, t)
  BY <1>1, <1>5, <1>7 DEF Occurs, Once
<1>8. ASSUME ~Occurs(a, t), Once(b, t) PROVE Once(a \o b, t)
  BY <1>1, <1>2, <1>5, <1>8 DEF Occurs, Once
<1> QED
  BY <1>1, <1>6, <1>7, <1>8

\* A part has no more of a token than the whole.
LEMMA PartHas ==
  ASSUME NEW S, NEW doc \in Seq(S), NEW m \in Nat \ {0}, NEW n \in Nat, n <= Len(doc), NEW t
  PROVE  /\ SubSeq(doc, m, n) \in Seq(S)
         /\ Occurs(SubSeq(doc, m, n), t) <=> \E i \in m..n : doc[i] = t
         /\ Once(doc, t) => Once(SubSeq(doc, m, n), t)
<1>1. SubSeq(doc, m, n) \in Seq(S) /\ Len(SubSeq(doc, m, n)) = IF m <= n THEN n - m + 1 ELSE 0
  BY InPart
<1>2. \A i \in 1..Len(SubSeq(doc, m, n)) :
        m + i - 1 \in m..n /\ SubSeq(doc, m, n)[i] = doc[m + i - 1]
  BY InPart
<1>3. \A i \in m..n : /\ SubSeq(doc, m, n)[i - m + 1] = doc[i]
                      /\ i - m + 1 \in 1..Len(SubSeq(doc, m, n))
  BY <1>1, InPart
<1>4. \A i \in m..n : i \in 1..Len(doc)
  OBVIOUS
<1> DEFINE part == SubSeq(doc, m, n)
<1>5. /\ \A i \in 1..Len(part) : m + i - 1 \in m..n /\ part[i] = doc[m + i - 1]
      /\ \A i \in m..n : part[i - m + 1] = doc[i] /\ i - m + 1 \in 1..Len(part)
  BY <1>2, <1>3
<1>6. part \in Seq(S)
  BY <1>1
<1> HIDE DEF part
<1>7. Occurs(part, t) <=> \E i \in m..n : doc[i] = t
  BY <1>5 DEF Occurs
<1>8. ASSUME Once(doc, t) PROVE Once(part, t)
  <2>1. SUFFICES ASSUME NEW i \in 1..Len(part), NEW j \in 1..Len(part), part[i] = t, part[j] = t
        PROVE  i = j
    BY DEF Once
  <2>2. m + i - 1 = m + j - 1
    BY <1>4, <1>5, <1>8, <2>1 DEF Once
  <2>3. i \in Int /\ j \in Int
    BY <1>6
  <2> QED
    BY <2>2, <2>3
<1> QED
  BY <1>6, <1>7, <1>8 DEF part

\* Where the block is cut out, both markers go.
LEMMA WithoutBlockText ==
  ASSUME NEW S, NEW doc \in Seq(S), Text!HasBlock(doc), ~Text!Malformed(doc),
         NEW t \in Text!Mark
  PROVE  /\ Text!WithoutBlock(doc) \in Seq(S)
         /\ Once(doc, t) => ~Occurs(Text!WithoutBlock(doc), t)
<1> DEFINE start == Text!First(doc, "start")
           end == Text!First(doc, "end")
           line == Text!LineEndBefore(doc, start)
           rest == SubSeq(doc, end, Len(doc))
           I == {i \in 1..Len(rest) : rest[i] = "nl"}
           last == IF I # {} THEN Text!Min(I) ELSE 0
           head == SubSeq(doc, 1, line)
           tail == IF last = 0 THEN <<>> ELSE SubSeq(rest, last + 1, Len(rest))
<1>1. Text!WithoutBlock(doc) = head \o tail
  BY DEF Text!WithoutBlock, Text!SelectInSeq
<1>2. /\ start \in 1..Len(doc) /\ end \in 1..Len(doc) /\ start < end
      /\ doc[start] = "start" /\ doc[end] = "end" /\ Len(doc) \in Nat
  BY FirstIs DEF Text!HasBlock, Text!Malformed
<1>3. line \in 0..(start - 1)
  BY <1>2, LineEndIs
<1>4. head \in Seq(S) /\ (Occurs(head, t) => \E i \in 1..line : doc[i] = t)
  BY <1>2, <1>3, PartHas
<1>5. /\ rest \in Seq(S) /\ Len(rest) = Len(doc) - end + 1
      /\ \A i \in 1..Len(rest) : rest[i] = doc[end + i - 1]
  BY <1>2, InPart
<1>6. I \subseteq 2..Len(rest)
  BY <1>2, <1>5
<1>7. last = 0 \/ last \in 2..Len(rest)
  <2>1. I \subseteq Nat
    BY <1>6
  <2>2. I # {} => Text!Min(I) \in I
    BY <2>1, MinInI
  <2> HIDE DEF I
  <2> QED
    BY <1>6, <2>2
<1> HIDE DEF start, end, line, rest, last, head
<1>8. /\ tail \in Seq(S)
      /\ Occurs(tail, t) => last # 0 /\ \E i \in (last + 1)..Len(rest) : rest[i] = t
  <2>1. CASE last = 0
    BY <2>1 DEF Occurs
  <2>2. CASE last # 0
    <3>1. last + 1 \in Nat \ {0} /\ Len(rest) \in Nat
      BY <1>2, <1>5, <1>7, <2>2
    <3> QED
      BY <1>5, <2>2, <3>1, PartHas
  <2> QED
    BY <2>1, <2>2
<1> HIDE DEF tail
<1>9. t = "start" \/ t = "end"
  BY DEF Text!Mark
<1>10. ASSUME Once(doc, t) PROVE ~Occurs(head, t) /\ ~Occurs(tail, t)
  <2>1. PICK at \in {start, end} : doc[at] = t /\ at \in 1..Len(doc)
    BY <1>2, <1>9
  <2>2. \A i \in 1..Len(doc) : doc[i] = t => i = at
    BY <1>10, <2>1 DEF Once
  <2>3. ~Occurs(head, t)
    BY <1>2, <1>3, <1>4, <2>1, <2>2
  <2>4. ASSUME Occurs(tail, t) PROVE FALSE
    <3>1. PICK i \in (last + 1)..Len(rest) : rest[i] = t /\ last \in 2..Len(rest)
      BY <1>7, <1>8, <2>4
    <3>2. i \in 1..Len(rest) /\ end + i - 1 \in 1..Len(doc) /\ end + i - 1 > end
      BY <1>2, <1>5, <3>1
    <3>3. doc[end + i - 1] = t
      BY <1>5, <3>1, <3>2
    <3>4. end + i - 1 = at
      BY <2>2, <3>2, <3>3
    <3> QED
      BY <1>2, <2>1, <3>2, <3>4
  <2> QED
    BY <2>3, <2>4
<1> QED
  BY <1>1, <1>4, <1>8, <1>10, InBoth

\* Taking one token out adds none.
LEMMA RemoveAtText ==
  ASSUME NEW S, NEW doc \in Seq(S), NEW at \in 1..Len(doc), NEW t
  PROVE  /\ Text!RemoveAt(doc, at) \in Seq(S)
         /\ Occurs(Text!RemoveAt(doc, at), t) => Occurs(doc, t)
<1> DEFINE head == SubSeq(doc, 1, at - 1)
           tail == SubSeq(doc, at + 1, Len(doc))
<1>1. /\ head \in Seq(S) /\ (Occurs(head, t) => Occurs(doc, t))
  BY PartHas DEF Occurs
<1>2. /\ tail \in Seq(S) /\ (Occurs(tail, t) => Occurs(doc, t))
  BY PartHas DEF Occurs
<1>3. Text!RemoveAt(doc, at) = head \o tail
  BY DEF Text!RemoveAt
<1> HIDE DEF head, tail
<1> QED
  BY <1>1, <1>2, <1>3, InBoth

LEMMA WithoutTrailingCommaText ==
  ASSUME NEW S, NEW doc \in Seq(S), NEW t
  PROVE  /\ Text!WithoutTrailingComma(doc) \in Seq(S)
         /\ Occurs(Text!WithoutTrailingComma(doc), t) => Occurs(doc, t)
<1> DEFINE at == Text!LastMeaningful(Text!Before(doc, Text!LastBrace(doc)))
<1>1. \/ Text!WithoutTrailingComma(doc) = doc
      \/ /\ Text!LastBrace(doc) # 0 /\ at # 0
         /\ Text!WithoutTrailingComma(doc) = Text!RemoveAt(doc, at)
  BY DEF Text!WithoutTrailingComma
<1>2. ASSUME Text!LastBrace(doc) # 0, at # 0 PROVE at \in 1..Len(doc)
  <2>1. Text!LastBrace(doc) \in 1..Len(doc)
    BY <1>2, LastBraceIs
  <2>2. /\ Text!Before(doc, Text!LastBrace(doc)) \in Seq(S)
        /\ Len(Text!Before(doc, Text!LastBrace(doc))) = Text!LastBrace(doc) - 1
    BY <2>1, LineEndIs
  <2>3. at \in 0..(Text!LastBrace(doc) - 1)
    BY <2>2, LastMeaningfulIs
  <2> QED
    BY <1>2, <2>1, <2>3
<1> HIDE DEF at
<1> QED
  BY <1>1, <1>2, RemoveAtText

\* What a removal leaves has no block; an entry adds one, and no other.
LEMMA RemovalText ==
  ASSUME NEW S, NEW doc \in Seq(S), ~Text!Malformed(doc)
  PROVE  /\ Text!RenderRemoval(doc) \in Seq(S)
         /\ Text!OneBlock(doc) =>
              \E t \in Text!Mark : ~Occurs(Text!RenderRemoval(doc), t)
<1>1. CASE ~Text!HasBlock(doc)
  <2>1. Text!RenderRemoval(doc) = doc
    BY <1>1 DEF Text!RenderRemoval
  <2>2. \E t \in Text!Mark : Text!First(doc, t) = 0
    BY <1>1 DEF Text!HasBlock, Text!Mark
  <2> QED
    BY <2>1, <2>2, FirstIs DEF Occurs
<1>2. CASE Text!HasBlock(doc)
  <2> DEFINE cut == Text!WithoutBlock(doc)
  <2>1. Text!RenderRemoval(doc) = Text!WithoutTrailingComma(cut)
    BY <1>2 DEF Text!RenderRemoval
  <2>2. cut \in Seq(S)
    BY <1>2, WithoutBlockText DEF Text!Mark
  <2>3. \A t \in Text!Mark : Once(doc, t) => ~Occurs(cut, t)
    BY <1>2, WithoutBlockText
  <2>4. Text!OneBlock(doc) => \E t \in Text!Mark : Once(doc, t)
    BY DEF Text!OneBlock, Once
  <2> HIDE DEF cut
  <2> QED
    BY <2>1, <2>2, <2>3, <2>4, WithoutTrailingCommaText
<1> QED
  BY <1>1, <1>2

LEMMA NoBlock ==
  ASSUME NEW S, NEW doc \in Seq(S)
  PROVE  Text!HasBlock(doc) <=> \A t \in Text!Mark : Occurs(doc, t)
<1>1. ASSUME NEW t PROVE Text!First(doc, t) # 0 <=> Occurs(doc, t)
  BY FirstIs DEF Occurs
<1> QED
  BY <1>1 DEF Text!HasBlock, Text!Mark

LEMMA WithCommaText ==
  ASSUME NEW S, {"comma"} \subseteq S, NEW doc \in Seq(S), Text!LastBrace(doc) # 0
  PROVE  /\ Text!WithComma(doc) \in Seq(S)
         /\ Text!LastBrace(Text!WithComma(doc)) # 0
         /\ \A t \in Text!Mark : Occurs(Text!WithComma(doc), t) => Occurs(doc, t)
<1> DEFINE at == Text!LastMeaningful(Text!Before(doc, Text!LastBrace(doc)))
           head == SubSeq(doc, 1, at)
           tail == SubSeq(doc, at + 1, Len(doc))
<1>1. CASE Text!WithComma(doc) = doc
  BY <1>1
<1>2. CASE at # 0 /\ Text!WithComma(doc) = Text!InsertAt(doc, at + 1, "comma")
  <2>1. Text!LastBrace(doc) \in 1..Len(doc)
    BY LastBraceIs
  <2>2. /\ Text!Before(doc, Text!LastBrace(doc)) \in Seq(S)
        /\ Len(Text!Before(doc, Text!LastBrace(doc))) = Text!LastBrace(doc) - 1
    BY <2>1, LineEndIs
  <2>3. at \in 0..(Text!LastBrace(doc) - 1)
    BY <2>2, LastMeaningfulIs
  <2>4. at \in 1..(Len(doc) - 1) /\ at + 1 - 1 = at
    BY <1>2, <2>1, <2>3
  <2> HIDE DEF at
  <2>5. Text!WithComma(doc) = head \o <<"comma">> \o tail
    BY <1>2, <2>4 DEF Text!InsertAt
  <2>6. ASSUME NEW t
        PROVE  head \in Seq(S) /\ (Occurs(head, t) <=> \E i \in 1..at : doc[i] = t)
    <3>1. 1 \in Nat \ {0} /\ at \in Nat /\ at <= Len(doc)
      BY <2>4
    <3> QED
      BY <3>1, PartHas
  <2>7. ASSUME NEW t
        PROVE  tail \in Seq(S) /\ (Occurs(tail, t) <=> \E i \in (at + 1)..Len(doc) : doc[i] = t)
    <3>1. at + 1 \in Nat \ {0} /\ Len(doc) \in Nat /\ Len(doc) <= Len(doc)
      BY <2>4
    <3> QED
      BY <3>1, PartHas
  <2> HIDE DEF head, tail
  <2>8. <<"comma">> \in Seq(S) /\ \A t : Occurs(<<"comma">>, t) <=> t = "comma"
    BY DEF Occurs
  <2>9. head \o <<"comma">> \in Seq(S)
    BY <2>6, <2>8, InBoth
  <2>10. \A t : /\ Text!WithComma(doc) \in Seq(S)
                /\ Occurs(Text!WithComma(doc), t) <=> t = "comma" \/ Occurs(doc, t)
    <3>1. \A t : Occurs(head, t) \/ Occurs(tail, t) <=> Occurs(doc, t)
      <4>1. \A i : i \in 1..Len(doc) <=> i \in 1..at \/ i \in (at + 1)..Len(doc)
        BY <2>4
      <4>2. ASSUME NEW t
            PROVE  Occurs(doc, t) <=> \/ \E i \in 1..at : doc[i] = t
                                     \/ \E i \in (at + 1)..Len(doc) : doc[i] = t
        BY <4>1 DEF Occurs
      <4> QED
        BY <2>6, <2>7, <4>2
    <3>2. \A t : Occurs(head \o <<"comma">>, t) <=> Occurs(head, t) \/ t = "comma"
      BY <2>6, <2>8, InBoth
    <3>3. \A t : /\ head \o <<"comma">> \o tail \in Seq(S)
                 /\ Occurs(head \o <<"comma">> \o tail, t) <=>
                      Occurs(head \o <<"comma">>, t) \/ Occurs(tail, t)
      BY <2>7, <2>9, InBoth
    <3> QED
      BY <2>5, <3>1, <3>2, <3>3
  <2>11. Text!LastBrace(Text!WithComma(doc)) # 0
    <3>1. PICK i \in 1..Len(doc) : doc[i] \in {"close", "brace"} \union Text!Entry
      BY LastBraceIs
    <3>2. Occurs(Text!WithComma(doc), doc[i])
      BY <2>10 DEF Occurs
    <3> QED
      BY <2>10, <3>1, <3>2, LastBraceIs DEF Occurs
  <2> QED
    BY <2>10, <2>11 DEF Text!Mark
<1> QED
  BY <1>1, <1>2 DEF Text!WithComma

LEMMA WithBlockText ==
  ASSUME NEW S, Text!Token \subseteq S, NEW doc \in Seq(S), Text!LastBrace(doc) # 0
  PROVE  /\ Text!WithBlock(doc) \in Seq(S)
         /\ \A t \in Text!Mark : /\ Occurs(Text!WithBlock(doc), t)
                                 /\ ~Occurs(doc, t) => Once(Text!WithBlock(doc), t)
<1> DEFINE line == Text!LineEndBefore(doc, Text!LastBrace(doc))
           at == IF line = 0 THEN Text!LastBrace(doc) ELSE line + 1
           head == SubSeq(doc, 1, at - 1)
           tail == SubSeq(doc, at, Len(doc))
<1>1. Text!LastBrace(doc) \in 1..Len(doc)
  BY LastBraceIs
<1>2. line \in 0..(Text!LastBrace(doc) - 1)
  BY <1>1, LineEndIs
<1>3. at \in 1..Len(doc)
  BY <1>1, <1>2
<1>4. Text!WithBlock(doc) = head \o Text!Block \o tail
  BY DEF Text!WithBlock, Text!Before
<1> HIDE DEF line, at
<1>5. \A t : head \in Seq(S) /\ (Occurs(head, t) => Occurs(doc, t))
  <2>1. at - 1 \in Nat /\ at - 1 <= Len(doc) /\ 1..(at - 1) \subseteq 1..Len(doc)
    BY <1>3
  <2> QED
    BY <2>1, PartHas DEF Occurs
<1>6. \A t : tail \in Seq(S) /\ (Occurs(tail, t) => Occurs(doc, t))
  <2>1. at \in Nat \ {0} /\ at..Len(doc) \subseteq 1..Len(doc)
    BY <1>3
  <2> QED
    BY <2>1, PartHas DEF Occurs
<1> HIDE DEF head, tail
<1>7. /\ Text!Block \in Seq(S)
      /\ \A t \in Text!Mark : Occurs(Text!Block, t) /\ Once(Text!Block, t)
  <2>1. {"start", "end", "nl", "rows"} \subseteq S
    BY DEF Text!Token, Text!Mark, Text!Meaningful, Text!Entry
  <2>2. Text!Block \in Seq(S) /\ Len(Text!Block) = 6
    BY <2>1 DEF Text!Block
  <2>3. /\ Text!Block[1] = "start" /\ Text!Block[2] = "nl" /\ Text!Block[3] = "rows"
        /\ Text!Block[4] = "nl" /\ Text!Block[5] = "end" /\ Text!Block[6] = "nl"
    BY DEF Text!Block
  <2>4. \A i \in 1..6 : i = 1 \/ i = 2 \/ i = 3 \/ i = 4 \/ i = 5 \/ i = 6
    OBVIOUS
  <2> QED
    BY <2>2, <2>3, <2>4 DEF Occurs, Once, Text!Mark
<1>8. head \o Text!Block \in Seq(S)
  BY <1>5, <1>7, InBoth
<1>9. Text!WithBlock(doc) \in Seq(S)
  BY <1>4, <1>6, <1>8, InBoth
<1>10. ASSUME NEW t \in Text!Mark
       PROVE  /\ Occurs(Text!WithBlock(doc), t)
              /\ ~Occurs(doc, t) => Once(Text!WithBlock(doc), t)
  <2>1. Occurs(head \o Text!Block, t)
    BY <1>5, <1>7, InBoth
  <2>2. ~Occurs(doc, t) => Once(head \o Text!Block, t)
    BY <1>5, <1>7, InBoth
  <2>3. Occurs((head \o Text!Block) \o tail, t)
    BY <1>6, <1>8, <2>1, InBoth
  <2>4. ~Occurs(tail, t) => (Once(head \o Text!Block, t) => Once((head \o Text!Block) \o tail, t))
    BY <1>6, <1>8, InBoth
  <2> QED
    BY <1>4, <1>6, <2>2, <2>3, <2>4
<1> QED
  BY <1>9, <1>10

LEMMA EntryText ==
  ASSUME NEW doc \in Seq(Text!Token), ~Text!Malformed(doc), ~Text!Unclosed(doc)
  PROVE  /\ Text!RenderEntry(doc) \in Seq(Text!Token) /\ Text!HasBlock(Text!RenderEntry(doc))
         /\ Text!OneBlock(doc) => Text!OneBlock(Text!RenderEntry(doc))
<1> DEFINE bare == Text!RenderRemoval(doc)
           ready == Text!WithComma(bare)
<1>1. bare \in Seq(Text!Token) /\ Text!LastBrace(bare) # 0
  BY RemovalText DEF Text!Unclosed
<1>2. Text!OneBlock(doc) => \E t \in Text!Mark : ~Occurs(bare, t)
  BY RemovalText
<1>3. Text!RenderEntry(doc) = Text!WithBlock(ready)
  BY DEF Text!RenderEntry
<1> HIDE DEF bare
<1>4. "comma" \in Text!Token
  BY DEF Text!Token, Text!Meaningful
<1>5. /\ ready \in Seq(Text!Token) /\ Text!LastBrace(ready) # 0
      /\ \A t \in Text!Mark : Occurs(ready, t) => Occurs(bare, t)
  BY <1>1, <1>4, WithCommaText
<1> HIDE DEF ready
<1> DEFINE done == Text!WithBlock(ready)
<1>6. /\ done \in Seq(Text!Token)
      /\ \A t \in Text!Mark : Occurs(done, t) /\ (~Occurs(ready, t) => Once(done, t))
  BY <1>5, WithBlockText
<1> HIDE DEF done
<1>7. Text!HasBlock(done)
  BY <1>6, NoBlock
<1>8. (\E t \in Text!Mark : Once(done, t)) => Text!OneBlock(done)
  BY <1>6 DEF Text!OneBlock, Once
<1> QED
  BY <1>2, <1>3, <1>5, <1>6, <1>7, <1>8 DEF done

-----------------------------------------------------------------------------
(***************************************************************************)
(* The tokens of some kinds in a text, which module MenuExtension collects *)
(* by a recursive function. What it collects is found by induction on the  *)
(* length, in the form of a first length where it fails.                   *)
(***************************************************************************)

\* What an induction on the length needs: a first place where it fails.
LEMMA NoFirst ==
  ASSUME NEW n \in Nat, NEW F, F \subseteq 0..n, 0 \notin F,
         \A m \in 1..n : m - 1 \notin F => m \notin F
  PROVE  F = {}
<1>1. SUFFICES ASSUME F # {} PROVE FALSE
  OBVIOUS
<1>2. PICK m \in F : \A k \in F : m <= k
  <2>1. F \subseteq Nat
    OBVIOUS
  <2> QED
    BY <1>1, <2>1, MinInI
<1>3. m \in 1..n
  BY <1>2
<1>4. m - 1 \notin F
  BY <1>2, <1>3
<1> QED
  BY <1>2, <1>3, <1>4

\* The function f collects, up to n, the tokens of these kinds.
Collects(f, doc, kinds, n) ==
  f = [i \in 0..n |->
         IF i = 0 THEN <<>>
         ELSE IF doc[i] \in kinds THEN Append(f[i - 1], doc[i]) ELSE f[i - 1]]

LEMMA SomeCollects ==
  ASSUME NEW doc, NEW kinds, NEW n \in Nat
  PROVE  \E f : Collects(f, doc, kinds, n)
<1> DEFINE F == {m \in 0..n : ~\E f : Collects(f, doc, kinds, m)}
<1>1. 0 \notin F
  <2>1. Collects([i \in 0..0 |-> <<>>], doc, kinds, 0)
    BY DEF Collects
  <2> QED
    BY <2>1
<1>2. ASSUME NEW m \in 1..n, m - 1 \notin F PROVE m \notin F
  <2>1. PICK f : Collects(f, doc, kinds, m - 1)
    BY <1>2
  <2> DEFINE last == IF doc[m] \in kinds THEN Append(f[m - 1], doc[m]) ELSE f[m - 1]
             g == [i \in 0..m |-> IF i = m THEN last ELSE f[i]]
  <2>2. \A i \in 0..(m - 1) : g[i] = f[i]
    OBVIOUS
  <2>3. g[m] = last /\ DOMAIN g = 0..m
    OBVIOUS
  <2>4. ASSUME NEW i \in 0..m
        PROVE  g[i] = IF i = 0 THEN <<>>
                      ELSE IF doc[i] \in kinds THEN Append(g[i - 1], doc[i]) ELSE g[i - 1]
    <3> HIDE DEF g, last
    <3>1. CASE i = m
      <4>1. i # 0 /\ g[i - 1] = f[i - 1]
        BY <2>2, <3>1
      <4> QED
        BY <2>3, <3>1, <4>1 DEF last
    <3>2. CASE i # m
      <4>1. i \in 0..(m - 1)
        BY <3>2
      <4>2. f[i] = IF i = 0 THEN <<>>
                   ELSE IF doc[i] \in kinds THEN Append(f[i - 1], doc[i]) ELSE f[i - 1]
        BY <2>1, <4>1 DEF Collects
      <4>3. i # 0 => i - 1 \in 0..(m - 1)
        BY <4>1
      <4> QED
        BY <2>2, <4>1, <4>2, <4>3
    <3> QED
      BY <3>1, <3>2
  <2>5. Collects(g, doc, kinds, m)
    BY <2>4 DEF Collects
  <2> QED
    BY <2>5
<1> HIDE DEF F
<1>3. F = {}
  <2>1. F \subseteq 0..n
    BY DEF F
  <2> QED
    BY <1>1, <1>2, <2>1, NoFirst
<1> QED
  BY <1>3 DEF F

LEMMA OneCollects ==
  ASSUME NEW doc, NEW more, NEW kinds, NEW n \in Nat, NEW m \in Nat, m <= n,
         \A i \in 1..m : doc[i] = more[i],
         NEW f, Collects(f, doc, kinds, m), NEW g, Collects(g, more, kinds, n)
  PROVE  f[m] = g[m]
<1> DEFINE F == {i \in 0..m : f[i] # g[i]}
<1>1. 0 \notin F
  BY DEF Collects
<1>2. ASSUME NEW i \in 1..m, i - 1 \notin F PROVE i \notin F
  <2>1. f[i - 1] = g[i - 1]
    BY <1>2, i - 1 \in 0..m
  <2>2. i \in 0..m /\ i \in 0..n /\ i # 0 /\ doc[i] = more[i]
    OBVIOUS
  <2>3. f[i] = IF doc[i] \in kinds THEN Append(f[i - 1], doc[i]) ELSE f[i - 1]
    BY <2>2 DEF Collects
  <2>4. g[i] = IF more[i] \in kinds THEN Append(g[i - 1], more[i]) ELSE g[i - 1]
    BY <2>2 DEF Collects
  <2> QED
    BY <2>1, <2>2, <2>3, <2>4
<1> HIDE DEF F
<1>3. F = {}
  <2>1. F \subseteq 0..m
    BY DEF F
  <2> QED
    BY <1>1, <1>2, <2>1, NoFirst
<1> QED
  BY <1>3 DEF F

LEMMA ThoseCollected ==
  ASSUME NEW S, NEW doc \in Seq(S), NEW kinds
  PROVE  \E f : Collects(f, doc, kinds, Len(doc)) /\ Text!Those(doc, kinds) = f[Len(doc)]
<1> DEFINE f == CHOOSE those : Collects(those, doc, kinds, Len(doc))
<1>1. Len(doc) \in Nat
  OBVIOUS
<1>2. Collects(f, doc, kinds, Len(doc))
  BY <1>1, SomeCollects
<1>3. Text!Those(doc, kinds) = f[Len(doc)]
  BY DEF Text!Those, Collects
<1> QED
  BY <1>2, <1>3

LEMMA ThoseEmpty == ASSUME NEW kinds PROVE Text!Those(<<>>, kinds) = <<>>
<1>1. <<>> \in Seq({}) /\ Len(<<>>) = 0
  BY EmptySeq
<1>2. PICK f : Collects(f, <<>>, kinds, 0) /\ Text!Those(<<>>, kinds) = f[0]
  BY <1>1, ThoseCollected
<1> QED
  BY <1>2 DEF Collects

LEMMA ThoseAppend ==
  ASSUME NEW S, NEW doc \in Seq(S), NEW t \in S, NEW kinds
  PROVE  Text!Those(Append(doc, t), kinds) =
           IF t \in kinds THEN Append(Text!Those(doc, kinds), t) ELSE Text!Those(doc, kinds)
<1> DEFINE n == Len(doc)
           more == Append(doc, t)
<1>1. /\ n \in Nat /\ more \in Seq(S) /\ Len(more) = n + 1 /\ more[n + 1] = t
      /\ \A i \in 1..n : more[i] = doc[i]
  BY AppendProperties
<1> HIDE DEF more, n
<1>2. PICK f : Collects(f, doc, kinds, n) /\ Text!Those(doc, kinds) = f[n]
  BY ThoseCollected DEF n
<1>3. PICK g : Collects(g, more, kinds, n + 1) /\ Text!Those(more, kinds) = g[n + 1]
  BY <1>1, ThoseCollected
<1>4. f[n] = g[n]
  BY <1>1, <1>2, <1>3, OneCollects
<1>5. g[n + 1] = IF more[n + 1] \in kinds THEN Append(g[n], more[n + 1]) ELSE g[n]
  <2>1. n + 1 \in 0..(n + 1) /\ n + 1 # 0 /\ n + 1 - 1 = n
    BY <1>1
  <2> DEFINE k == n + 1
  <2>2. k \in 0..(n + 1) /\ k # 0
    BY <2>1
  <2> HIDE DEF k
  <2>3. g[k] = IF more[k] \in kinds THEN Append(g[k - 1], more[k]) ELSE g[k - 1]
    BY <1>3, <2>2 DEF Collects
  <2>4. k - 1 = n
    BY <1>1 DEF k
  <2>5. g[k] = IF more[k] \in kinds THEN Append(g[n], more[k]) ELSE g[n]
    BY <2>3, <2>4
  <2> QED
    BY <2>5 DEF k
<1> QED
  BY <1>1, <1>2, <1>3, <1>4, <1>5 DEF more

\* What holds of the empty sequence and goes on with every token.
LEMMA SeqInduction ==
  ASSUME NEW S, NEW G, <<>> \in G, \A s \in Seq(S) : \A e \in S : s \in G => Append(s, e) \in G
  PROVE  Seq(S) \subseteq G
<1> SUFFICES ASSUME NEW s \in Seq(S) PROVE s \in G
  OBVIOUS
<1> DEFINE F == {n \in 0..Len(s) : SubSeq(s, 1, n) \notin G}
<1>1. 0 \notin F
  BY SubSeq(s, 1, 0) = <<>>
<1>2. ASSUME NEW n \in 1..Len(s), n - 1 \notin F PROVE n \notin F
  <2>1. SubSeq(s, 1, n - 1) \in G
    BY <1>2
  <2>2. SubSeq(s, 1, n - 1) \in Seq(S) /\ s[n] \in S
    BY SubSeqProperties
  <2>3. SubSeq(s, 1, n) = Append(SubSeq(s, 1, n - 1), s[n])
    BY <2>2, SubSeqRecursiveSecond, AppendIsConcat
  <2> QED
    BY <2>1, <2>2, <2>3
<1> HIDE DEF F
<1>3. F = {}
  <2>1. F \subseteq 0..Len(s) /\ Len(s) \in Nat
    BY DEF F
  <2> QED
    BY <1>1, <1>2, <2>1, NoFirst
<1>4. SubSeq(s, 1, Len(s)) \in G
  BY <1>3 DEF F
<1> QED
  BY <1>4, SubSeqFull

LEMMA ThoseType ==
  ASSUME NEW S, NEW doc \in Seq(S), NEW kinds
  PROVE  Text!Those(doc, kinds) \in Seq(S \intersect kinds)
<1> DEFINE G == {s \in Seq(S) : Text!Those(s, kinds) \in Seq(S \intersect kinds)}
<1>1. <<>> \in G
  BY ThoseEmpty, EmptySeq
<1>2. ASSUME NEW s \in Seq(S), NEW e \in S, s \in G PROVE Append(s, e) \in G
  <2>1. Append(s, e) \in Seq(S)
    OBVIOUS
  <2>2. Text!Those(s, kinds) \in Seq(S \intersect kinds)
    BY <1>2
  <2>3. e \in kinds => Append(Text!Those(s, kinds), e) \in Seq(S \intersect kinds)
    BY <2>2
  <2>4. Text!Those(Append(s, e), kinds) \in Seq(S \intersect kinds)
    BY <2>2, <2>3, ThoseAppend
  <2> QED
    BY <2>1, <2>4
<1> HIDE DEF G
<1>3. Seq(S) \subseteq G
  BY <1>1, <1>2, SeqInduction
<1> QED
  BY <1>3 DEF G

LEMMA ThoseIn ==
  ASSUME NEW S, NEW doc \in Seq(S), NEW kinds
  PROVE  Text!Those(doc, kinds) \in Seq(S)
<1>1. S \intersect kinds \subseteq S
  OBVIOUS
<1> QED
  BY <1>1, ThoseType, SeqMonotonic

LEMMA ThoseConcat ==
  ASSUME NEW S, NEW a \in Seq(S), NEW b \in Seq(S), NEW kinds
  PROVE  /\ Text!Those(a \o b, kinds) = Text!Those(a, kinds) \o Text!Those(b, kinds)
         /\ a \o b \in Seq(S)
<1> DEFINE A == Text!Those(a, kinds)
           G == {s \in Seq(S) : Text!Those(a \o s, kinds) = A \o Text!Those(s, kinds)}
<1>1. A \in Seq(S)
  BY ThoseIn
<1>2. <<>> \in G
  <2>1. a \o <<>> = a /\ A \o <<>> = A
    BY <1>1, ConcatEmptySeq
  <2> QED
    BY <2>1, ThoseEmpty, EmptySeq
<1>3. ASSUME NEW s \in Seq(S), NEW e \in S, s \in G PROVE Append(s, e) \in G
  <2> DEFINE B == Text!Those(s, kinds)
  <2>1. B \in Seq(S)
    BY ThoseIn
  <2>2. Append(s, e) \in Seq(S) /\ a \o s \in Seq(S)
    BY ConcatProperties
  <2>3. a \o Append(s, e) = Append(a \o s, e)
    BY <2>2, AppendIsConcat, ConcatAssociative, <<e>> \in Seq(S)
  <2>4. A \o Append(B, e) = Append(A \o B, e)
    <3>1. A \o B \in Seq(S)
      BY <1>1, <2>1, ConcatProperties
    <3> QED
      BY <1>1, <2>1, <3>1, AppendIsConcat, ConcatAssociative, <<e>> \in Seq(S)
  <2>5. Text!Those(a \o s, kinds) = A \o B
    BY <1>3
  <2> HIDE DEF A, B
  <2>6. Text!Those(Append(a \o s, e), kinds) =
          IF e \in kinds THEN Append(A \o B, e) ELSE A \o B
    BY <2>2, <2>5, ThoseAppend
  <2>7. Text!Those(Append(s, e), kinds) = IF e \in kinds THEN Append(B, e) ELSE B
    BY ThoseAppend DEF B
  <2>8. Text!Those(a \o Append(s, e), kinds) = A \o Text!Those(Append(s, e), kinds)
    BY <2>3, <2>4, <2>6, <2>7
  <2> QED
    BY <2>2, <2>8
<1> HIDE DEF G
<1>4. Seq(S) \subseteq G
  BY <1>2, <1>3, SeqInduction
<1> QED
  BY <1>4, ConcatProperties DEF G

LEMMA ThoseOne ==
  ASSUME NEW t, NEW kinds
  PROVE  Text!Those(<<t>>, kinds) = IF t \in kinds THEN <<t>> ELSE <<>>
<1>1. Append(<<>>, t) = <<t>> /\ <<>> \in Seq({t}) /\ t \in {t}
  BY EmptySeq
<1>2. Text!Those(Append(<<>>, t), kinds) =
        IF t \in kinds THEN Append(Text!Those(<<>>, kinds), t) ELSE Text!Those(<<>>, kinds)
  BY <1>1, ThoseAppend
<1> QED
  BY <1>1, <1>2, ThoseEmpty

LEMMA ThoseNone ==
  ASSUME NEW S, NEW doc \in Seq(S), NEW kinds
  PROVE  Text!Those(doc, kinds) = <<>> <=> \A i \in 1..Len(doc) : doc[i] \notin kinds
<1> DEFINE G == {s \in Seq(S) : Text!Those(s, kinds) = <<>> <=>
                                  \A i \in 1..Len(s) : s[i] \notin kinds}
<1>1. <<>> \in G
  BY ThoseEmpty, EmptySeq
<1>2. ASSUME NEW s \in Seq(S), NEW e \in S, s \in G PROVE Append(s, e) \in G
  <2> DEFINE more == Append(s, e)
  <2>1. /\ more \in Seq(S) /\ Len(more) = Len(s) + 1 /\ more[Len(s) + 1] = e
        /\ \A i \in 1..Len(s) : more[i] = s[i]
    BY AppendProperties
  <2>2. Text!Those(s, kinds) \in Seq(S)
    BY ThoseIn
  <2>3. Text!Those(s, kinds) = <<>> <=> \A i \in 1..Len(s) : s[i] \notin kinds
    BY <1>2
  <2>4. Text!Those(more, kinds) =
          IF e \in kinds THEN Append(Text!Those(s, kinds), e) ELSE Text!Those(s, kinds)
    BY ThoseAppend
  <2> HIDE DEF more
  <2>5. CASE e \in kinds
    <3>1. Text!Those(more, kinds) # <<>>
      BY <2>2, <2>4, <2>5, AppendProperties
    <3>2. ~\A i \in 1..Len(more) : more[i] \notin kinds
      <4>1. Len(s) + 1 \in 1..Len(more)
        BY <2>1
      <4> QED
        BY <2>1, <2>5, <4>1
    <3> QED
      BY <2>1, <3>1, <3>2 DEF more
  <2>6. CASE e \notin kinds
    <3>1. Text!Those(more, kinds) = <<>> <=> \A i \in 1..Len(s) : s[i] \notin kinds
      BY <2>3, <2>4, <2>6
    <3>2. (\A i \in 1..Len(s) : s[i] \notin kinds) <=> \A i \in 1..Len(more) : more[i] \notin kinds
      BY <2>1, <2>6
    <3> QED
      BY <2>1, <3>1, <3>2 DEF more
  <2> QED
    BY <2>5, <2>6
<1> HIDE DEF G
<1>3. Seq(S) \subseteq G
  BY <1>1, <1>2, SeqInduction
<1> QED
  BY <1>3 DEF G

-----------------------------------------------------------------------------
(***************************************************************************)
(* What two texts that are put together say, and how the shell reads them. *)
(***************************************************************************)

Said(doc) == Text!Those(doc, Text!Meaningful)
Joins(a, b) ==
  a # <<>> /\ b # <<>> /\ a[Len(a)] \in Text!Mark \union Text!Note => b[1] = "nl"

LEMMA Kinds ==
  /\ Text!Meaningful \intersect (Text!Mark \union Text!Note \union {"nl"}) = {}
  /\ (Own \union Text!Note) \intersect {"open", "close", "comma", "rows", "nl", "start", "end"} = {}
  /\ {"open", "close", "comma"} \intersect Text!Entry = {}
  /\ {"start", "end"} \intersect ({"close", "brace"} \union Text!Entry) = {}
  BY OwnAssumption DEF Text!Meaningful, Text!Mark, Text!Note, Text!Entry

\* The tokens of two texts put together.
LEMMA Parts ==
  ASSUME NEW S, NEW a \in Seq(S), NEW b \in Seq(S)
  PROVE  /\ a \o b \in Seq(S) /\ Len(a \o b) = Len(a) + Len(b)
         /\ Len(a) \in Nat /\ Len(b) \in Nat
         /\ DOMAIN (a \o b) = 1..(Len(a) + Len(b))
         /\ \A i \in 1..Len(a) : (a \o b)[i] = a[i]
         /\ \A i \in 1..Len(b) : (a \o b)[Len(a) + i] = b[i]
         /\ \A i \in 1..(Len(a) + Len(b)) : i \in 1..Len(a) \/ i - Len(a) \in 1..Len(b)
         /\ SubSeq(a \o b, 1, Len(a)) = a
         /\ SubSeq(a \o b, Len(a) + 1, Len(a) + Len(b)) = b
<1>1. /\ a \o b \in Seq(S) /\ Len(a \o b) = Len(a) + Len(b)
      /\ \A i \in 1..(Len(a) + Len(b)) :
           (a \o b)[i] = IF i <= Len(a) THEN a[i] ELSE b[i - Len(a)]
  BY ConcatProperties
<1>2. Len(a) \in Nat /\ Len(b) \in Nat /\ DOMAIN (a \o b) = 1..(Len(a) + Len(b))
  BY <1>1
<1> DEFINE c == a \o b
<1> HIDE DEF c
<1>3. \A i \in 1..Len(a) : c[i] = a[i]
  BY <1>1, <1>2 DEF c
<1>4. \A i \in 1..Len(b) : c[Len(a) + i] = b[i]
  BY <1>1, <1>2 DEF c
<1>5. \A i \in 1..(Len(a) + Len(b)) : i \in 1..Len(a) \/ i - Len(a) \in 1..Len(b)
  BY <1>2
<1>6. c \in Seq(S) /\ Len(c) = Len(a) + Len(b)
  BY <1>1 DEF c
<1>7. SubSeq(c, 1, Len(a)) = a
  <2>1. /\ SubSeq(c, 1, Len(a)) \in Seq(S) /\ Len(SubSeq(c, 1, Len(a))) = Len(a)
        /\ \A i \in 1..Len(a) : SubSeq(c, 1, Len(a))[i] = c[i]
    <3>1. \A i \in 1..Len(a) : c[i] \in S
      BY <1>3
    <3> QED
      BY <1>2, <3>1, SubSeqProperties
  <2> QED
    BY <1>3, <2>1, SeqEqual
<1>8. SubSeq(c, Len(a) + 1, Len(a) + Len(b)) = b
  <2> DEFINE d == SubSeq(c, Len(a) + 1, Len(a) + Len(b))
  <2>1. /\ d \in Seq(S) /\ Len(d) = Len(b)
        /\ \A i \in 1..Len(b) : d[i] = c[Len(a) + i]
    <3>1. \A i \in (Len(a) + 1)..(Len(a) + Len(b)) : c[i] \in S
      BY <1>2, <1>6
    <3>2. /\ d \in Seq(S)
          /\ Len(d) = IF Len(a) + 1 <= Len(a) + Len(b)
                      THEN Len(a) + Len(b) - (Len(a) + 1) + 1 ELSE 0
          /\ \A i \in 1..(Len(a) + Len(b) - (Len(a) + 1) + 1) : d[i] = c[Len(a) + 1 + i - 1]
      BY <1>2, <3>1, SubSeqProperties
    <3> HIDE DEF d
    <3> QED
      BY <1>2, <3>2
  <2> HIDE DEF d
  <2>2. d = b
    BY <1>4, <2>1, SeqEqual
  <2> QED
    BY <2>2 DEF d
<1> QED
  BY <1>1, <1>2, <1>3, <1>4, <1>5, <1>7, <1>8 DEF c

LEMMA LastOfBoth ==
  ASSUME NEW S, NEW a \in Seq(S), NEW b \in Seq(S), b # <<>>
  PROVE  a \o b # <<>> /\ (a \o b)[Len(a \o b)] = b[Len(b)]
<1>1. Len(b) \in 1..Len(b)
  BY EmptySeq
<1>2. (a \o b)[Len(a) + Len(b)] = b[Len(b)]
  BY <1>1, Parts
<1> QED
  BY <1>1, <1>2, Parts, ConcatEqualIffEmpty

LEMMA LinesJoin ==
  ASSUME NEW S, NEW a \in Seq(S), NEW b \in Seq(S)
  PROVE  Text!Lines(a \o b) <=> Text!Lines(a) /\ Text!Lines(b) /\ Joins(a, b)
<1> DEFINE c == a \o b
           Comment == Text!Mark \union Text!Note
<1>1. /\ Len(c) = Len(a) + Len(b) /\ Len(a) \in Nat /\ Len(b) \in Nat
      /\ \A i \in 1..Len(a) : c[i] = a[i]
      /\ \A i \in 1..Len(b) : c[Len(a) + i] = b[i]
      /\ \A i \in 1..(Len(a) + Len(b)) : i \in 1..Len(a) \/ i - Len(a) \in 1..Len(b)
  BY Parts
<1>2. DOMAIN c = 1..(Len(a) + Len(b)) /\ DOMAIN a = 1..Len(a) /\ DOMAIN b = 1..Len(b)
  BY Parts
<1>3. (a = <<>> <=> Len(a) = 0) /\ (b = <<>> <=> Len(b) = 0)
  BY EmptySeq
<1> HIDE DEF c, Comment
<1>4. ASSUME Text!Lines(c) PROVE Text!Lines(a) /\ Text!Lines(b) /\ Joins(a, b)
  <2>1. \A i \in 1..Len(c) : c[i] \in Comment => i = Len(c) \/ c[i + 1] = "nl"
    BY <1>1, <1>2, <1>4 DEF Text!Lines, Comment
  <2>2. ASSUME NEW i \in 1..Len(a), a[i] \in Comment PROVE i = Len(a) \/ a[i + 1] = "nl"
    <3>1. i \in 1..Len(c) /\ c[i] \in Comment
      BY <1>1, <2>2
    <3>2. i = Len(c) \/ c[i + 1] = "nl"
      BY <2>1, <3>1
    <3>3. i # Len(a) => i + 1 \in 1..Len(a) /\ i # Len(c)
      BY <1>1
    <3> QED
      BY <1>1, <3>2, <3>3
  <2>3. ASSUME NEW i \in 1..Len(b), b[i] \in Comment PROVE i = Len(b) \/ b[i + 1] = "nl"
    <3>1. Len(a) + i \in 1..Len(c)
      BY <1>1
    <3>2. c[Len(a) + i] \in Comment
      BY <1>1, <2>3
    <3>3. Len(a) + i = Len(c) \/ c[(Len(a) + i) + 1] = "nl"
      BY <2>1, <3>1, <3>2
    <3>4. /\ (Len(a) + i) + 1 = Len(a) + (i + 1) /\ (i # Len(b) => i + 1 \in 1..Len(b))
          /\ Len(a) + i = Len(c) => i = Len(b)
      BY <1>1
    <3> QED
      BY <1>1, <3>3, <3>4
  <2>4. ASSUME Len(a) # 0, Len(b) # 0, a[Len(a)] \in Comment PROVE b[1] = "nl"
    <3>1. Len(a) \in 1..Len(a) /\ 1 \in 1..Len(b) /\ Len(a) \in 1..Len(c) /\ Len(a) # Len(c)
      BY <1>1, <2>4
    <3>2. c[Len(a)] = a[Len(a)] /\ c[Len(a) + 1] = b[1]
      BY <1>1, <3>1
    <3> QED
      BY <2>1, <2>4, <3>1, <3>2
  <2> QED
    BY <1>2, <1>3, <2>2, <2>3, <2>4, Zenon DEF Text!Lines, Joins, Comment
<1>5. ASSUME Text!Lines(a), Text!Lines(b), Joins(a, b) PROVE Text!Lines(c)
  <2>1. SUFFICES ASSUME NEW i \in 1..Len(c), c[i] \in Comment PROVE i = Len(c) \/ c[i + 1] = "nl"
    BY <1>1, <1>2 DEF Text!Lines, Comment
  <2>2. CASE i \in 1..Len(a)
    <3>1. a[i] \in Comment
      BY <1>1, <2>1, <2>2
    <3>2. i = Len(a) \/ a[i + 1] = "nl"
      BY <1>2, <1>5, <2>2, <3>1, Zenon DEF Text!Lines, Comment
    <3>3. CASE i # Len(a)
      <4>1. i + 1 \in 1..Len(a)
        BY <1>1, <2>2, <3>3
      <4> QED
        BY <1>1, <3>2, <3>3, <4>1
    <3>4. CASE i = Len(a) /\ Len(b) # 0
      <4>1. b[1] = "nl"
        BY <1>1, <1>3, <1>5, <2>2, <3>1, <3>4 DEF Joins, Comment
      <4>2. 1 \in 1..Len(b) /\ c[Len(a) + 1] = b[1]
        BY <1>1, <3>4
      <4> QED
        BY <3>4, <4>1, <4>2
    <3>5. CASE i = Len(a) /\ Len(b) = 0
      BY <1>1, <3>5
    <3> QED
      BY <3>3, <3>4, <3>5
  <2>3. CASE i - Len(a) \in 1..Len(b)
    <3> DEFINE k == i - Len(a)
    <3>1. k \in 1..Len(b) /\ i = Len(a) + k
      BY <1>1, <2>3
    <3> HIDE DEF k
    <3>2. b[k] \in Comment
      BY <1>1, <2>1, <3>1
    <3>3. k = Len(b) \/ b[k + 1] = "nl"
      BY <1>2, <1>5, <3>1, <3>2, Zenon DEF Text!Lines, Comment
    <3>4. CASE k = Len(b)
      BY <1>1, <3>1, <3>4
    <3>5. CASE k # Len(b)
      <4>1. k + 1 \in 1..Len(b) /\ i + 1 = Len(a) + (k + 1)
        BY <1>1, <3>1, <3>5
      <4> QED
        BY <1>1, <3>3, <3>5, <4>1
    <3> QED
      BY <3>4, <3>5
  <2> QED
    BY <1>1, <2>2, <2>3
<1> QED
  BY <1>4, <1>5 DEF c

LEMMA UnmarkedJoin ==
  ASSUME NEW S, NEW a \in Seq(S), NEW b \in Seq(S)
  PROVE  Text!Unmarked(a \o b) <=> Text!Unmarked(a) /\ Text!Unmarked(b)
<1> DEFINE c == a \o b
<1>1. /\ Len(a) \in Nat /\ Len(b) \in Nat
      /\ \A i \in 1..Len(a) : c[i] = a[i]
      /\ \A i \in 1..Len(b) : c[Len(a) + i] = b[i]
      /\ \A i \in 1..(Len(a) + Len(b)) : i \in 1..Len(a) \/ i - Len(a) \in 1..Len(b)
  BY Parts
<1>2. DOMAIN c = 1..(Len(a) + Len(b)) /\ DOMAIN a = 1..Len(a) /\ DOMAIN b = 1..Len(b)
  BY Parts
<1> HIDE DEF c
<1>3. \A i \in 1..Len(a) : i \in 1..(Len(a) + Len(b))
  BY <1>1
<1>4. \A i \in 1..Len(b) : Len(a) + i \in 1..(Len(a) + Len(b))
  BY <1>1
<1>5. \A i \in 1..(Len(a) + Len(b)) : \/ i \in 1..Len(a) /\ c[i] = a[i]
                                      \/ i - Len(a) \in 1..Len(b) /\ c[i] = b[i - Len(a)]
  <2>1. \A i \in 1..(Len(a) + Len(b)) : i = Len(a) + (i - Len(a))
    BY <1>1
  <2> QED
    BY <1>1, <2>1
<1>6. Text!Unmarked(c) => Text!Unmarked(a) /\ Text!Unmarked(b)
  BY <1>1, <1>2, <1>3, <1>4 DEF Text!Unmarked
<1>7. Text!Unmarked(a) /\ Text!Unmarked(b) => Text!Unmarked(c)
  BY <1>2, <1>5 DEF Text!Unmarked
<1> QED
  BY <1>6, <1>7 DEF c

\* Where every comment ends its line, the shell reads the text as it stands.
LEMMA AsItStands ==
  ASSUME NEW S, NEW doc \in Seq(S), Text!Lines(doc)
  PROVE  Text!Uncommented(doc) = doc
<1>1. DOMAIN doc = 1..Len(doc) /\ Len(doc) \in Nat
  OBVIOUS
<1>2. ASSUME NEW i \in 1..Len(doc), NEW k \in 1..(i - 1), doc[k] \in Text!Mark \union Text!Note,
             \A j \in k..i : doc[j] # "nl"
      PROVE  FALSE
  <2>1. k \in Nat /\ i \in Nat /\ 1 <= k /\ k < i /\ i <= Len(doc)
    BY <1>1, <1>2
  <2>2. k \in 1..Len(doc) /\ k # Len(doc)
    BY <2>1, Len(doc) \in Nat
  <2>3. k + 1 \in k..i
    BY <2>1
  <2> QED
    BY <1>1, <1>2, <2>2, <2>3, Zenon DEF Text!Lines
<1>3. Text!Uncommented(doc) = [i \in DOMAIN doc |-> doc[i]]
  BY <1>1, <1>2 DEF Text!Uncommented
<1> QED
  BY <1>3

Brace == {"close", "brace"} \union Text!Entry

LEMMA Around ==
  ASSUME NEW S, NEW a \in Seq(S), NEW b \in Seq(S), NEW x \in S
  PROVE  LET c == a \o (<<x>> \o b)
             k == Len(a) + 1
         IN  /\ c \in Seq(S) /\ Len(c) = Len(a) + 1 + Len(b) /\ k \in 1..Len(c) /\ c[k] = x
             /\ SubSeq(c, 1, k - 1) = a /\ SubSeq(c, k + 1, Len(c)) = b
             /\ SubSeq(c, 1, k) = a \o <<x>>
             /\ \A i \in (k + 1)..Len(c) : i - k \in 1..Len(b) /\ c[i] = b[i - k]
<1> DEFINE c == a \o (<<x>> \o b)
           k == Len(a) + 1
           one == <<x>>
           ax == a \o one
<1>1. one \in Seq(S) /\ Len(one) = 1 /\ one[1] = x
  OBVIOUS
<1>2. c = ax \o b
  BY <1>1, ConcatAssociative
<1>3. /\ ax \in Seq(S) /\ Len(ax) = Len(a) + 1 /\ ax[Len(a) + 1] = x /\ SubSeq(ax, 1, Len(a)) = a
      /\ Len(a) \in Nat
  BY <1>1, Parts
<1> HIDE DEF ax, c
<1>4. /\ c \in Seq(S) /\ Len(c) = k + Len(b) /\ c[k] = x
      /\ SubSeq(c, 1, k) = ax /\ SubSeq(c, k + 1, k + Len(b)) = b /\ Len(b) \in Nat
      /\ \A i \in 1..Len(b) : c[k + i] = b[i]
  <2>1. k \in 1..Len(ax) /\ k = Len(ax)
    BY <1>3
  <2> HIDE DEF k
  <2>2. c \in Seq(S) /\ Len(c) = Len(ax) + Len(b) /\ Len(b) \in Nat
    BY <1>2, <1>3, Parts
  <2>3. \A i \in 1..Len(b) : c[Len(ax) + i] = b[i]
    BY <1>2, <1>3, Parts
  <2>4. \A i \in 1..Len(ax) : c[i] = ax[i]
    BY <1>2, <1>3, Parts
  <2>5. SubSeq(c, 1, Len(ax)) = ax /\ SubSeq(c, Len(ax) + 1, Len(ax) + Len(b)) = b
    BY <1>2, <1>3, Parts
  <2> QED
    BY <1>3, <2>1, <2>2, <2>3, <2>4, <2>5 DEF k
<1>5. /\ one \o b \in Seq(S)
  BY <1>1, Parts
<1>6. SubSeq(c, 1, Len(a)) = a
  BY <1>5, Parts DEF c
<1>7. Len(a) = k - 1 /\ k \in 1..Len(c)
  BY <1>3, <1>4
<1>8. \A i \in (k + 1)..Len(c) : i - k \in 1..Len(b) /\ i = k + (i - k)
  BY <1>3, <1>4
<1>9. \A i \in (k + 1)..Len(c) : c[i] = b[i - k]
  BY <1>4, <1>8
<1> QED
  BY <1>4, <1>6, <1>7, <1>8, <1>9, <1>3 DEF c, ax

LEMMA InsertAtIs ==
  ASSUME NEW c, NEW k \in Nat, NEW y
  PROVE  Text!InsertAt(c, k + 1, y) = SubSeq(c, 1, k) \o <<y>> \o SubSeq(c, k + 1, Len(c))
<1>1. (k + 1) - 1 = k
  OBVIOUS
<1>2. Text!InsertAt(c, k + 1, y) = SubSeq(c, 1, (k + 1) - 1) \o <<y>> \o SubSeq(c, k + 1, Len(c))
  BY DEF Text!InsertAt
<1> QED
  BY <1>1, <1>2

LEMMA SaidJoin ==
  ASSUME NEW S, NEW a \in Seq(S), NEW b \in Seq(S)
  PROVE  Said(a \o b) = Said(a) \o Said(b) /\ a \o b \in Seq(S) /\ Said(a) \in Seq(S)
<1> DEFINE M == Text!Meaningful
<1> HIDE DEF M
<1>1. Text!Those(a \o b, M) = Text!Those(a, M) \o Text!Those(b, M) /\ a \o b \in Seq(S)
  BY ThoseConcat
<1>2. Text!Those(a, M) \in Seq(S)
  BY ThoseIn
<1> QED
  BY <1>1, <1>2 DEF Said, M

\* A text whose last brace is the first token of its second part.
LEMMA BraceAt ==
  ASSUME NEW S, NEW a \in Seq(S), NEW b \in Seq(S), b # <<>>, b[1] \in Brace,
         \A i \in 2..Len(b) : b[i] \notin Brace
  PROVE  /\ Text!LastBrace(a \o b) = Len(a) + 1 /\ Len(a) + 1 \in 1..Len(a \o b)
         /\ Text!Before(a \o b, Len(a) + 1) = a
<1> DEFINE c == a \o b
           at == Text!LastBrace(c)
<1>1. /\ c \in Seq(S) /\ Len(c) = Len(a) + Len(b) /\ Len(a) \in Nat /\ Len(b) \in Nat
      /\ \A i \in 1..Len(b) : c[Len(a) + i] = b[i]
      /\ SubSeq(c, 1, Len(a)) = a
  BY Parts
<1>2. Len(b) >= 1
  BY EmptySeq
<1> HIDE DEF c
<1>3. /\ at \in 0..Len(c) /\ (at # 0 => c[at] \in Brace)
      /\ \A i \in 1..Len(c) : c[i] \in Brace => i <= at
  BY <1>1, LastBraceIs DEF Brace
<1> HIDE DEF at
<1>4. Len(a) + 1 \in 1..Len(c) /\ c[Len(a) + 1] = b[1]
  BY <1>1, <1>2
<1>5. Len(a) + 1 <= at
  BY <1>3, <1>4
<1>6. ~(at > Len(a) + 1)
  <2> SUFFICES ASSUME at > Len(a) + 1 PROVE FALSE
    OBVIOUS
  <2>1. at - Len(a) \in 2..Len(b) /\ at = Len(a) + (at - Len(a)) /\ at # 0
    BY <1>1, <1>3
  <2>2. c[at] = b[at - Len(a)]
    BY <1>1, <2>1
  <2> QED
    BY <1>3, <2>1, <2>2
<1>7. at = Len(a) + 1
  BY <1>1, <1>3, <1>5, <1>6
<1>8. Text!Before(c, Len(a) + 1) = a
  <2>1. Len(a) + 1 - 1 = Len(a)
    BY <1>1
  <2> QED
    BY <1>1, <2>1 DEF Text!Before
<1> QED
  BY <1>4, <1>7, <1>8 DEF c, at

\* The last token a text says something with.
LastSaid(doc, a, x, b) ==
  doc = a \o (<<x>> \o b) /\ Said(b) = <<>> /\ Said(doc) = Said(a) \o <<x>>

LEMMA SaidLast ==
  ASSUME NEW S, NEW doc \in Seq(S)
  PROVE  \/ Said(doc) = <<>>
         \/ \E a, b \in Seq(S), x \in Text!Meaningful : LastSaid(doc, a, x, b)
<1> DEFINE k == Text!LastMeaningful(doc)
           a == SubSeq(doc, 1, k - 1)
           b == SubSeq(doc, k + 1, Len(doc))
           M == Text!Meaningful
<1>1. /\ k \in 0..Len(doc) /\ (k # 0 => doc[k] \in M)
      /\ \A i \in 1..Len(doc) : doc[i] \in M => i <= k
  BY LastMeaningfulIs
<1>2. Len(doc) \in Nat
  OBVIOUS
<1> HIDE DEF k, M
<1>3. ASSUME k = 0 PROVE Said(doc) = <<>>
  <2>1. \A i \in 1..Len(doc) : doc[i] \notin M
    BY <1>1, <1>2, <1>3
  <2> QED
    BY <2>1, ThoseNone DEF Said, M
<1>4. ASSUME k # 0
      PROVE  /\ a \in Seq(S) /\ b \in Seq(S) /\ doc[k] \in S
             /\ doc = a \o (<<doc[k]>> \o b) /\ k = Len(a) + 1 /\ doc[k] \in M
             /\ Said(b) = <<>> /\ Said(doc) = Said(a) \o <<doc[k]>>
  <2>1. k \in 1..Len(doc) /\ doc[k] \in S /\ doc[k] \in M
    BY <1>1, <1>4
  <2>2. a \in Seq(S) /\ Len(a) = k - 1
    <3>1. /\ k - 1 \in Nat /\ k - 1 <= Len(doc) /\ 1 \in Nat \ {0}
          /\ 1 <= k - 1 => k - 1 - 1 + 1 = k - 1
          /\ (~(1 <= k - 1) => k - 1 = 0)
      BY <2>1
    <3>2. a \in Seq(S) /\ Len(a) = IF 1 <= k - 1 THEN k - 1 - 1 + 1 ELSE 0
      BY <3>1, InPart
    <3> QED
      BY <3>1, <3>2
  <2>3. /\ b \in Seq(S)
        /\ \A i \in 1..Len(b) : k + 1 + i - 1 \in (k + 1)..Len(doc) /\ b[i] = doc[k + 1 + i - 1]
    <3>1. k + 1 \in Nat \ {0} /\ Len(doc) \in Nat /\ Len(doc) <= Len(doc)
      BY <2>1
    <3> QED
      BY <3>1, InPart
  <2>4. doc = a \o (<<doc[k]>> \o b)
    <3>1. <<doc[k]>> \o b = SubSeq(doc, k, Len(doc))
      BY <2>1, SubSeqRecursiveFirst
    <3>2. a \o SubSeq(doc, k, Len(doc)) = SubSeq(doc, 1, Len(doc))
      <4>1. /\ 1 \in 1..(Len(doc) + 1) /\ k - 1 \in (1 - 1)..Len(doc)
            /\ Len(doc) \in (k - 1)..Len(doc) /\ (k - 1) + 1 = k
        BY <2>1
      <4> HIDE DEF a
      <4>2. SubSeq(doc, 1, k - 1) \o SubSeq(doc, (k - 1) + 1, Len(doc)) = SubSeq(doc, 1, Len(doc))
        BY <4>1, ConcatAdjacentSubSeq
      <4> QED
        BY <4>1, <4>2 DEF a
    <3> QED
      BY <3>1, <3>2, SubSeqFull
  <2>5. Said(b) = <<>>
    <3> HIDE DEF b
    <3>1. ASSUME NEW i \in 1..Len(b) PROVE b[i] \notin M
      <4> DEFINE n == k + 1 + i - 1
      <4>1. n \in 1..Len(doc) /\ ~(n <= k) /\ b[i] = doc[n]
        BY <2>1, <2>3, <3>1
      <4> HIDE DEF n, a
      <4> QED
        BY <1>1, <4>1
    <3>2. b \in Seq(S)
      BY <2>3
    <3>3. \A i \in 1..Len(b) : b[i] \notin M
      BY <3>1
    <3> QED
      BY <3>2, <3>3, ThoseNone DEF Said, M
  <2> DEFINE one == <<doc[k]>>
  <2>6. one \in Seq(S) /\ Said(one) = one
    BY <2>1, ThoseOne DEF Said, M
  <2> HIDE DEF a, b, one
  <2>7. Said(one \o b) = one /\ one \o b \in Seq(S)
    <3>1. b \in Seq(S)
      BY <2>3
    <3>2. Said(one \o b) = Said(one) \o Said(b) /\ one \o b \in Seq(S)
      BY <2>6, <3>1, SaidJoin
    <3> QED
      BY <2>5, <2>6, <3>2, ConcatEmptySeq
  <2>8. Said(a \o (one \o b)) = Said(a) \o one
    <3> DEFINE rest == one \o b
    <3>1. a \in Seq(S) /\ rest \in Seq(S) /\ Said(rest) = one
      BY <2>2, <2>7
    <3> HIDE DEF rest
    <3>2. Said(a \o rest) = Said(a) \o Said(rest)
      BY <3>1, SaidJoin
    <3> QED
      BY <3>1, <3>2 DEF rest
  <2>9. a \in Seq(S) /\ b \in Seq(S) /\ doc[k] \in S /\ k = Len(a) + 1
    BY <2>1, <2>2, <2>3
  <2>10. doc = a \o (one \o b)
    BY <2>4 DEF one
  <2> QED
    BY <2>1, <2>5, <2>8, <2>9, <2>10 DEF one
<1>5. ASSUME k # 0
      PROVE  \E c, d \in Seq(S), x \in M : LastSaid(doc, c, x, d)
  BY <1>4, <1>5 DEF LastSaid
<1> QED
  BY <1>3, <1>5 DEF k, M

LEMMA SaidAt ==
  ASSUME NEW S, NEW a \in Seq(S), NEW b \in Seq(S), NEW x \in S, x \in Text!Meaningful,
         Said(b) = <<>>
  PROVE  Text!LastMeaningful(a \o (<<x>> \o b)) = Len(a) + 1
<1> DEFINE c == a \o (<<x>> \o b)
           k == Len(a) + 1
           at == Text!LastMeaningful(c)
<1>1. /\ c \in Seq(S) /\ k \in 1..Len(c) /\ c[k] = x
      /\ \A i \in (k + 1)..Len(c) : i - k \in 1..Len(b) /\ c[i] = b[i - k]
  BY Around
<1> HIDE DEF c, k
<1>2. \A i \in 1..Len(b) : b[i] \notin Text!Meaningful
  BY ThoseNone DEF Said
<1>3. /\ at \in 0..Len(c) /\ (at # 0 => c[at] \in Text!Meaningful)
      /\ \A i \in 1..Len(c) : c[i] \in Text!Meaningful => i <= at
  BY <1>1, LastMeaningfulIs
<1> HIDE DEF at
<1>4. k <= at
  BY <1>1, <1>3
<1>5. at \notin (k + 1)..Len(c)
  BY <1>1, <1>2, <1>3
<1>6. at = k
  BY <1>1, <1>3, <1>4, <1>5
<1> QED
  BY <1>6 DEF at, c, k

\* The documents, as a set of their own: what is known of them is said by the
\* lemmas that follow, and not by what is known of sequences.
Docs == Seq(Text!Token)

LEMMA DocJoin ==
  ASSUME NEW a \in Docs, NEW b \in Docs
  PROVE  /\ a \o b \in Docs /\ Len(a \o b) = Len(a) + Len(b) /\ Len(a) \in Nat /\ Len(b) \in Nat
         /\ a \o <<>> = a /\ <<>> \o a = a
  BY Parts, ConcatEmptySeq DEF Docs

LEMMA DocAssoc ==
  ASSUME NEW a \in Docs, NEW b \in Docs, NEW c \in Docs
  PROVE  (a \o b) \o c = a \o (b \o c)
  BY ConcatAssociative DEF Docs

LEMMA DocAt ==
  ASSUME NEW a \in Docs, NEW b \in Docs
  PROVE  /\ \A i \in 1..Len(a) : (a \o b)[i] = a[i]
         /\ \A i \in 1..Len(b) : (a \o b)[Len(a) + i] = b[i]
  BY Parts DEF Docs

LEMMA DocCut ==
  ASSUME NEW a \in Docs, NEW b \in Docs
  PROVE  /\ SubSeq(a \o b, 1, Len(a)) = a
         /\ SubSeq(a \o b, Len(a) + 1, Len(a \o b)) = b
  BY Parts DEF Docs

LEMMA DocOne ==
  ASSUME NEW t \in Text!Token
  PROVE  <<t>> \in Docs /\ Len(<<t>>) = 1 /\ <<t>>[1] = t /\ <<t>> # <<>>
  BY DEF Docs

LEMMA DocLast ==
  ASSUME NEW a \in Docs, NEW b \in Docs
  PROVE  /\ b # <<>> => a \o b # <<>> /\ (a \o b)[Len(a \o b)] = b[Len(b)]
         /\ a # <<>> => Len(a) >= 1 /\ Len(a) \in 1..Len(a)
  BY LastOfBoth, EmptySeq DEF Docs

LEMMA DocSaid ==
  ASSUME NEW a \in Docs, NEW b \in Docs
  PROVE  /\ Said(a \o b) = Said(a) \o Said(b) /\ Said(a) \in Docs
         /\ Text!TheUsers(a \o b) = Text!TheUsers(a) \o Text!TheUsers(b)
         /\ Text!TheUsers(a) \in Docs
         /\ Text!Lines(a \o b) <=> Text!Lines(a) /\ Text!Lines(b) /\ Joins(a, b)
         /\ Text!Unmarked(a \o b) <=> Text!Unmarked(a) /\ Text!Unmarked(b)
<1>1. Said(a \o b) = Said(a) \o Said(b) /\ Said(a) \in Docs
  BY SaidJoin DEF Docs
<1>2. Text!TheUsers(a \o b) = Text!TheUsers(a) \o Text!TheUsers(b) /\ Text!TheUsers(a) \in Docs
  <2> DEFINE M == Own \union Text!Note
  <2> HIDE DEF M
  <2>1. Text!Those(a \o b, M) = Text!Those(a, M) \o Text!Those(b, M)
    BY ThoseConcat DEF Docs
  <2>2. Text!Those(a, M) \in Docs
    BY ThoseIn DEF Docs
  <2> QED
    BY <2>1, <2>2 DEF Text!TheUsers, M
<1>3. Text!Lines(a \o b) <=> Text!Lines(a) /\ Text!Lines(b) /\ Joins(a, b)
  BY LinesJoin DEF Docs
<1>4. Text!Unmarked(a \o b) <=> Text!Unmarked(a) /\ Text!Unmarked(b)
  BY UnmarkedJoin DEF Docs
<1> QED
  BY <1>1, <1>2, <1>3, <1>4

LEMMA DocTake ==
  ASSUME NEW a \in Docs, NEW b \in Docs, NEW x \in Text!Token
  PROVE  Text!RemoveAt(a \o (<<x>> \o b), Len(a) + 1) = a \o b
<1> DEFINE c == a \o (<<x>> \o b)
           k == Len(a) + 1
<1>1. SubSeq(c, 1, k - 1) = a /\ SubSeq(c, k + 1, Len(c)) = b
  BY Around DEF Docs
<1> HIDE DEF c, k
<1>2. Text!RemoveAt(c, k) = a \o b
  BY <1>1 DEF Text!RemoveAt
<1> QED
  BY <1>2 DEF c, k

\* With y put behind x.
Put(a, x, b, y) ==
  Text!InsertAt(a \o (<<x>> \o b), Len(a) + 1 + 1, y) = (a \o <<x>>) \o <<y>> \o b

LEMMA DocPut ==
  ASSUME NEW a \in Docs, NEW b \in Docs, NEW x \in Text!Token, NEW y \in Text!Token
  PROVE  Put(a, x, b, y)
<1> DEFINE c == a \o (<<x>> \o b)
           k == Len(a) + 1
<1>1. SubSeq(c, k + 1, Len(c)) = b /\ SubSeq(c, 1, k) = a \o <<x>> /\ k \in Nat
  BY Around DEF Docs
<1> HIDE DEF c, k
<1>2. Text!InsertAt(c, k + 1, y) = (a \o <<x>>) \o <<y>> \o b
  BY <1>1, InsertAtIs
<1> QED
  BY <1>2 DEF c, k, Put

LEMMA DocBrace ==
  ASSUME NEW a \in Docs, NEW b \in Docs, b # <<>>, b[1] \in Brace,
         \A i \in 2..Len(b) : b[i] \notin Brace
  PROVE  /\ Text!LastBrace(a \o b) = Len(a) + 1 /\ Len(a) + 1 \in 1..Len(a \o b)
         /\ Text!Before(a \o b, Len(a) + 1) = a
  BY BraceAt DEF Docs

LEMMA DocSaidAt ==
  ASSUME NEW a \in Docs, NEW b \in Docs, NEW x \in Text!Meaningful, Said(b) = <<>>
  PROVE  /\ Text!LastMeaningful(a \o (<<x>> \o b)) = Len(a) + 1
         /\ (a \o (<<x>> \o b))[Len(a) + 1] = x
         /\ Len(a) + 1 \in 1..Len(a \o (<<x>> \o b))
<1>1. x \in Text!Token
  BY DEF Text!Token
<1> QED
  BY <1>1, SaidAt, Around DEF Docs

LEMMA DocSaidLast ==
  ASSUME NEW doc \in Docs
  PROVE  \/ Said(doc) = <<>>
         \/ \E a, b \in Docs, x \in Text!Meaningful : LastSaid(doc, a, x, b)
  BY SaidLast DEF Docs

LEMMA DocLineEnd ==
  ASSUME NEW doc \in Docs, NEW n \in 1..Len(doc), n > 1, doc[n - 1] = "nl"
  PROVE  Text!LineEndBefore(doc, n) = n - 1
  BY LineEndIs DEF Docs

LEMMA DocFirst ==
  ASSUME NEW doc \in Docs, NEW t, NEW n \in 1..Len(doc), doc[n] = t,
         \A i \in 1..(n - 1) : doc[i] # t
  PROVE  Text!First(doc, t) = n
<1> DEFINE f == Text!First(doc, t)
<1>1. f \in 0..Len(doc) /\ (f = 0 => \A i \in 1..Len(doc) : doc[i] # t) /\ Len(doc) \in Nat
  BY FirstIs DEF Docs
<1>2. f # 0 => doc[f] = t /\ \A i \in 1..Len(doc) : doc[i] = t => f <= i
  BY FirstIs DEF Docs
<1> HIDE DEF f
<1>3. f # 0 /\ f <= n /\ doc[f] = t
  BY <1>1, <1>2
<1>4. f \notin 1..(n - 1)
  BY <1>3
<1>5. f = n
  BY <1>1, <1>3, <1>4
<1> QED
  BY <1>5 DEF f

LEMMA DocReads ==
  ASSUME NEW doc \in Docs, Text!Lines(doc)
  PROVE  Text!Parses(doc) <=> Text!Reads(Said(doc))
  BY AsItStands DEF Docs, Text!Parses, Said

LEMMA DocUnmarked ==
  ASSUME NEW doc \in Docs, Text!Unmarked(doc)
  PROVE  ~Text!HasBlock(doc)
<1>1. \A i \in 1..Len(doc) : doc[i] \notin Text!Mark
  BY DEF Docs, Text!Unmarked
<1>2. ~Occurs(doc, "start") /\ "start" \in Text!Mark
  BY <1>1 DEF Occurs, Text!Mark
<1> QED
  BY <1>2, NoBlock DEF Docs

-----------------------------------------------------------------------------
(***************************************************************************)
(* The edits of a document that is cut before its closing brace: the       *)
(* comma, the block and its removal.                                       *)
(***************************************************************************)

\* From the closing brace on.
Closing(T) ==
  /\ T \in Docs /\ T # <<>> /\ T[1] = "close" /\ Said(T) = <<"close">>
  /\ \A i \in 2..Len(T) : T[i] \notin Brace

LEMMA OneToken ==
  ASSUME NEW t
  PROVE  /\ Said(<<t>>) = IF t \in Text!Meaningful THEN <<t>> ELSE <<>>
         /\ Text!TheUsers(<<t>>) = IF t \in Own \union Text!Note THEN <<t>> ELSE <<>>
  BY ThoseOne DEF Said, Text!TheUsers

\* What a comma put behind the last entry, or taken from there, makes of H.
PutInto(H, T, G) == Text!WithComma(H \o T) = G \o T
TakenFrom(H, T, G) == Text!WithoutTrailingComma(H \o T) = G \o T

LEMMA CommaIs ==
  ASSUME NEW A \in Docs, NEW B \in Docs, NEW T, Closing(T),
         NEW x \in Text!Meaningful, NEW H, LastSaid(H, A, x, B)
  PROVE  /\ x \in {"open", "comma"} => PutInto(H, T, H)
         /\ x \notin {"open", "comma"} => PutInto(H, T, (A \o <<x>>) \o (<<"comma">> \o B))
         /\ x = "comma" => TakenFrom(H, T, A \o B)
         /\ x # "comma" => TakenFrom(H, T, H)
<1> DEFINE one == <<x>>
           comma == <<"comma">>
           k == Len(A) + 1
           doc == H \o T
<1>1. x \in Text!Token /\ "comma" \in Text!Token
  BY DEF Text!Token, Text!Meaningful
<1>2. one \in Docs /\ comma \in Docs
  BY <1>1, DocOne
<1>3. T \in Docs /\ T # <<>> /\ T[1] \in Brace /\ \A i \in 2..Len(T) : T[i] \notin Brace
  BY DEF Closing, Brace
<1>4. H = A \o (one \o B) /\ Said(B) = <<>>
  BY DEF LastSaid
<1>5. k \in 1..Len(H) /\ H[k] = x /\ Text!LastMeaningful(H) = k
  BY <1>4, DocSaidAt
<1>6. one \o B \in Docs /\ B \o T \in Docs /\ A \o one \in Docs
  BY <1>2, <1>3, DocJoin
<1>7. H \in Docs
  BY <1>6, <1>4, DocJoin
<1>8. k \in Nat /\ k # 0
  BY DocJoin
<1> HIDE DEF one
<1>9. doc = A \o (one \o (B \o T))
  <2>1. (A \o (one \o B)) \o T = A \o ((one \o B) \o T)
    BY <1>3, <1>6, DocAssoc
  <2>2. (one \o B) \o T = one \o (B \o T)
    BY <1>2, <1>3, DocAssoc
  <2> QED
    BY <1>4, <2>1, <2>2
<1>10. Text!RemoveAt(doc, k) = (A \o B) \o T
  <2>1. Text!RemoveAt(A \o (one \o (B \o T)), k) = A \o (B \o T)
    BY <1>1, <1>6, DocTake DEF one
  <2>2. A \o (B \o T) = (A \o B) \o T
    BY <1>3, DocAssoc
  <2> QED
    BY <1>9, <2>1, <2>2
<1>11. Text!InsertAt(doc, k + 1, "comma") = ((A \o one) \o (comma \o B)) \o T
  <2> DEFINE BT == B \o T
             C == A \o one
             CB == comma \o B
  <2>1. C \in Docs /\ BT \in Docs
    BY <1>6
  <2>2. CB \in Docs
    BY <1>2, DocJoin
  <2>3. comma \o BT = CB \o T
    BY <1>2, <1>3, DocAssoc
  <2>4. doc = A \o (one \o BT)
    BY <1>9
  <2> HIDE DEF BT, C, CB, doc, comma
  <2>5. Put(A, x, BT, "comma")
    BY <1>1, <2>1, DocPut
  <2> HIDE DEF k
  <2>6. Text!InsertAt(doc, k + 1, "comma") = (C \o comma) \o BT
    BY <2>4, <2>5 DEF one, comma, C, k, Put
  <2>7. (C \o comma) \o BT = C \o (comma \o BT)
    BY <1>2, <2>1, DocAssoc
  <2>8. C \o (CB \o T) = (C \o CB) \o T
    <3>1. C \in Docs /\ CB \in Docs /\ T \in Docs
      BY <1>3, <2>1, <2>2
    <3> QED
      BY <3>1, DocAssoc
  <2>9. Text!InsertAt(doc, k + 1, "comma") = (C \o CB) \o T
    BY <2>3, <2>6, <2>7, <2>8
  <2> QED
    BY <2>9 DEF C, CB
<1>12. Text!LastBrace(doc) = Len(H) + 1 /\ Text!Before(doc, Len(H) + 1) = H
  BY <1>3, <1>7, DocBrace
<1>13. doc[k] = x
  BY <1>3, <1>5, <1>7, DocAt
<1>14. Len(H) \in Nat
  BY <1>7, DocJoin
<1> HIDE DEF k, doc, comma
<1>15. Text!LastMeaningful(Text!Before(doc, Text!LastBrace(doc))) = k /\ Text!LastBrace(doc) # 0
  BY <1>5, <1>12, <1>14
<1>16. Text!WithComma(doc) =
         IF x \in {"open", "comma"} THEN doc ELSE Text!InsertAt(doc, k + 1, "comma")
  BY <1>8, <1>13, <1>15 DEF Text!WithComma
<1>17. Text!WithoutTrailingComma(doc) = IF x = "comma" THEN Text!RemoveAt(doc, k) ELSE doc
  BY <1>8, <1>13, <1>15 DEF Text!WithoutTrailingComma
<1> QED
  BY <1>10, <1>11, <1>16, <1>17 DEF doc, one, comma, PutInto, TakenFrom

LEMMA BlockIs ==
  ASSUME NEW H \in Docs, H # <<>>, H[Len(H)] = "nl", NEW T, Closing(T)
  PROVE  Text!WithBlock(H \o T) = H \o Text!Block \o T
<1> DEFINE doc == H \o T
           n == Len(H)
<1>1. T \in Docs /\ T # <<>> /\ T[1] \in Brace /\ \A i \in 2..Len(T) : T[i] \notin Brace
  BY DEF Closing, Brace
<1>2. n >= 1 /\ n \in 1..Len(H) /\ n \in Nat
  BY DocLast, DocJoin, <1>1
<1>3. /\ Text!LastBrace(doc) = n + 1 /\ n + 1 \in 1..Len(doc)
      /\ Text!Before(doc, n + 1) = H
  BY <1>1, DocBrace
<1>4. doc[n] = "nl" /\ SubSeq(doc, n + 1, Len(doc)) = T
  BY <1>1, <1>2, DocAt, DocCut
<1>5. doc \in Docs
  BY <1>1, DocJoin
<1> DEFINE m == n + 1
<1>6. m > 1 /\ m - 1 = n /\ m \in 1..Len(doc)
  BY <1>2, <1>3
<1> HIDE DEF m, n, doc
<1>7. Text!LineEndBefore(doc, m) = n
  BY <1>4, <1>5, <1>6, DocLineEnd
<1>8. Text!WithBlock(doc) = Text!Before(doc, n + 1) \o Text!Block \o SubSeq(doc, n + 1, Len(doc))
  <2>1. n # 0
    BY <1>2
  <2> QED
    BY <1>3, <1>7, <2>1 DEF Text!WithBlock, m
<1> QED
  BY <1>3, <1>4, <1>8 DEF doc

\* Rows on lines of their own are found, and cut out with their last line end.
LEMMA CutIs ==
  ASSUME NEW P \in Docs, P # <<>>, P[Len(P)] = "nl", Text!Unmarked(P),
         NEW R \in Docs, R # <<>>, R[1] = "start",
         \A i \in 2..Len(R) : R[i] \notin Text!Mark,
         NEW Q \in Docs
  PROVE  LET doc == (P \o R) \o (<<"end", "nl">> \o Q)
         IN  Text!HasBlock(doc) /\ Text!WithoutBlock(doc) = P \o Q
<1> DEFINE E == <<"end", "nl">>
           PR == P \o R
           EQ == E \o Q
           doc == PR \o EQ
           p == Len(P)
           n == Len(PR)
<1>1. E \in Docs /\ Len(E) = 2 /\ E[1] = "end" /\ E[2] = "nl"
  BY DEF Docs, Text!Token, Text!Mark
<1> HIDE DEF E
<1>2. p >= 1 /\ Len(R) >= 1 /\ p \in 1..p /\ 1 \in 1..Len(R) /\ p \in Nat /\ Len(R) \in Nat
  BY DocLast, DocJoin
<1>3. PR \in Docs /\ n = p + Len(R) /\ n \in Nat
  BY <1>2, DocJoin
<1>4. EQ \in Docs /\ Len(EQ) = 2 + Len(Q) /\ Len(Q) \in Nat
  BY <1>1, DocJoin
<1>5. doc \in Docs /\ Len(doc) = n + Len(EQ)
  BY <1>3, <1>4, DocJoin
<1>6. (\A i \in 1..p : PR[i] = P[i]) /\ \A i \in 1..Len(R) : PR[p + i] = R[i]
  BY DocAt
<1>7. EQ[1] = "end" /\ EQ[2] = "nl"
  <2>1. \A i \in 1..Len(E) : EQ[i] = E[i]
    BY <1>1, DocAt
  <2>2. 1 \in 1..Len(E) /\ 2 \in 1..Len(E)
    BY <1>1
  <2> QED
    BY <1>1, <2>1, <2>2
<1>8. (\A i \in 1..n : doc[i] = PR[i]) /\ \A i \in 1..Len(EQ) : doc[n + i] = EQ[i]
  BY <1>3, <1>4, DocAt
<1>9. SubSeq(doc, 1, p) = P
  <2> DEFINE REQ == R \o EQ
  <2>1. REQ \in Docs
    BY <1>4, DocJoin
  <2>2. doc = P \o REQ
    BY <1>4, DocAssoc
  <2> HIDE DEF REQ
  <2>3. SubSeq(P \o REQ, 1, p) = P
    BY <2>1, DocCut
  <2> QED
    BY <2>2, <2>3
<1>10. SubSeq(doc, n + 1, Len(doc)) = EQ
  BY <1>3, <1>4, DocCut
<1>11. SubSeq(EQ, 2 + 1, Len(EQ)) = Q
  BY <1>1, DocCut
<1> HIDE DEF PR, EQ, n, doc, p
<1>12. doc[p] = "nl" /\ doc[p + 1] = "start" /\ doc[n + 1] = "end"
  <2>1. p \in 1..n /\ p + 1 \in 1..n /\ 1 \in 1..Len(EQ)
    BY <1>2, <1>3, <1>4
  <2> QED
    BY <1>2, <1>6, <1>7, <1>8, <2>1 DEF p
<1>13. \A i \in 1..n : i # p + 1 => doc[i] \notin Text!Mark
  <2>1. SUFFICES ASSUME NEW i \in 1..n, i # p + 1 PROVE doc[i] \notin Text!Mark
    OBVIOUS
  <2>2. CASE i \in 1..p
    <3>1. DOMAIN P = 1..p
      BY DEF p, Docs
    <3> QED
      BY <1>6, <1>8, <2>2, <3>1 DEF Text!Unmarked
  <2>3. CASE i > p
    <3>1. i - p \in 2..Len(R) /\ i - p \in 1..Len(R) /\ i = p + (i - p)
      BY <1>2, <1>3, <2>1, <2>3
    <3>2. doc[i] = R[i - p]
      BY <1>6, <1>8, <2>1, <3>1
    <3> QED
      BY <3>1, <3>2
  <2> QED
    BY <1>2, <2>1, <2>2, <2>3
<1>14. Text!First(doc, "start") = p + 1 /\ p + 1 \in 1..Len(doc)
  <2> DEFINE m == p + 1
  <2>1. m \in 1..Len(doc) /\ doc[m] = "start"
    BY <1>2, <1>3, <1>4, <1>5, <1>12
  <2>2. \A i \in 1..(m - 1) : i \in 1..n /\ i # p + 1
    BY <1>2, <1>3
  <2> HIDE DEF m
  <2>3. \A i \in 1..(m - 1) : doc[i] # "start"
    BY <1>13, <2>2 DEF Text!Mark
  <2>4. Text!First(doc, "start") = m
    BY <1>5, <2>1, <2>3, DocFirst
  <2> QED
    BY <2>1, <2>4 DEF m
<1>15. Text!First(doc, "end") = n + 1
  <2> DEFINE m == n + 1
  <2>1. m \in 1..Len(doc) /\ doc[m] = "end" /\ m - 1 = n
    BY <1>2, <1>3, <1>4, <1>5, <1>12
  <2> HIDE DEF m
  <2>2. \A i \in 1..n : doc[i] # "end"
    BY <1>12, <1>13 DEF Text!Mark
  <2>3. Text!First(doc, "end") = m
    BY <1>5, <2>1, <2>2, DocFirst
  <2> QED
    BY <2>3 DEF m
<1>16. Text!LineEndBefore(doc, p + 1) = p
  <2> DEFINE m == p + 1
  <2>1. m > 1 /\ m - 1 = p /\ m \in 1..Len(doc)
    BY <1>2, <1>14
  <2> HIDE DEF m
  <2>2. Text!LineEndBefore(doc, m) = m - 1
    BY <1>5, <1>12, <2>1, DocLineEnd
  <2> QED
    BY <2>1, <2>2 DEF m
<1>17. Text!SelectInSeq(EQ, LAMBDA t : t = "nl") = 2
  <2>1. Text!First(EQ, "nl") = 2
    <3>1. 2 \in 1..Len(EQ) /\ \A i \in 1..(2 - 1) : EQ[i] # "nl"
      BY <1>4, <1>7
    <3> QED
      BY <1>4, <1>7, <3>1, DocFirst
  <2> QED
    BY <2>1 DEF Text!First
<1>18. Text!HasBlock(doc)
  BY <1>2, <1>3, <1>14, <1>15 DEF Text!HasBlock
<1>19. Text!WithoutBlock(doc) = SubSeq(doc, 1, p) \o SubSeq(EQ, 2 + 1, Len(EQ))
  <2> DEFINE start == Text!First(doc, "start")
             end == Text!First(doc, "end")
             rest == SubSeq(doc, end, Len(doc))
             last == Text!SelectInSeq(rest, LAMBDA t : t = "nl")
  <2>1. Text!WithoutBlock(doc) = SubSeq(doc, 1, Text!LineEndBefore(doc, start)) \o
          IF last = 0 THEN <<>> ELSE SubSeq(rest, last + 1, Len(rest))
    BY DEF Text!WithoutBlock
  <2>2. start = p + 1 /\ rest = EQ
    BY <1>10, <1>14, <1>15
  <2>3. last = 2
    BY <1>17, <2>2
  <2> HIDE DEF start, rest, last
  <2>4. Text!LineEndBefore(doc, start) = p
    BY <1>16, <2>2
  <2>5. SubSeq(rest, last + 1, Len(rest)) = SubSeq(EQ, 2 + 1, Len(EQ)) /\ last # 0
    BY <2>2, <2>3
  <2> QED
    BY <2>1, <2>4, <2>5
<1> QED
  BY <1>9, <1>11, <1>18, <1>19 DEF doc, PR, EQ, E

-----------------------------------------------------------------------------
(***************************************************************************)
(* What the shell reads before the closing brace: entries with commas      *)
(* between them.                                                           *)
(***************************************************************************)

\* What the shell reads before the closing brace.
Begun(w) ==
  /\ Len(w) >= 1 /\ w[1] = "open" /\ (Len(w) = 1 \/ Len(w) % 2 = 0)
  /\ \A i \in 2..Len(w) : IF i % 2 = 0 THEN w[i] \in Text!Entry ELSE w[i] = "comma"

LEMMA ReadsBegun ==
  ASSUME NEW w \in Docs
  PROVE  /\ Begun(w) => Text!Reads(w \o <<"close">>)
         /\ Text!Reads(w \o <<"close">>) => Begun(w)
<1> DEFINE c == w \o <<"close">>
           n == Len(w)
<1>1. "close" \in Text!Token
  BY DEF Text!Token, Text!Meaningful
<1>2. <<"close">> \in Docs /\ Len(<<"close">>) = 1 /\ <<"close">>[1] = "close"
  BY <1>1, DocOne
<1>3. Len(c) = n + 1 /\ n \in Nat
  BY <1>2, DocJoin
<1>4. (\A i \in 1..n : c[i] = w[i]) /\ \A i \in 1..1 : c[n + i] = <<"close">>[i]
  BY <1>2, DocAt
<1>5. c[n + 1] = "close"
  BY <1>2, <1>4
<1> HIDE DEF c, n
<1>6. Text!Reads(c) <=> /\ n + 1 >= 2 /\ c[1] = "open"
                        /\ n + 1 = 2 \/ (n + 1) % 2 = 1
                        /\ \A i \in 2..n : IF i % 2 = 0 THEN c[i] \in Text!Entry ELSE c[i] = "comma"
  <2>1. (n + 1) - 1 = n
    BY <1>3
  <2> QED
    BY <1>3, <1>5, <2>1 DEF Text!Reads
<1>7. n >= 1 => c[1] = w[1]
  BY <1>3, <1>4
<1>8. \A i \in 2..n : c[i] = w[i]
  BY <1>3, <1>4
<1>9. n + 1 >= 2 <=> n >= 1
  BY <1>3
<1>10. n + 1 = 2 <=> n = 1
  BY <1>3
<1>11. (n + 1) % 2 = 1 <=> n % 2 = 0
  BY <1>3
<1> QED
  BY <1>6, <1>7, <1>8, <1>9, <1>10, <1>11 DEF Begun, c, n

LEMMA BegunLast ==
  ASSUME NEW w \in Docs, NEW x \in Text!Token, Begun(w \o <<x>>)
  PROVE  (w = <<>> /\ x = "open") \/ (x \in Text!Entry /\ w # <<>>)
<1> DEFINE c == w \o <<x>>
           n == Len(w)
<1>1. <<x>> \in Docs /\ Len(<<x>>) = 1 /\ <<x>>[1] = x
  BY DocOne
<1>2. Len(c) = n + 1 /\ n \in Nat
  BY <1>1, DocJoin
<1>3. \A i \in 1..1 : c[n + i] = <<x>>[i]
  BY <1>1, DocAt
<1>4. c[n + 1] = x
  BY <1>1, <1>3
<1>5. n = 0 <=> w = <<>>
  BY DEF Docs
<1> HIDE DEF c, n
<1>6. Begun(c)
  BY DEF c
<1>7. CASE n = 0
  BY <1>4, <1>5, <1>6, <1>7 DEF Begun
<1>8. CASE n # 0
  <2>1. n + 1 \in 2..Len(c) /\ (n + 1) % 2 = 0
    BY <1>2, <1>6, <1>8 DEF Begun
  <2> QED
    BY <1>4, <1>5, <1>6, <1>8, <2>1 DEF Begun
<1> QED
  BY <1>7, <1>8

\* An entry more, behind a comma where there is one before it.
LEMMA BegunMore ==
  ASSUME NEW w \in Docs, Begun(w), NEW x \in Text!Entry
  PROVE  /\ w = <<"open">> => Begun(w \o <<x>>)
         /\ w # <<"open">> => Begun((w \o <<"comma">>) \o <<x>>)
<1> DEFINE n == Len(w)
           comma == <<"comma">>
           one == <<x>>
<1>1. x \in Text!Token /\ "comma" \in Text!Token
  BY DEF Text!Token, Text!Meaningful
<1>2. /\ one \in Docs /\ Len(one) = 1 /\ one[1] = x
      /\ comma \in Docs /\ Len(comma) = 1 /\ comma[1] = "comma"
  BY <1>1, DocOne
<1>3. n \in Nat /\ n >= 1 /\ w[1] = "open" /\ (n = 1 \/ n % 2 = 0)
  BY DocJoin DEF Begun
<1>4. \A i \in 2..n : IF i % 2 = 0 THEN w[i] \in Text!Entry ELSE w[i] = "comma"
  BY DEF Begun
<1>5. n = 1 <=> w = <<"open">>
  BY <1>3 DEF Docs
<1> HIDE DEF one, comma, n
<1>6. ASSUME n = 1 PROVE Begun(w \o one)
  <2> DEFINE c == w \o one
  <2>1. Len(c) = n + 1
    BY <1>2, DocJoin DEF n
  <2>2. \A i \in 1..n : c[i] = w[i]
    BY <1>2, DocAt DEF n
  <2>3. \A i \in 1..1 : c[n + i] = one[i]
    BY <1>2, DocAt DEF n
  <2>4. c[1] = "open" /\ c[2] = x /\ Len(c) = 2
    <3>1. 1 \in 1..n /\ 1 \in 1..1 /\ n + 1 = 2
      BY <1>6
    <3> QED
      BY <1>2, <1>3, <2>1, <2>2, <2>3, <3>1
  <2> HIDE DEF c
  <2>5. 2 % 2 = 0 /\ \A i \in 2..2 : i = 2
    OBVIOUS
  <2>6. Begun(c)
    BY <2>4, <2>5 DEF Begun
  <2> QED
    BY <2>6 DEF c
<1>7. ASSUME n # 1 PROVE Begun((w \o comma) \o one)
  <2> DEFINE b == w \o comma
             c == b \o one
             m == n + 1
  <2>1. b \in Docs /\ Len(b) = m
    BY <1>2, DocJoin DEF n
  <2>2. \A i \in 1..n : b[i] = w[i]
    BY <1>2, DocAt DEF n
  <2>3. \A i \in 1..1 : b[n + i] = comma[i]
    BY <1>2, DocAt DEF n
  <2>4. b[n + 1] = "comma"
    BY <1>2, <2>3, 1 \in 1..1
  <2> HIDE DEF b
  <2>5. Len(c) = m + 1 /\ m \in Nat
    BY <1>2, <2>1, DocJoin
  <2>6. \A i \in 1..m : c[i] = b[i]
    BY <1>2, <2>1, DocAt
  <2>7. \A i \in 1..1 : c[m + i] = one[i]
    BY <1>2, <2>1, DocAt
  <2>8. c[m + 1] = x
    BY <1>2, <2>7, 1 \in 1..1
  <2> HIDE DEF c
  <2>9. n % 2 = 0 /\ m % 2 = 1 /\ (m + 1) % 2 = 0
    BY <1>3, <1>7
  <2>10. c[1] = "open"
    BY <1>3, <2>2, <2>6
  <2>11. ASSUME NEW i \in 2..Len(c)
         PROVE  IF i % 2 = 0 THEN c[i] \in Text!Entry ELSE c[i] = "comma"
    <3>1. CASE i \in 2..n
      <4>1. c[i] = w[i]
        BY <1>3, <2>2, <2>6, <3>1
      <4> QED
        BY <1>4, <3>1, <4>1
    <3>2. CASE i = n + 1
      <4>1. c[i] = "comma"
        BY <1>3, <2>4, <2>6, <3>2
      <4> QED
        BY <2>9, <3>2, <4>1
    <3>3. CASE i = m + 1
      BY <2>8, <2>9, <3>3
    <3> QED
      BY <1>3, <2>5, <3>1, <3>2, <3>3
  <2>12. Begun(c)
    BY <1>3, <2>5, <2>9, <2>10, <2>11 DEF Begun
  <2> QED
    BY <2>12 DEF b, c
<1> QED
  BY <1>5, <1>6, <1>7 DEF one, comma

\* An entry less, with the comma before it.
LEMMA BegunLess ==
  ASSUME NEW w \in Docs, NEW x \in Text!Entry, Begun(w \o <<x>>)
  PROVE  \/ Begun(w) /\ w = <<"open">>
         \/ \E v \in Docs : w = v \o <<"comma">> /\ Begun(v)
<1> DEFINE c == w \o <<x>>
           n == Len(w)
           v == SubSeq(w, 1, n - 1)
<1>1. x \in Text!Token
  BY DEF Text!Token, Text!Meaningful
<1>2. <<x>> \in Docs /\ Len(<<x>>) = 1
  BY <1>1, DocOne
<1>3. Len(c) = n + 1 /\ n \in Nat
  BY <1>2, DocJoin
<1>4. \A i \in 1..n : c[i] = w[i]
  BY <1>2, DocAt
<1>5. w # <<>>
  BY <1>1, BegunLast, Kinds
<1>6. n >= 1
  BY <1>5, DocLast
<1> HIDE DEF c, n
<1>7. Begun(c)
  BY DEF c
<1>8. w[1] = "open" /\ (n + 1) % 2 = 0
  BY <1>3, <1>4, <1>6, <1>7 DEF Begun
<1>9. \A i \in 2..n : IF i % 2 = 0 THEN w[i] \in Text!Entry ELSE w[i] = "comma"
  BY <1>3, <1>4, <1>7 DEF Begun
<1>10. CASE n = 1
  <2>1. w = <<"open">>
    BY <1>8, <1>10 DEF n, Docs
  <2>2. \A i \in 2..n : FALSE
    BY <1>10
  <2>3. Begun(w)
    BY <1>8, <1>10, <2>2 DEF Begun, n
  <2> QED
    BY <2>1, <2>3
<1>11. CASE n # 1
  <2> DEFINE k == n - 1
  <2>1. k \in Nat /\ k >= 2 /\ k % 2 = 0 /\ n % 2 = 1 /\ n \in 2..n
    BY <1>3, <1>6, <1>8, <1>11
  <2>2. w[n] = "comma"
    BY <1>9, <2>1
  <2>3. v \in Docs /\ Len(v) = k /\ w = v \o <<w[n]>>
    <3>1. n \in 1..Len(w) /\ 1 \in 1..Len(w) /\ n \in 1..Len(w)
      BY <1>6, <1>3 DEF n
    <3>2. SubSeq(w, 1, n) = v \o <<w[n]>>
      BY <1>6, <3>1, SubSeqRecursiveSecond DEF Docs
    <3>3. SubSeq(w, 1, n) = w
      BY SubSeqFull DEF Docs, n
    <3>4. v \in Docs /\ Len(v) = k
      <4>1. k <= Len(w) /\ 1 \in Nat \ {0} /\ k - 1 + 1 = k
        BY <2>1, <3>1
      <4> QED
        BY <2>1, <4>1, InPart DEF Docs
    <3> QED
      BY <3>2, <3>3, <3>4
  <2> HIDE DEF k, v
  <2>4. \A i \in 1..k : w[i] = v[i]
    <3>1. w[n] \in Text!Token
      BY <2>2 DEF Text!Token, Text!Meaningful
    <3>2. <<w[n]>> \in Docs
      BY <3>1, DocOne
    <3>3. \A i \in 1..Len(v) : (v \o <<w[n]>>)[i] = v[i]
      BY <2>3, <3>2, DocAt
    <3> QED
      BY <2>3, <3>3
  <2>5. v[1] = "open" /\ \A i \in 2..k : i \in 2..n /\ v[i] = w[i]
    BY <1>3, <1>8, <2>1, <2>4 DEF k
  <2>6. Begun(v)
    BY <1>9, <2>1, <2>3, <2>5 DEF Begun
  <2> QED
    BY <2>2, <2>3, <2>6
<1> QED
  BY <1>10, <1>11

LEMMA BegunBetween ==
  ASSUME NEW p \in Docs, NEW q \in Docs, NEW d \in Docs,
         Len(d) = 2, d[1] \in Text!Entry, d[2] = "comma",
         Begun((p \o d) \o q)
  PROVE  p # <<>> /\ q # <<>> /\ Begun(p \o q)
<1> DEFINE pd == p \o d
           c == pd \o q
           b == p \o q
           n == Len(p)
           m == Len(q)
           k == n + 2
<1>1. n \in Nat /\ m \in Nat /\ pd \in Docs /\ Len(pd) = n + 2 /\ Len(b) = n + m
  <2>1. n \in Nat /\ m \in Nat
    BY DocJoin
  <2>2. pd \in Docs
    BY DocJoin
  <2>3. Len(pd) = n + 2
    <3>1. Len(pd) = n + Len(d)
      BY DocJoin
    <3> QED
      BY <3>1
  <2>4. Len(b) = n + m
    BY DocJoin
  <2> QED
    BY <2>1, <2>2, <2>3, <2>4
<1>2. \A i \in 1..n : pd[i] = p[i] /\ b[i] = p[i]
  BY DocAt
<1>3. \A i \in 1..Len(d) : pd[n + i] = d[i]
  BY DocAt
<1>4. \A i \in 1..m : b[n + i] = q[i]
  BY DocAt
<1> HIDE DEF pd, b
<1>5. Len(c) = k + m
  <2>1. Len(c) = Len(pd) + Len(q)
    BY <1>1, DocJoin
  <2> QED
    BY <1>1, <2>1
<1>6. \A i \in 1..k : c[i] = pd[i]
  BY <1>1, DocAt
<1>7. \A i \in 1..m : c[k + i] = q[i]
  BY <1>1, DocAt
<1>8. Begun(c)
  BY DEF c, pd
<1>9. (n = 0 <=> p = <<>>) /\ (m = 0 <=> q = <<>>)
  BY DEF Docs
<1> HIDE DEF c, n, m
<1>10. k \in Nat /\ 1 \in 1..Len(d) /\ 2 \in 1..Len(d) /\ n + 1 \in 1..k /\ n + 2 \in 1..k
  BY <1>1
<1> HIDE DEF k
<1>11. c[n + 1] \in Text!Entry
  BY <1>3, <1>6, <1>10
<1>12. k = n + 2
  BY DEF k
<1>13. /\ c[1] = "open" /\ (Len(c) = 1 \/ Len(c) % 2 = 0)
       /\ \A i \in 2..Len(c) : IF i % 2 = 0 THEN c[i] \in Text!Entry ELSE c[i] = "comma"
  BY <1>8 DEF Begun
<1>14. n # 0
  <2>1. n = 0 => n + 1 = 1
    OBVIOUS
  <2> QED
    BY <1>11, <1>13, <2>1, Kinds
<1>15. (n + 1) % 2 = 0
  <2>1. n + 1 \in 2..Len(c)
    BY <1>1, <1>5, <1>12, <1>14
  <2> QED
    BY <1>11, <1>13, <2>1, Kinds
<1>16. m # 0 /\ (n + m) % 2 = 0
  BY <1>1, <1>5, <1>12, <1>13, <1>14, <1>15
<1>17. b[1] = "open"
  <2>1. 1 \in 1..n /\ 1 \in 1..k
    BY <1>1, <1>12, <1>14
  <2> QED
    BY <1>2, <1>6, <1>13, <2>1
<1>18. ASSUME NEW i \in 2..(n + m)
       PROVE  IF i % 2 = 0 THEN b[i] \in Text!Entry ELSE b[i] = "comma"
  <2>1. CASE i \in 2..n
    <3>1. b[i] = c[i] /\ i \in 2..Len(c)
      BY <1>1, <1>2, <1>5, <1>6, <1>12, <2>1
    <3> QED
      BY <1>13, <3>1
  <2>2. CASE i \notin 2..n
    <3> DEFINE j == i - n
    <3>1. j \in 1..m /\ i = n + j /\ k + j \in 2..Len(c) /\ k + j = i + 2
      BY <1>1, <1>5, <1>12, <1>14, <2>2
    <3> HIDE DEF j
    <3>2. b[i] = c[k + j]
      BY <1>4, <1>7, <3>1
    <3>3. (i + 2) % 2 = i % 2
      BY <1>1
    <3>4. IF (k + j) % 2 = 0 THEN c[k + j] \in Text!Entry ELSE c[k + j] = "comma"
      BY <1>13, <3>1
    <3> QED
      BY <3>1, <3>2, <3>3, <3>4
  <2> QED
    BY <2>1, <2>2
<1>19. Begun(b)
  BY <1>1, <1>14, <1>16, <1>17, <1>18 DEF Begun
<1> QED
  BY <1>9, <1>14, <1>16, <1>19 DEF b

-----------------------------------------------------------------------------
(***************************************************************************)
(* A document without a block: what an entry makes of it, which a removal  *)
(* takes back.                                                             *)
(***************************************************************************)

\* A document without a block, cut before the closing brace.
Tidy(H, T) ==
  /\ H \in Docs /\ H # <<>> /\ H[Len(H)] = "nl" /\ Closing(T)
  /\ Text!Unmarked(H) /\ Text!Unmarked(T) /\ Text!Lines(H) /\ Text!Lines(T)
  /\ Begun(Said(H))

LEMMA TidyIs ==
  ASSUME NEW H, NEW T, Tidy(H, T)
  PROVE  /\ H \o T \in Docs /\ Text!Parses(H \o T)
         /\ Text!RenderRemoval(H \o T) = H \o T
<1>1. /\ H \in Docs /\ H # <<>> /\ H[Len(H)] = "nl" /\ T \in Docs /\ Said(T) = <<"close">>
      /\ Text!Unmarked(H) /\ Text!Unmarked(T) /\ Text!Lines(H) /\ Text!Lines(T) /\ Begun(Said(H))
  BY DEF Tidy, Closing
<1>2. Joins(H, T)
  BY <1>1 DEF Joins, Text!Mark, Text!Note
<1>3. H \o T \in Docs
  BY <1>1, DocJoin
<1>4. Text!Lines(H \o T)
  BY <1>1, <1>2, DocSaid
<1>5. Text!Unmarked(H \o T)
  BY <1>1, DocSaid
<1>6. Said(H \o T) = Said(H) \o Said(T) /\ Said(H) \in Docs
  BY <1>1, DocSaid
<1>7. Text!Reads(Said(H \o T))
  BY <1>1, <1>6, ReadsBegun
<1>8. Text!RenderRemoval(H \o T) = H \o T
  BY <1>3, <1>5, DocUnmarked DEF Text!RenderRemoval
<1> QED
  BY <1>3, <1>4, <1>7, <1>8, DocReads

\* What is said last before the closing brace: the opening one, or an entry.
LEMMA TidyLast ==
  ASSUME NEW H \in Docs, Begun(Said(H))
  PROVE  \E A, B \in Docs, x \in Text!Meaningful :
           /\ LastSaid(H, A, x, B)
           /\ (x = "open" /\ Said(A) = <<>>) \/ x \in Text!Entry
<1>1. Said(H) # <<>>
  BY DEF Begun
<1>2. PICK A \in Docs, B \in Docs, x \in Text!Meaningful : LastSaid(H, A, x, B)
  BY <1>1, DocSaidLast
<1>3. Said(H) = Said(A) \o <<x>>
  BY <1>2 DEF LastSaid
<1>4. Said(A) \in Docs /\ x \in Text!Token
  BY DocSaid DEF Text!Token
<1>5. (x = "open" /\ Said(A) = <<>>) \/ x \in Text!Entry
  BY <1>3, <1>4, BegunLast
<1> QED
  BY <1>2, <1>5

\* Ready for the block: a comma is put behind the last entry.
Ready(H, T, G) ==
  /\ G \in Docs /\ G # <<>> /\ G[Len(G)] = "nl" /\ Text!Unmarked(G) /\ Text!Lines(G)
  /\ Text!TheUsers(G) = Text!TheUsers(H) /\ Begun(Said(G) \o <<"rows">>)
  /\ PutInto(H, T, G) /\ TakenFrom(G, T, H)

LEMMA ReadyOpen ==
  ASSUME NEW H, NEW T, Tidy(H, T), NEW A \in Docs, NEW B \in Docs,
         NEW x \in Text!Meaningful, LastSaid(H, A, x, B), x = "open", Said(A) = <<>>
  PROVE  Ready(H, T, H)
<1>1. /\ H \in Docs /\ H # <<>> /\ H[Len(H)] = "nl" /\ Text!Unmarked(H) /\ Text!Lines(H)
      /\ Begun(Said(H))
  BY DEF Tidy
<1>2. H = A \o (<<x>> \o B) /\ Said(B) = <<>> /\ Said(H) = Said(A) \o <<x>>
  BY DEF LastSaid
<1>3. Closing(T)
  BY DEF Tidy
<1>4. PutInto(H, T, H)
  BY <1>3, CommaIs
<1>8. TakenFrom(H, T, H)
  BY <1>3, CommaIs
<1>5. Said(H) = <<"open">> /\ Said(H) \in Docs
  <2>1. Said(H) = <<>> \o <<"open">> /\ "open" \in Text!Token
    BY <1>2 DEF Text!Token, Text!Meaningful
  <2>2. <<"open">> \in Docs
    BY <2>1, DocOne
  <2> QED
    BY <2>1, <2>2, DocJoin
<1>6. "rows" \in Text!Entry
  BY DEF Text!Entry
<1>7. Begun(Said(H) \o <<"rows">>)
  BY <1>1, <1>5, <1>6, BegunMore
<1> QED
  BY <1>1, <1>4, <1>7, <1>8 DEF Ready

LEMMA ReadyEntry ==
  ASSUME NEW H, NEW T, Tidy(H, T), NEW A \in Docs, NEW B \in Docs, NEW x \in Text!Entry,
         LastSaid(H, A, x, B)
  PROVE  Ready(H, T, (A \o <<x>>) \o (<<"comma">> \o B))
<1> DEFINE one == <<x>>
           comma == <<"comma">>
           C == A \o one
           D == comma \o B
           G == C \o D
           U(doc) == Text!TheUsers(doc)
<1>1. /\ H \in Docs /\ H # <<>> /\ H[Len(H)] = "nl" /\ Text!Unmarked(H) /\ Text!Lines(H)
      /\ Begun(Said(H)) /\ Closing(T)
  BY DEF Tidy
<1>2. H = A \o (one \o B) /\ Said(B) = <<>> /\ Said(H) = Said(A) \o one
  BY DEF LastSaid
<1>3. x \in Text!Meaningful /\ x \notin {"open", "comma"} /\ "comma" \in Text!Meaningful
  BY Kinds DEF Text!Meaningful
<1>4. x \in Text!Token /\ "comma" \in Text!Token
  BY <1>3 DEF Text!Token
<1>5. /\ one \in Docs /\ Len(one) = 1 /\ one[1] = x
      /\ comma \in Docs /\ Len(comma) = 1 /\ comma[1] = "comma" /\ one # <<>>
  BY <1>4, DocOne
<1>6. /\ Said(one) = one /\ Said(comma) = comma /\ U(comma) = <<>>
  BY <1>3, OneToken, Kinds
<1>7. C \in Docs
  BY <1>5, DocJoin
<1>8. D \in Docs
  BY <1>5, DocJoin
<1>9. H = C \o B
  BY <1>2, <1>5, DocAssoc
<1>10. G \in Docs
  BY <1>7, <1>8, DocJoin
<1>11. PutInto(H, T, G)
  BY <1>1, <1>3, CommaIs
<1> HIDE DEF one, comma, U
<1>13. B # <<>> /\ B[Len(B)] = "nl"
  <2>1. ASSUME B = <<>> PROVE FALSE
    <3>1. one \o B = one
      BY <1>5, <2>1, DocJoin
    <3>2. H[Len(H)] = one[Len(one)]
      BY <1>2, <1>5, <3>1, DocLast
    <3>3. x = "nl"
      BY <1>1, <1>5, <3>2
    <3> QED
      BY <1>3, <3>3, Kinds
  <2>2. H[Len(H)] = B[Len(B)]
    BY <1>7, <1>9, <2>1, DocLast
  <2> QED
    BY <1>1, <2>1, <2>2
<1>14. G # <<>> /\ G[Len(G)] = "nl"
  <2>1. D # <<>> /\ D[Len(D)] = B[Len(B)]
    BY <1>5, <1>13, DocLast
  <2> HIDE DEF D, C
  <2>2. G # <<>> /\ G[Len(G)] = D[Len(D)]
    BY <1>7, <1>8, <2>1, DocLast
  <2> QED
    BY <1>13, <2>1, <2>2
<1>15. /\ Text!Lines(C) /\ Text!Lines(B) /\ Text!Unmarked(C) /\ Text!Unmarked(B)
  <2> HIDE DEF C
  <2> QED
    BY <1>1, <1>7, <1>9, DocSaid
<1>16. Text!Lines(comma) /\ Text!Unmarked(comma)
  <2>1. \A i \in DOMAIN comma : comma[i] = "comma"
    BY DEF comma
  <2>2. "comma" \notin Text!Mark \union Text!Note
    BY DEF Text!Mark, Text!Note
  <2> QED
    BY <2>1, <2>2 DEF Text!Lines, Text!Unmarked
<1>17. Joins(comma, B)
  BY <1>5 DEF Joins, Text!Mark, Text!Note
<1>18. Text!Lines(D) /\ Text!Unmarked(D)
  BY <1>5, <1>15, <1>16, <1>17, DocSaid
<1>19. Joins(C, D)
  <2>1. C[Len(C)] = x
    BY <1>5, DocLast
  <2> QED
    BY <1>3, <2>1, Kinds DEF Joins
<1>20. Text!Lines(G) /\ Text!Unmarked(G)
  <2> HIDE DEF C, D
  <2> QED
    BY <1>7, <1>8, <1>15, <1>18, <1>19, DocSaid
<1>21. U(G) = U(H)
  <2>1. U(D) = U(B)
    <3>1. U(D) = U(comma) \o U(B) /\ U(B) \in Docs
      BY <1>5, DocSaid DEF U
    <3> QED
      BY <1>6, <3>1, DocJoin
  <2> HIDE DEF C, D
  <2>2. U(G) = U(C) \o U(D) /\ U(H) = U(C) \o U(B)
    BY <1>7, <1>8, <1>9, DocSaid DEF U
  <2> QED
    BY <2>1, <2>2
<1>22. Said(G) = Said(H) \o comma
  <2>1. Said(D) = Said(comma) \o Said(B)
    BY <1>5, DocSaid
  <2>2. Said(D) = comma
    BY <1>2, <1>5, <1>6, <2>1, DocJoin
  <2>3. Said(C) = Said(A) \o Said(one)
    BY <1>5, DocSaid
  <2>4. Said(C) = Said(H)
    BY <1>2, <1>6, <2>3
  <2> HIDE DEF C, D
  <2>5. Said(G) = Said(C) \o Said(D)
    BY <1>7, <1>8, DocSaid
  <2> QED
    BY <2>2, <2>4, <2>5
<1>12. TakenFrom(G, T, H)
  <2>1. Said(C) = Said(A) \o Said(one)
    BY <1>5, DocSaid
  <2>2. Said(G) = Said(C) \o <<"comma">>
    BY <1>2, <1>6, <1>22, <2>1 DEF comma
  <2>3. G = C \o (<<"comma">> \o B)
    BY DEF comma
  <2> HIDE DEF G, C
  <2>4. LastSaid(G, C, "comma", B)
    BY <1>2, <2>2, <2>3 DEF LastSaid
  <2>5. TakenFrom(G, T, C \o B)
    BY <1>1, <1>3, <1>7, <2>4, CommaIs
  <2> QED
    BY <1>9, <2>5
<1>23. Begun(Said(G) \o <<"rows">>)
  <2> DEFINE w == Said(H)
  <2>1. w \in Docs /\ Begun(w)
    BY <1>1, DocSaid
  <2>2. w # <<"open">>
    <3>1. w = Said(A) \o one /\ Said(A) \in Docs
      BY <1>2, DocSaid
    <3>2. w[Len(w)] = one[Len(one)]
      BY <1>5, <3>1, DocLast
    <3>3. <<"open">>[Len(<<"open">>)] = "open"
      OBVIOUS
    <3> QED
      BY <1>3, <1>5, <3>2, <3>3
  <2> HIDE DEF w
  <2>3. Begun((w \o <<"comma">>) \o <<"rows">>)
    <3>1. "rows" \in Text!Entry
      BY DEF Text!Entry
    <3> QED
      BY <2>1, <2>2, <3>1, BegunMore
  <2> QED
    BY <1>22, <2>3 DEF w, comma
<1> QED
  BY <1>10, <1>11, <1>12, <1>14, <1>20, <1>21, <1>23 DEF Ready, U, one, comma

LEMMA ReadyIs ==
  ASSUME NEW H, NEW T, Tidy(H, T)
  PROVE  \E G : Ready(H, T, G)
<1>1. H \in Docs /\ Begun(Said(H))
  BY DEF Tidy
<1>2. PICK A \in Docs, B \in Docs, x \in Text!Meaningful :
        /\ LastSaid(H, A, x, B)
        /\ (x = "open" /\ Said(A) = <<>>) \/ x \in Text!Entry
  BY <1>1, TidyLast
<1>3. CASE x = "open" /\ Said(A) = <<>>
  BY <1>2, <1>3, ReadyOpen
<1>4. CASE x \in Text!Entry
  BY <1>2, <1>4, ReadyEntry
<1> QED
  BY <1>2, <1>3, <1>4

LEMMA BlockParts ==
  LET R == <<"start", "nl", "rows", "nl">>
      E == <<"end", "nl">>
  IN  /\ R \in Docs /\ E \in Docs /\ Text!Block = R \o E
      /\ R # <<>> /\ R[1] = "start" /\ R[Len(R)] = "nl"
      /\ \A i \in 2..Len(R) : R[i] \notin Text!Mark
      /\ E # <<>> /\ E[Len(E)] = "nl"
      /\ Said(R) = <<"rows">> /\ Said(E) = <<>>
      /\ Text!TheUsers(R) = <<>> /\ Text!TheUsers(E) = <<>>
      /\ Text!Lines(R) /\ Text!Lines(E)
<1> DEFINE R == <<"start", "nl", "rows", "nl">>
           E == <<"end", "nl">>
<1>1. {"start", "end", "nl", "rows"} \subseteq Text!Token
  BY DEF Text!Token, Text!Mark, Text!Meaningful, Text!Entry
<1>2. R \in Docs /\ E \in Docs
  BY <1>1 DEF Docs
<1>3. Text!Block = R \o E
  BY DEF Text!Block
<1>4. /\ Len(R) = 4 /\ R[1] = "start" /\ R[2] = "nl" /\ R[3] = "rows" /\ R[4] = "nl"
      /\ Len(E) = 2 /\ E[1] = "end" /\ E[2] = "nl" /\ R # <<>> /\ E # <<>>
      /\ DOMAIN R = 1..4 /\ DOMAIN E = 1..2
  OBVIOUS
<1>5. /\ <<"start">> \in Docs /\ <<"nl">> \in Docs /\ <<"rows">> \in Docs /\ <<"end">> \in Docs
      /\ <<"start", "nl">> \in Docs /\ <<"rows", "nl">> \in Docs
  BY <1>1 DEF Docs
<1>6. /\ R = <<"start", "nl">> \o <<"rows", "nl">> /\ <<"start", "nl">> = <<"start">> \o <<"nl">>
      /\ <<"rows", "nl">> = <<"rows">> \o <<"nl">> /\ E = <<"end">> \o <<"nl">>
  OBVIOUS
<1>7. /\ "start" \notin Text!Meaningful /\ "end" \notin Text!Meaningful
      /\ "nl" \notin Text!Meaningful /\ "rows" \in Text!Meaningful
      /\ {"start", "end", "nl", "rows"} \intersect (Own \union Text!Note) = {}
  BY Kinds DEF Text!Mark, Text!Meaningful, Text!Entry
<1>8. /\ Said(<<"start">>) = <<>> /\ Said(<<"end">>) = <<>> /\ Said(<<"nl">>) = <<>>
      /\ Said(<<"rows">>) = <<"rows">>
  BY <1>7, OneToken
<1>9. /\ Text!TheUsers(<<"start">>) = <<>> /\ Text!TheUsers(<<"end">>) = <<>>
      /\ Text!TheUsers(<<"nl">>) = <<>> /\ Text!TheUsers(<<"rows">>) = <<>>
  BY <1>7, OneToken
<1>10. /\ <<>> \o <<>> = <<>> /\ <<"rows">> \o <<>> = <<"rows">> /\ <<>> \o <<"rows">> = <<"rows">>
  OBVIOUS
<1>11. Said(<<"start", "nl">>) = <<>> /\ Text!TheUsers(<<"start", "nl">>) = <<>>
  <2> DEFINE a == <<"start">>
             b == <<"nl">>
  <2>1. a \in Docs /\ b \in Docs /\ <<"start", "nl">> = a \o b
    BY <1>5, <1>6
  <2> HIDE DEF a, b
  <2>2. /\ Said(a \o b) = Said(a) \o Said(b)
        /\ Text!TheUsers(a \o b) = Text!TheUsers(a) \o Text!TheUsers(b)
    BY <2>1, DocSaid
  <2>3. Said(a) = <<>> /\ Said(b) = <<>> /\ Text!TheUsers(a) = <<>> /\ Text!TheUsers(b) = <<>>
    BY <1>8, <1>9 DEF a, b
  <2> QED
    BY <1>10, <2>1, <2>2, <2>3
<1>12. Said(<<"rows", "nl">>) = <<"rows">> /\ Text!TheUsers(<<"rows", "nl">>) = <<>>
  <2> DEFINE a == <<"rows">>
             b == <<"nl">>
  <2>1. a \in Docs /\ b \in Docs /\ <<"rows", "nl">> = a \o b
    BY <1>5, <1>6
  <2> HIDE DEF a, b
  <2>2. /\ Said(a \o b) = Said(a) \o Said(b)
        /\ Text!TheUsers(a \o b) = Text!TheUsers(a) \o Text!TheUsers(b)
    BY <2>1, DocSaid
  <2>3. Said(a) = <<"rows">> /\ Said(b) = <<>> /\ Text!TheUsers(a) = <<>> /\ Text!TheUsers(b) = <<>>
    BY <1>8, <1>9 DEF a, b
  <2> QED
    BY <1>10, <2>1, <2>2, <2>3
<1>13. Said(E) = <<>> /\ Text!TheUsers(E) = <<>>
  <2> DEFINE a == <<"end">>
             b == <<"nl">>
  <2>1. a \in Docs /\ b \in Docs /\ E = a \o b
    BY <1>5, <1>6
  <2> HIDE DEF a, b, E
  <2>2. /\ Said(a \o b) = Said(a) \o Said(b)
        /\ Text!TheUsers(a \o b) = Text!TheUsers(a) \o Text!TheUsers(b)
    BY <2>1, DocSaid
  <2>3. Said(a) = <<>> /\ Said(b) = <<>> /\ Text!TheUsers(a) = <<>> /\ Text!TheUsers(b) = <<>>
    BY <1>8, <1>9 DEF a, b
  <2> QED
    BY <1>10, <2>1, <2>2, <2>3
<1>14. Said(R) = <<"rows">> /\ Text!TheUsers(R) = <<>>
  <2> DEFINE a == <<"start", "nl">>
             b == <<"rows", "nl">>
  <2>1. a \in Docs /\ b \in Docs /\ R = a \o b
    BY <1>5, <1>6
  <2>3. Said(a) = <<>> /\ Said(b) = <<"rows">> /\ Text!TheUsers(a) = <<>> /\ Text!TheUsers(b) = <<>>
    BY <1>11, <1>12
  <2> HIDE DEF a, b, R
  <2>2. /\ Said(a \o b) = Said(a) \o Said(b)
        /\ Text!TheUsers(a \o b) = Text!TheUsers(a) \o Text!TheUsers(b)
    BY <2>1, DocSaid
  <2> QED
    BY <1>10, <2>1, <2>2, <2>3
<1> HIDE DEF R, E
<1>15. \A i \in 1..4 : i = 1 \/ i = 2 \/ i = 3 \/ i = 4
  OBVIOUS
<1>16. \A i \in 1..2 : i = 1 \/ i = 2
  OBVIOUS
<1>17. \A i \in 2..4 : i = 2 \/ i = 3 \/ i = 4
  OBVIOUS
<1>18. \A i \in 2..Len(R) : R[i] \notin Text!Mark
  BY <1>4, <1>17 DEF Text!Mark
<1>19. Text!Lines(R)
  BY <1>4, <1>15 DEF Text!Lines, Text!Mark, Text!Note
<1>20. Text!Lines(E)
  BY <1>4, <1>16 DEF Text!Lines, Text!Mark, Text!Note
<1> QED
  BY <1>2, <1>3, <1>4, <1>13, <1>14, <1>18, <1>19, <1>20 DEF R, E

\* A line end separates what is before it from what comes behind.
LEMMA JoinsLine == ASSUME NEW a, NEW b, a[Len(a)] = "nl" PROVE Joins(a, b)
  BY DEF Joins, Text!Mark, Text!Note

\* What the entry makes of a document without one, and what is left when it goes.
LEMMA EntryIs ==
  ASSUME NEW H, NEW T, Tidy(H, T)
  PROVE  LET e == Text!RenderEntry(H \o T)
         IN  /\ Text!Parses(e) /\ Text!TheUsers(e) = Text!TheUsers(H \o T)
             /\ Text!RenderRemoval(e) = H \o T
<1> DEFINE e == Text!RenderEntry(H \o T)
           R == <<"start", "nl", "rows", "nl">>
           E == <<"end", "nl">>
           U(doc) == Text!TheUsers(doc)
<1>1. PICK G : Ready(H, T, G)
  BY ReadyIs
<1>2. /\ G \in Docs /\ G # <<>> /\ G[Len(G)] = "nl" /\ Text!Unmarked(G) /\ Text!Lines(G)
      /\ U(G) = U(H) /\ Begun(Said(G) \o <<"rows">>)
      /\ PutInto(H, T, G) /\ TakenFrom(G, T, H)
  BY <1>1 DEF Ready
<1>3. H \in Docs /\ Closing(T) /\ T \in Docs /\ Text!Lines(T) /\ Said(T) = <<"close">>
  BY DEF Tidy, Closing
<1>4. /\ R \in Docs /\ E \in Docs /\ Text!Block = R \o E
      /\ R # <<>> /\ R[1] = "start" /\ R[Len(R)] = "nl"
      /\ \A i \in 2..Len(R) : R[i] \notin Text!Mark
      /\ E # <<>> /\ E[Len(E)] = "nl"
      /\ Said(R) = <<"rows">> /\ Said(E) = <<>> /\ U(R) = <<>> /\ U(E) = <<>>
      /\ Text!Lines(R) /\ Text!Lines(E)
  BY BlockParts
<1> DEFINE GR == G \o R
           ET == E \o T
<1> HIDE DEF R
<1>5. GR \in Docs
  BY <1>2, <1>4, DocJoin
<1>6. ET \in Docs
  BY <1>3, <1>4, DocJoin
<1>7. e = GR \o ET
  <2>1. e = Text!WithBlock(G \o T)
    <3>1. Text!RenderRemoval(H \o T) = H \o T
      BY TidyIs
    <3> QED
      BY <1>2, <3>1 DEF Text!RenderEntry, PutInto
  <2>2. Text!WithBlock(G \o T) = (G \o Text!Block) \o T
    BY <1>2, <1>3, BlockIs
  <2> HIDE DEF E, GR
  <2>3. G \o (R \o E) = GR \o E
    BY <1>2, <1>4, DocAssoc DEF GR
  <2>4. (GR \o E) \o T = GR \o ET
    BY <1>3, <1>4, <1>5, DocAssoc
  <2> QED
    BY <1>4, <2>1, <2>2, <2>3, <2>4
<1>8. Text!RenderRemoval(e) = H \o T
  <2>1. Text!HasBlock(e) /\ Text!WithoutBlock(e) = G \o T
    <3>1. e = (G \o R) \o (<<"end", "nl">> \o T)
      BY <1>7
    <3> HIDE DEF e, E, GR, ET
    <3>2. LET d == (G \o R) \o (<<"end", "nl">> \o T)
          IN  Text!HasBlock(d) /\ Text!WithoutBlock(d) = G \o T
      BY <1>2, <1>3, <1>4, CutIs
    <3> QED
      BY <3>1, <3>2
  <2> QED
    BY <1>2, <2>1 DEF Text!RenderRemoval, TakenFrom
<1> HIDE DEF e, E, GR, ET, U
<1>9. GR[Len(GR)] = "nl" /\ Text!Lines(GR) /\ Said(GR) = Said(G) \o <<"rows">> /\ U(GR) = U(H)
  <2>1. GR[Len(GR)] = "nl"
    BY <1>2, <1>4, DocLast DEF GR
  <2>2. Text!Lines(GR)
    BY <1>2, <1>4, DocSaid, JoinsLine DEF GR
  <2>3. Said(GR) = Said(G) \o <<"rows">>
    BY <1>2, <1>4, DocSaid DEF GR
  <2>4. U(GR) = U(G) \o U(R) /\ U(G) \in Docs
    BY <1>2, <1>4, DocSaid DEF GR, U
  <2> QED
    BY <1>2, <1>4, <2>1, <2>2, <2>3, <2>4, DocJoin
<1>10. Text!Lines(ET) /\ Said(ET) = <<"close">> /\ U(ET) = U(T)
  <2>1. Text!Lines(ET)
    BY <1>3, <1>4, DocSaid, JoinsLine DEF ET
  <2>2. Said(ET) = Said(E) \o Said(T) /\ Said(T) \in Docs
    BY <1>3, <1>4, DocSaid DEF ET
  <2>3. U(ET) = U(E) \o U(T) /\ U(T) \in Docs
    BY <1>3, <1>4, DocSaid DEF ET, U
  <2>4. <<>> \o Said(T) = Said(T) /\ <<>> \o U(T) = U(T)
    BY <2>2, <2>3, DocJoin
  <2> QED
    BY <1>3, <1>4, <2>1, <2>2, <2>3, <2>4
<1>11. e \in Docs /\ Text!Lines(e)
  BY <1>5, <1>6, <1>7, <1>9, <1>10, DocJoin, DocSaid, JoinsLine
<1>12. U(e) = U(H \o T)
  <2>1. U(GR \o ET) = U(GR) \o U(ET)
    BY <1>5, <1>6, DocSaid DEF U
  <2>2. U(H \o T) = U(H) \o U(T)
    BY <1>3, DocSaid DEF U
  <2> QED
    BY <1>7, <1>9, <1>10, <2>1, <2>2
<1>13. Text!Reads(Said(e))
  <2> DEFINE w == Said(G) \o <<"rows">>
  <2>1. Said(e) = w \o <<"close">>
    <3>1. Said(GR \o ET) = Said(GR) \o Said(ET)
      BY <1>5, <1>6, DocSaid
    <3> QED
      BY <1>7, <1>9, <1>10, <3>1
  <2>2. w \in Docs
    BY <1>5, <1>9, DocSaid
  <2> HIDE DEF w
  <2>3. Begun(w)
    BY <1>2 DEF w
  <2> QED
    BY <2>1, <2>2, <2>3, ReadsBegun
<1>14. Text!Parses(e)
  BY <1>11, <1>13, DocReads
<1> QED
  BY <1>8, <1>12, <1>14 DEF e, U

-----------------------------------------------------------------------------
(***************************************************************************)
(* An editable document is such a one, or such a one with a block of kept  *)
(* rows in it.                                                             *)
(***************************************************************************)

\* What is behind the last brace closes a document that reads as closed.
ClosedBy(X, Q, Q1, T) ==
  /\ Q1 \in Docs /\ Q = Q1 \o T /\ Closing(T)
  /\ X \o Q1 # <<>> /\ (X \o Q1)[Len(X \o Q1)] = "nl" /\ Said(Q) = Said(Q1) \o <<"close">>

LEMMA ClosedIs ==
  ASSUME NEW X \in Docs, NEW Q \in Docs, Said(Q) # <<>>, Said(Q)[Len(Said(Q))] = "close",
         Text!LastBrace(X \o Q) > 1, (X \o Q)[Text!LastBrace(X \o Q)] = "close",
         (X \o Q)[Text!LastBrace(X \o Q) - 1] = "nl"
  PROVE  \E Q1, T : ClosedBy(X, Q, Q1, T)
<1>1. PICK a, b \in Docs, x \in Text!Meaningful : LastSaid(Q, a, x, b)
  BY DocSaidLast
<1>2. Q = a \o (<<x>> \o b) /\ Said(b) = <<>> /\ Said(Q) = Said(a) \o <<x>> /\ Said(a) \in Docs
  BY <1>1, DocSaid DEF LastSaid
<1>3. x \in Text!Token /\ <<x>> \in Docs /\ <<x>> # <<>> /\ Len(<<x>>) = 1 /\ <<x>>[1] = x
  BY DocOne DEF Text!Token
<1>4. x = "close"
  BY <1>2, <1>3, DocLast
<1> DEFINE T == <<x>> \o b
           Y == X \o a
           g == X \o Q
           n == Text!LastBrace(g)
<1>5. T \in Docs /\ Len(T) = 1 + Len(b) /\ Len(b) \in Nat
  BY <1>3, DocJoin
<1>6. T[1] = "close" /\ \A i \in 1..Len(b) : T[1 + i] = b[i]
  <2>1. 1 \in 1..Len(<<x>>)
    BY <1>3
  <2> QED
    BY <1>3, <1>4, <2>1, DocAt
<1>7. Said(T) = <<"close">>
  <2>1. Said(T) = Said(<<x>>) \o Said(b)
    BY <1>3, DocSaid
  <2>2. Said(<<x>>) = <<x>>
    BY OneToken
  <2>3. <<x>> \o <<>> = <<x>>
    BY <1>3, DocJoin
  <2> QED
    BY <1>2, <1>4, <2>1, <2>2, <2>3
<1>8. Y \in Docs /\ Len(Y) \in Nat
  BY DocJoin
<1> HIDE DEF T
<1>9. g = Y \o T
  <2>1. Q = a \o T
    BY <1>2 DEF T
  <2>2. X \o (a \o T) = (X \o a) \o T
    BY <1>5, DocAssoc
  <2> QED
    BY <2>1, <2>2
<1>10. Len(g) = Len(Y) + Len(T) /\ g \in Docs
  <2> HIDE DEF Y, g
  <2>1. Len(Y \o T) = Len(Y) + Len(T) /\ Y \o T \in Docs
    BY <1>5, <1>8, DocJoin
  <2> QED
    BY <1>9, <2>1
<1> HIDE DEF Y, g
<1>11. /\ \A i \in 1..Len(Y) : g[i] = Y[i]
       /\ \A i \in 1..Len(T) : g[Len(Y) + i] = T[i]
  BY <1>5, <1>8, <1>9, DocAt
<1>12. \A i \in 1..Len(b) : b[i] \notin Text!Meaningful
  BY <1>2, ThoseNone DEF Docs, Said
<1>13. /\ n \in 0..Len(g) /\ \A i \in 1..Len(g) : g[i] \in Brace => i <= n
  BY <1>10, LastBraceIs DEF Docs, Brace
<1>14. n > 1 /\ g[n] = "close" /\ g[n - 1] = "nl"
  BY DEF g
<1> HIDE DEF n
<1>15. n >= Len(Y) + 1
  <2>1. g[Len(Y) + 1] = "close" /\ Len(Y) + 1 \in 1..Len(g)
    <3>1. 1 \in 1..Len(T)
      BY <1>5
    <3> QED
      BY <1>5, <1>6, <1>8, <1>10, <1>11, <3>1
  <2> QED
    BY <1>13, <2>1 DEF Brace
<1>16. n = Len(Y) + 1
  <2> SUFFICES ASSUME n > Len(Y) + 1 PROVE FALSE
    BY <1>8, <1>13, <1>15
  <2> DEFINE i == n - Len(Y) - 1
  <2>1. i \in 1..Len(b) /\ 1 + i \in 1..Len(T) /\ Len(Y) + (1 + i) = n
    BY <1>5, <1>8, <1>10, <1>13
  <2> HIDE DEF i
  <2>2. g[n] = b[i]
    BY <1>6, <1>11, <2>1
  <2> QED
    BY <1>12, <1>14, <2>1, <2>2 DEF Text!Meaningful
<1>17. Y # <<>> /\ Y[Len(Y)] = "nl"
  <2>1. Len(Y) \in 1..Len(Y) /\ n - 1 = Len(Y)
    BY <1>8, <1>14, <1>16
  <2>2. Y # <<>>
    BY <2>1
  <2> QED
    BY <1>11, <1>14, <2>1, <2>2
<1>18. \A i \in 2..Len(T) : T[i] \notin Brace
  <2> SUFFICES ASSUME NEW i \in 2..Len(T), T[i] \in Brace PROVE FALSE
    OBVIOUS
  <2>1. i \in 1..Len(T) /\ Len(Y) + i \in 1..Len(g) /\ ~(Len(Y) + i <= Len(Y) + 1)
    BY <1>5, <1>8, <1>10
  <2>2. g[Len(Y) + i] = T[i]
    BY <1>11, <2>1
  <2> QED
    BY <1>13, <1>16, <2>1, <2>2
<1>19. T # <<>>
  BY <1>5
<1>20. Closing(T)
  BY <1>5, <1>6, <1>7, <1>18, <1>19 DEF Closing
<1>21. ClosedBy(X, Q, a, T)
  BY <1>2, <1>4, <1>17, <1>20 DEF ClosedBy, T, Y
<1> QED
  BY <1>21

\* Without the block, a document is a clean one with the same entries of the user's.
Emptied(g, H, T) ==
  /\ Tidy(H, T) /\ Text!RenderRemoval(g) = H \o T
  /\ Text!TheUsers(g) = Text!TheUsers(H \o T)

LEMMA ReadsClosed ==
  ASSUME NEW w \in Docs, Text!Reads(w)
  PROVE  w # <<>> /\ w[Len(w)] = "close"
  BY DEF Text!Reads

LEMMA UnmarkedEmptied ==
  ASSUME NEW g \in Docs, Text!Editable(g), Text!Unmarked(g)
  PROVE  \E H, T : Emptied(g, H, T)
<1>1. /\ Text!Parses(g) /\ Text!Lines(g)
      /\ Text!LastBrace(g) > 1 /\ g[Text!LastBrace(g)] = "close" /\ g[Text!LastBrace(g) - 1] = "nl"
  BY DEF Text!Editable
<1>2. Text!Reads(Said(g)) /\ Said(g) \in Docs
  BY <1>1, DocReads, DocSaid
<1>3. Said(g) # <<>> /\ Said(g)[Len(Said(g))] = "close"
  BY <1>2, ReadsClosed
<1>4. <<>> \in Docs /\ <<>> \o g = g
  BY DocJoin DEF Docs
<1>5. \E Q1, T : ClosedBy(<<>>, g, Q1, T)
  BY <1>1, <1>3, <1>4, ClosedIs
<1>6. PICK H, T : ClosedBy(<<>>, g, H, T)
  BY <1>5
<1>7. H \in Docs /\ g = H \o T /\ Closing(T) /\ T \in Docs /\ Said(g) = Said(H) \o <<"close">>
  BY <1>6 DEF ClosedBy, Closing
<1>8. H # <<>> /\ H[Len(H)] = "nl"
  BY <1>6, <1>7, DocJoin DEF ClosedBy
<1>9. Text!Unmarked(H) /\ Text!Unmarked(T) /\ Text!Lines(H) /\ Text!Lines(T)
  BY <1>1, <1>7, DocSaid
<1>10. Begun(Said(H))
  BY <1>2, <1>7, ReadsBegun, DocSaid
<1>11. Tidy(H, T)
  BY <1>7, <1>8, <1>9, <1>10 DEF Tidy
<1> QED
  BY <1>7, <1>11, TidyIs DEF Emptied

\* In a clean document nothing said last is a comma.
LEMMA TidyTakes ==
  ASSUME NEW H, NEW T, Tidy(H, T)
  PROVE  TakenFrom(H, T, H)
<1>1. H \in Docs /\ Begun(Said(H)) /\ Closing(T)
  BY DEF Tidy
<1>2. PICK A, B \in Docs, x \in Text!Meaningful :
        LastSaid(H, A, x, B) /\ ((x = "open" /\ Said(A) = <<>>) \/ x \in Text!Entry)
  BY <1>1, TidyLast
<1>3. x # "comma"
  BY <1>2, Kinds
<1> QED
  BY <1>1, <1>2, <1>3, CommaIs

\* The block and what is on either side of it.
Apart(g, P, R, Q) ==
  /\ P \in Docs /\ R \in Docs /\ Q \in Docs /\ g = (P \o R) \o (<<"end", "nl">> \o Q)
  /\ P # <<>> /\ P[Len(P)] = "nl" /\ Text!Unmarked(P) /\ Text!Unmarked(Q)
  /\ R # <<>> /\ R[1] = "start" /\ \A i \in 2..Len(R) : R[i] \notin Text!Mark
  /\ Text!TheUsers(R) = <<>>
  /\ Said(R) = <<"rows", "comma">> \/ (Said(R) = <<"rows">> /\ Said(Q) = <<"close">>)

LEMMA ApartIs ==
  ASSUME NEW g, NEW P, NEW R, NEW Q, Apart(g, P, R, Q)
  PROVE  /\ Text!HasBlock(g) /\ Text!WithoutBlock(g) = P \o Q
         /\ Said(g) = (Said(P) \o Said(R)) \o Said(Q)
         /\ Text!TheUsers(g) = Text!TheUsers(P \o Q)
         /\ Text!Lines(g) => Text!Lines(P) /\ Text!Lines(Q)
<1> DEFINE E == <<"end", "nl">>
           U(doc) == Text!TheUsers(doc)
<1>1. P \in Docs /\ R \in Docs /\ Q \in Docs /\ g = (P \o R) \o (E \o Q)
  BY DEF Apart
<1>2. Text!HasBlock(g) /\ Text!WithoutBlock(g) = P \o Q
  BY CutIs DEF Apart
<1>3. E \in Docs /\ Said(E) = <<>> /\ U(E) = <<>>
  BY BlockParts
<1> HIDE DEF E, U
<1>4. P \o R \in Docs /\ E \o Q \in Docs
  BY <1>1, <1>3, DocJoin
<1>5. /\ Said(g) = Said(P \o R) \o Said(E \o Q) /\ U(g) = U(P \o R) \o U(E \o Q)
      /\ Text!Lines(g) => Text!Lines(P \o R) /\ Text!Lines(E \o Q)
  BY <1>1, <1>4, DocSaid DEF U
<1>6. /\ Said(P \o R) = Said(P) \o Said(R) /\ U(P \o R) = U(P) \o U(R) /\ U(P) \in Docs
      /\ Text!Lines(P \o R) => Text!Lines(P)
  BY <1>1, DocSaid DEF U
<1>7. /\ Said(E \o Q) = Said(E) \o Said(Q) /\ U(E \o Q) = U(E) \o U(Q) /\ U(Q) \in Docs
      /\ Said(Q) \in Docs
      /\ Text!Lines(E \o Q) => Text!Lines(Q)
  BY <1>1, <1>3, DocSaid DEF U
<1>8. U(P \o Q) = U(P) \o U(Q)
  BY <1>1, DocSaid DEF U
<1>9. U(R) = <<>>
  BY DEF Apart, U
<1>10. U(P) \o <<>> = U(P) /\ <<>> \o U(Q) = U(Q) /\ <<>> \o Said(Q) = Said(Q)
  BY <1>6, <1>7, DocJoin
<1>11. U(g) = U(P \o Q)
  BY <1>3, <1>5, <1>6, <1>7, <1>8, <1>9, <1>10
<1>12. Said(g) = (Said(P) \o Said(R)) \o Said(Q)
  BY <1>3, <1>5, <1>6, <1>7, <1>10
<1> QED
  BY <1>2, <1>5, <1>6, <1>7, <1>11, <1>12 DEF U

\* What closes such a document is behind the block.
Behind(g, P, R, Q1, T) ==
  /\ Q1 \in Docs /\ Closing(T) /\ Apart(g, P, R, Q1 \o T)
  /\ P \o Q1 \in Docs /\ P \o Q1 # <<>> /\ (P \o Q1)[Len(P \o Q1)] = "nl"
  /\ Text!Unmarked(P \o Q1) /\ Text!Unmarked(T) /\ Text!Lines(P \o Q1) /\ Text!Lines(T)
  /\ Begun((Said(P) \o Said(R)) \o Said(Q1)) /\ Said(Q1 \o T) = Said(Q1) \o <<"close">>

LEMMA BehindIs ==
  ASSUME NEW g \in Docs, Text!Editable(g), NEW P, NEW R, NEW Q, Apart(g, P, R, Q)
  PROVE  \E Q1, T : Q = Q1 \o T /\ Behind(g, P, R, Q1, T)
<1> DEFINE E == <<"end", "nl">>
           X == (P \o R) \o E
<1>1. /\ P \in Docs /\ R \in Docs /\ Q \in Docs /\ g = (P \o R) \o (E \o Q)
      /\ P # <<>> /\ P[Len(P)] = "nl" /\ Text!Unmarked(P) /\ Text!Unmarked(Q)
      /\ Said(R) = <<"rows", "comma">> \/ (Said(R) = <<"rows">> /\ Said(Q) = <<"close">>)
  BY DEF Apart
<1>2. /\ Text!Parses(g) /\ Text!Lines(g)
      /\ Text!LastBrace(g) > 1 /\ g[Text!LastBrace(g)] = "close" /\ g[Text!LastBrace(g) - 1] = "nl"
  BY DEF Text!Editable
<1>3. /\ Said(g) = (Said(P) \o Said(R)) \o Said(Q)
      /\ Text!Lines(P) /\ Text!Lines(Q)
  BY <1>2, ApartIs
<1>4. Text!Reads(Said(g)) /\ Said(g) \in Docs
  BY <1>2, DocReads, DocSaid
<1>5. Said(g) # <<>> /\ Said(g)[Len(Said(g))] = "close"
  BY <1>4, ReadsClosed
<1>6. Said(P) \in Docs /\ Said(R) \in Docs /\ Said(Q) \in Docs
  BY <1>1, DocSaid
<1> DEFINE PR == Said(P) \o Said(R)
<1>7. PR \in Docs
  BY <1>6, DocJoin
<1>8. Said(R) # <<>> /\ Said(R)[Len(Said(R))] # "close"
  <2>1. CASE Said(R) = <<"rows", "comma">>
    BY <2>1
  <2>2. CASE Said(R) = <<"rows">>
    BY <2>2
  <2> QED
    BY <1>1, <2>1, <2>2
<1>9. PR # <<>> /\ PR[Len(PR)] # "close"
  BY <1>6, <1>8, DocLast
<1>10. Said(Q) # <<>>
  <2> SUFFICES ASSUME Said(Q) = <<>> PROVE FALSE
    OBVIOUS
  <2> HIDE DEF PR
  <2>1. PR \o <<>> = PR
    BY <1>7, DocJoin
  <2>2. Said(g) = PR
    BY <1>3, <2>1 DEF PR
  <2> QED
    BY <1>5, <1>9, <2>2
<1>11. Said(Q)[Len(Said(Q))] = "close"
  <2> HIDE DEF PR
  <2>1. (PR \o Said(Q))[Len(PR \o Said(Q))] = Said(Q)[Len(Said(Q))]
    BY <1>6, <1>7, <1>10, DocLast
  <2> QED
    BY <1>3, <1>5, <2>1 DEF PR
<1>12. E \in Docs
  BY BlockParts
<1> DEFINE PP == P \o R
<1>13. PP \in Docs
  BY <1>1, DocJoin
<1> HIDE DEF E, PP
<1>14. g = X \o Q /\ X \in Docs
  <2>1. (PP \o E) \o Q = PP \o (E \o Q)
    <3>1. PP \in Docs /\ E \in Docs /\ Q \in Docs
      BY <1>1, <1>12, <1>13
    <3> QED
      BY <3>1, DocAssoc
  <2>2. PP \o E \in Docs
    BY <1>12, <1>13, DocJoin
  <2> QED
    BY <1>1, <2>1, <2>2 DEF PP
<1> HIDE DEF X
<1>15. \E Q1, T : ClosedBy(X, Q, Q1, T)
  BY <1>1, <1>2, <1>10, <1>11, <1>14, ClosedIs
<1>16. PICK Q1, T : ClosedBy(X, Q, Q1, T)
  BY <1>15
<1>17. /\ Q1 \in Docs /\ Q = Q1 \o T /\ Closing(T) /\ T \in Docs
       /\ (X \o Q1)[Len(X \o Q1)] = "nl" /\ Said(Q) = Said(Q1) \o <<"close">>
  BY <1>16 DEF ClosedBy, Closing
<1>18. P \o Q1 \in Docs /\ P \o Q1 # <<>> /\ (P \o Q1)[Len(P \o Q1)] = "nl"
  <2>1. CASE Q1 = <<>>
    <3>1. P \o <<>> = P
      BY <1>1, DocJoin
    <3> QED
      BY <1>1, <2>1, <3>1
  <2>2. CASE Q1 # <<>>
    <3>1. Q1[Len(Q1)] = "nl"
      BY <1>14, <1>17, <2>2, DocLast
    <3> QED
      BY <1>1, <1>17, <2>2, <3>1, DocLast, DocJoin
  <2> QED
    BY <2>1, <2>2
<1>19. Text!Unmarked(Q1) /\ Text!Unmarked(T) /\ Text!Lines(Q1) /\ Text!Lines(T)
  BY <1>1, <1>3, <1>17, DocSaid
<1>20. Text!Unmarked(P \o Q1) /\ Text!Lines(P \o Q1)
  <2>1. Joins(P, Q1)
    BY <1>1, JoinsLine
  <2> QED
    BY <1>1, <1>3, <1>17, <1>19, <2>1, DocSaid
<1>21. Begun(PR \o Said(Q1))
  <2> HIDE DEF PR
  <2>1. Said(Q1) \in Docs /\ <<"close">> \in Docs
    BY <1>17, DocSaid, DocOne DEF Text!Token, Text!Meaningful
  <2> DEFINE c == <<"close">>
             w == PR \o Said(Q1)
  <2>2. w \in Docs
    BY <1>7, <2>1, DocJoin
  <2> HIDE DEF c
  <2>3. PR \o (Said(Q1) \o c) = (PR \o Said(Q1)) \o c
    BY <1>7, <2>1, DocAssoc DEF c
  <2>4. Said(g) = w \o c
    BY <1>3, <1>17, <2>3 DEF PR, c
  <2> HIDE DEF w
  <2> QED
    BY <1>4, <2>2, <2>4, ReadsBegun DEF c, w
<1>22. Behind(g, P, R, Q1, T)
  BY <1>17, <1>18, <1>19, <1>20, <1>21 DEF Behind
<1> QED
  BY <1>17, <1>22

\* The entries go on reading once the rows between them are gone ...
LEMMA RowsOut ==
  ASSUME NEW g, NEW P, NEW R, NEW Q1, NEW T, Behind(g, P, R, Q1, T), Begun(Said(P \o Q1))
  PROVE  Emptied(g, P \o Q1, T)
<1> DEFINE H == P \o Q1
<1>1. /\ P \in Docs /\ Q1 \in Docs /\ T \in Docs /\ Apart(g, P, R, Q1 \o T)
  BY DEF Behind, Apart, Closing
<1>2. Tidy(H, T)
  BY DEF Behind, Tidy
<1>3. TakenFrom(H, T, H)
  BY <1>2, TidyTakes
<1>4. P \o (Q1 \o T) = H \o T
  BY <1>1, DocAssoc
<1>5. /\ Text!HasBlock(g) /\ Text!WithoutBlock(g) = P \o (Q1 \o T)
      /\ Text!TheUsers(g) = Text!TheUsers(P \o (Q1 \o T))
  <2> DEFINE Q == Q1 \o T
  <2>1. Apart(g, P, R, Q)
    BY <1>1
  <2> HIDE DEF Q
  <2>2. /\ Text!HasBlock(g) /\ Text!WithoutBlock(g) = P \o Q
        /\ Text!TheUsers(g) = Text!TheUsers(P \o Q)
    BY <2>1, ApartIs
  <2> QED
    BY <2>2 DEF Q
<1> HIDE DEF H
<1>6. Text!RenderRemoval(g) = H \o T
  BY <1>3, <1>4, <1>5 DEF Text!RenderRemoval, TakenFrom
<1>7. Emptied(g, H, T)
  BY <1>2, <1>4, <1>5, <1>6 DEF Emptied
<1> QED
  BY <1>7 DEF H

\* ... and where they were the last, once the comma before them is gone too.
LEMMA CommaOut ==
  ASSUME NEW g, NEW P, NEW R, NEW Q1, NEW T, Behind(g, P, R, Q1, T),
         NEW v \in Docs, Begun(v), Said(P \o Q1) = v \o <<"comma">>
  PROVE  \E H : Emptied(g, H, T)
<1> DEFINE K == P \o Q1
           c == <<"comma">>
           U(doc) == Text!TheUsers(doc)
<1>1. /\ P \in Docs /\ Q1 \in Docs /\ T \in Docs /\ Apart(g, P, R, Q1 \o T)
      /\ K \in Docs /\ K # <<>> /\ K[Len(K)] = "nl" /\ Text!Unmarked(K) /\ Text!Unmarked(T)
      /\ Text!Lines(K) /\ Text!Lines(T) /\ Closing(T)
  BY DEF Behind, Apart, Closing
<1>2. P \o (Q1 \o T) = K \o T
  BY <1>1, DocAssoc
<1> HIDE DEF K, U
<1>3. /\ Text!HasBlock(g) /\ Text!WithoutBlock(g) = K \o T /\ U(g) = U(K \o T)
  <2> DEFINE Q == Q1 \o T
  <2>1. Apart(g, P, R, Q)
    BY <1>1
  <2> HIDE DEF Q
  <2>2. /\ Text!HasBlock(g) /\ Text!WithoutBlock(g) = P \o Q
        /\ Text!TheUsers(g) = Text!TheUsers(P \o Q)
    BY <2>1, ApartIs
  <2> QED
    BY <1>2, <2>2 DEF Q, U
<1>4. "comma" \in Text!Token /\ c \in Docs /\ c # <<>> /\ Len(c) = 1 /\ c[1] = "comma"
  <2>1. "comma" \in Text!Token
    BY DEF Text!Token, Text!Meaningful
  <2> QED
    BY <2>1, DocOne
<1>5. Said(K) = v \o c
  BY DEF K
<1>6. Said(K) # <<>> /\ Said(K)[Len(Said(K))] = "comma"
  <2> HIDE DEF c
  <2>1. v \o c # <<>> /\ (v \o c)[Len(v \o c)] = c[Len(c)]
    BY <1>4, DocLast
  <2> QED
    BY <1>4, <1>5, <2>1
<1>7. PICK A, B \in Docs, x \in Text!Meaningful : LastSaid(K, A, x, B)
  BY <1>1, <1>6, DocSaidLast
<1>8. K = A \o (<<x>> \o B) /\ Said(B) = <<>> /\ Said(K) = Said(A) \o <<x>> /\ Said(A) \in Docs
  BY <1>7, DocSaid DEF LastSaid
<1>9. x = "comma"
  <2>1. <<x>> \in Docs /\ <<x>> # <<>> /\ Len(<<x>>) = 1 /\ <<x>>[1] = x
    BY DocOne DEF Text!Token
  <2>2. (Said(A) \o <<x>>)[Len(Said(A) \o <<x>>)] = <<x>>[Len(<<x>>)]
    BY <1>8, <2>1, DocLast
  <2> QED
    BY <1>6, <1>8, <2>1, <2>2
<1>10. Said(A) = v
  <2> HIDE DEF c
  <2>1. Said(A) \o c = v \o c
    BY <1>5, <1>8, <1>9 DEF c
  <2>2. c \in Docs
    BY <1>4
  <2>5. Len(v \o c) = Len(v) + Len(c) /\ Len(v) \in Nat /\ Len(c) \in Nat
    BY <2>2, DocJoin
  <2>6. Len(Said(A) \o c) = Len(Said(A)) + Len(c) /\ Len(Said(A)) \in Nat
    BY <1>8, <2>2, DocJoin
  <2>3. Len(v) = Len(Said(A))
    BY <2>1, <2>5, <2>6
  <2>4. SubSeq(v \o c, 1, Len(v)) = v /\ SubSeq(Said(A) \o c, 1, Len(Said(A))) = Said(A)
    BY <1>4, <1>8, DocCut
  <2> QED
    BY <2>1, <2>3, <2>4
<1>11. TakenFrom(K, T, A \o B)
  BY <1>1, <1>7, <1>9, CommaIs
<1> DEFINE cB == c \o B
<1>12. K = A \o cB /\ cB \in Docs /\ cB # <<>> /\ cB[1] = "comma"
  <2> HIDE DEF c
  <2>0. c \in Docs
    BY <1>4
  <2>5. Len(c \o B) = Len(c) + Len(B) /\ c \o B \in Docs /\ Len(B) \in Nat
    BY <2>0, DocJoin
  <2>1. Len(c \o B) = Len(c) + Len(B) /\ c \o B \in Docs /\ Len(B) \in Nat /\ 1 \in 1..Len(c)
    BY <1>4, <2>5
  <2>2. (c \o B)[1] = c[1]
    BY <1>4, <2>1, DocAt
  <2>3. c \o B # <<>>
    BY <1>4, <2>1
  <2>4. K = A \o (c \o B)
    BY <1>8, <1>9 DEF c
  <2> QED
    BY <1>4, <2>1, <2>2, <2>3, <2>4
<1>13. B # <<>> /\ B[Len(B)] = "nl"
  <2> HIDE DEF c, cB
  <2>1. cB[Len(cB)] = "nl"
    BY <1>1, <1>12, DocLast
  <2>2. B # <<>>
    <3> SUFFICES ASSUME B = <<>> PROVE FALSE
      OBVIOUS
    <3>1. cB = c
      BY <1>4, DocJoin DEF cB
    <3> QED
      BY <1>4, <2>1, <3>1
  <2> QED
    BY <1>4, <2>1, <2>2, DocLast DEF cB
<1> HIDE DEF c, cB
<1>14. Text!Unmarked(A) /\ Text!Unmarked(B) /\ Text!Lines(A) /\ Text!Lines(B) /\ Joins(A, cB)
  BY <1>1, <1>4, <1>12, DocSaid DEF cB
<1>15. Joins(A, B)
  BY <1>12, <1>14 DEF Joins
<1> DEFINE H == A \o B
<1>16. H \in Docs /\ H # <<>> /\ H[Len(H)] = "nl" /\ Text!Unmarked(H) /\ Text!Lines(H)
  BY <1>13, <1>14, <1>15, DocJoin, DocLast, DocSaid
<1>17. Said(H) = v
  <2>1. Said(H) = Said(A) \o Said(B)
    BY DocSaid
  <2>2. v \o <<>> = v
    BY DocJoin
  <2> QED
    BY <1>8, <1>10, <2>1, <2>2
<1>18. Tidy(H, T)
  BY <1>1, <1>16, <1>17 DEF Tidy
<1>19. U(K) = U(H)
  <2>1. U(K) = U(A) \o U(cB) /\ U(H) = U(A) \o U(B)
    BY <1>12, DocSaid DEF U
  <2>2. U(cB) = U(c) \o U(B) /\ U(B) \in Docs
    BY <1>4, DocSaid DEF U, cB
  <2>3. U(c) = <<>>
    BY Kinds, OneToken DEF U, c
  <2>4. <<>> \o U(B) = U(B)
    BY <2>2, DocJoin
  <2> QED
    BY <2>1, <2>2, <2>3, <2>4
<1>20. U(K \o T) = U(H \o T)
  <2>1. U(K \o T) = U(K) \o U(T)
    BY <1>1, DocSaid DEF U
  <2>2. U(H \o T) = U(H) \o U(T)
    BY <1>1, <1>16, DocSaid DEF U
  <2> QED
    BY <1>19, <2>1, <2>2
<1>21. Text!RenderRemoval(g) = H \o T
  BY <1>3, <1>11 DEF Text!RenderRemoval, TakenFrom
<1>22. Emptied(g, H, T)
  BY <1>3, <1>18, <1>20, <1>21 DEF Emptied, U
<1> QED
  BY <1>22

LEMMA ApartEmptied ==
  ASSUME NEW g \in Docs, Text!Editable(g), NEW P, NEW R, NEW Q, Apart(g, P, R, Q)
  PROVE  \E H, T : Emptied(g, H, T)
<1>1. PICK Q1, T : Q = Q1 \o T /\ Behind(g, P, R, Q1, T)
  BY BehindIs
<1>2. /\ P \in Docs /\ R \in Docs /\ Q1 \in Docs
      /\ Begun((Said(P) \o Said(R)) \o Said(Q1)) /\ Said(Q) = Said(Q1) \o <<"close">>
      /\ Said(R) = <<"rows", "comma">> \/ (Said(R) = <<"rows">> /\ Said(Q) = <<"close">>)
  BY <1>1 DEF Behind, Apart
<1>3. /\ Said(P) \in Docs /\ Said(Q1) \in Docs /\ Said(R) \in Docs
      /\ Said(P \o Q1) = Said(P) \o Said(Q1)
  BY <1>2, DocSaid
<1>4. CASE Said(R) = <<"rows", "comma">>
  <2>1. Len(Said(R)) = 2 /\ Said(R)[1] \in Text!Entry /\ Said(R)[2] = "comma"
    BY <1>4 DEF Text!Entry
  <2>2. Begun(Said(P) \o Said(Q1))
    BY <1>2, <1>3, <2>1, BegunBetween
  <2>3. Begun(Said(P \o Q1))
    BY <1>3, <2>2
  <2> QED
    BY <1>1, <2>3, RowsOut
<1>5. CASE Said(R) = <<"rows">> /\ Said(Q) = <<"close">>
  <2>1. Said(Q1) = <<>>
    <3> DEFINE q == Said(Q1)
    <3>1. "close" \in Text!Token
      BY DEF Text!Token, Text!Meaningful
    <3> DEFINE c == <<"close">>
    <3>2. c \in Docs /\ Len(c) = 1
      BY <3>1, DocOne
    <3>3. q \in Docs /\ q \o c = c
      BY <1>2, <1>3, <1>5
    <3> HIDE DEF q, c
    <3>4. Len(q \o c) = Len(q) + Len(c) /\ Len(q) \in Nat
      BY <3>2, <3>3, DocJoin
    <3>5. Len(q) = 0
      BY <3>2, <3>3, <3>4
    <3>6. q = <<>>
      BY <3>3, <3>5, EmptySeq DEF Docs
    <3> QED
      BY <3>6 DEF q
  <2>2. Begun(Said(P) \o <<"rows">>) /\ Said(P \o Q1) = Said(P)
    <3>1. Said(P) \o Said(R) \in Docs
      BY <1>3, DocJoin
    <3>2. (Said(P) \o Said(R)) \o <<>> = Said(P) \o Said(R) /\ Said(P) \o <<>> = Said(P)
      BY <1>3, <3>1, DocJoin
    <3> QED
      BY <1>2, <1>3, <1>5, <2>1, <3>2
  <2>3. "rows" \in Text!Entry
    BY DEF Text!Entry
  <2>4. CASE Begun(Said(P)) /\ Said(P) = <<"open">>
    <3>1. Begun(Said(P \o Q1))
      BY <2>2, <2>4
    <3> QED
      BY <1>1, <3>1, RowsOut
  <2>5. CASE \E v \in Docs : Said(P) = v \o <<"comma">> /\ Begun(v)
    <3>1. PICK v \in Docs : Said(P \o Q1) = v \o <<"comma">> /\ Begun(v)
      BY <2>2, <2>5
    <3> QED
      BY <1>1, <3>1, CommaOut
  <2> QED
    BY <1>3, <2>2, <2>3, <2>4, <2>5, BegunLess
<1> QED
  BY <1>2, <1>4, <1>5

\* A token within a part of a document, and the part without the last of its tokens.
LEMMA DocPart ==
  ASSUME NEW doc \in Docs, NEW m \in 1..Len(doc), NEW n \in 1..Len(doc), m <= n
  PROVE  /\ SubSeq(doc, 1, m - 1) \in Docs /\ SubSeq(doc, m, n - 1) \in Docs
         /\ SubSeq(doc, n + 1, Len(doc)) \in Docs /\ SubSeq(doc, m, n) \in Docs
         /\ SubSeq(doc, m, n) = SubSeq(doc, m, n - 1) \o <<doc[n]>>
         /\ doc = (SubSeq(doc, 1, m - 1) \o SubSeq(doc, m, n - 1))
                  \o (<<doc[n]>> \o SubSeq(doc, n + 1, Len(doc)))
<1> DEFINE A == SubSeq(doc, 1, m - 1)
           B == SubSeq(doc, m, n - 1)
           C == SubSeq(doc, n + 1, Len(doc))
           x == <<doc[n]>>
<1>0. Len(doc) \in Nat /\ m \in Nat \ {0} /\ n \in Nat \ {0} /\ doc \in Seq(Text!Token)
  BY DEF Docs
<1>1. A \in Docs /\ B \in Docs /\ C \in Docs /\ SubSeq(doc, m, n) \in Docs
  BY <1>0, InPart DEF Docs
<1>2. doc[n] \in Text!Token
  BY <1>0
<1>3. x \in Docs
  BY <1>2, DocOne
<1>4. n \in m..Len(doc)
  BY <1>0
<1>5. SubSeq(doc, m, n) = B \o x
  BY <1>0, <1>4, SubSeqRecursiveSecond
<1>6. doc = SubSeq(doc, 1, n) \o C
  <2>1. doc = SubSeq(doc, 1, Len(doc))
    BY <1>0, SubSeqFull
  <2>2. SubSeq(doc, 1, Len(doc)) = SubSeq(doc, 1, n) \o SubSeq(doc, n + 1, Len(doc))
    BY <1>0, ConcatAdjacentSubSeq
  <2> QED
    BY <2>1, <2>2, Zenon
<1>7. SubSeq(doc, 1, n) = A \o SubSeq(doc, m, n)
  <2>1. SubSeq(doc, 1, n) = SubSeq(doc, 1, m - 1) \o SubSeq(doc, (m - 1) + 1, n)
    BY <1>0, ConcatAdjacentSubSeq
  <2>2. (m - 1) + 1 = m
    BY <1>0
  <2> QED
    BY <2>1, <2>2
<1>8. doc = (A \o (B \o x)) \o C
  BY <1>5, <1>6, <1>7
<1> HIDE DEF A, B, C, x
<1>9. A \o (B \o x) = (A \o B) \o x
  <2>1. A \in Docs /\ B \in Docs /\ x \in Docs
    BY <1>1, <1>3
  <2> QED
    BY <2>1, DocAssoc
<1> DEFINE AB == A \o B
<1>10. AB \in Docs
  BY <1>1, DocJoin
<1> HIDE DEF AB
<1>11. (AB \o x) \o C = AB \o (x \o C)
  <2>1. AB \in Docs /\ x \in Docs /\ C \in Docs
    BY <1>1, <1>3, <1>10
  <2> QED
    BY <2>1, DocAssoc
<1> QED
  BY <1>1, <1>5, <1>8, <1>9, <1>11 DEF A, B, C, x, AB

\* A block of kept rows lies between what the markers cut.
Halves(g, P, R, B) ==
  /\ P \in Docs /\ R \in Docs /\ B \in Docs /\ g = (P \o R) \o (<<"end">> \o B)
  /\ P # <<>> /\ P[Len(P)] = "nl" /\ Text!Unmarked(P) /\ Text!Unmarked(B)
  /\ R # <<>> /\ R[1] = "start" /\ \A i \in 2..Len(R) : R[i] \notin Text!Mark
  /\ Text!TheUsers(R) = <<>>
  /\ Said(R) = <<"rows", "comma">> \/ (Said(R) = <<"rows">> /\ Said(B) = <<"close">>)

LEMMA KeptHalves ==
  ASSUME NEW g \in Docs, Text!Kept(g)
  PROVE  \E P, R, B : Halves(g, P, R, B)
<1> DEFINE i == Text!First(g, "start")
           j == Text!First(g, "end")
           P == SubSeq(g, 1, i - 1)
           R == SubSeq(g, i, j - 1)
           B == SubSeq(g, j + 1, Len(g))
           rows == SubSeq(g, i, j)
           inner == SubSeq(g, i + 1, j - 1)
<1>1. /\ 1 < i /\ i < j /\ g[i - 1] = "nl" /\ Text!Unmarked(inner) /\ Text!Unmarked(B)
      /\ Text!TheUsers(rows) = <<>>
      /\ Said(rows) = <<"rows", "comma">> \/ (Said(rows) = <<"rows">> /\ Said(B) = <<"close">>)
  BY DEF Text!Kept, Said
<1>2. /\ i \in 0..Len(g) /\ g[i] = "start" /\ \A k \in 1..Len(g) : g[k] = "start" => i <= k
  BY <1>1, FirstIs DEF Docs
<1>3. /\ j \in 0..Len(g) /\ g[j] = "end" /\ \A k \in 1..Len(g) : g[k] = "end" => j <= k
  <2>1. j # 0
    BY <1>1, <1>2
  <2> QED
    BY <2>1, FirstIs DEF Docs
<1>4. Len(g) \in Nat /\ g \in Seq(Text!Token)
  BY DEF Docs
<1> HIDE DEF i, j
<1>5. i \in 1..Len(g) /\ j \in 1..Len(g) /\ i <= j /\ i - 1 \in Nat /\ j - 1 \in Nat
  BY <1>1, <1>2, <1>3, <1>4
<1>6. /\ P \in Docs /\ R \in Docs /\ B \in Docs /\ rows \in Docs /\ rows = R \o <<g[j]>>
      /\ g = (P \o R) \o (<<g[j]>> \o B)
  BY <1>5, DocPart
<1>7. /\ Len(P) = i - 1 /\ \A k \in 1..Len(P) : P[k] = g[k]
  <2>1. /\ Len(P) = IF 1 <= i - 1 THEN i - 1 - 1 + 1 ELSE 0
        /\ \A k \in 1..Len(P) : P[k] = g[1 + k - 1]
    BY <1>4, <1>5, InPart
  <2> QED
    BY <1>1, <1>5, <2>1
<1>8. P # <<>> /\ P[Len(P)] = "nl"
  <2> HIDE DEF P
  <2>1. i - 1 \in 1..Len(P)
    BY <1>1, <1>5, <1>7
  <2> QED
    BY <1>1, <1>7, <2>1
<1>9. Text!Unmarked(P)
  <2> HIDE DEF P
  <2> SUFFICES ASSUME NEW k \in 1..Len(P), P[k] \in Text!Mark PROVE FALSE
    <3>1. DOMAIN P = 1..Len(P)
      BY <1>6 DEF Docs
    <3> QED
      BY <3>1 DEF Text!Unmarked
  <2>1. k \in 1..Len(g) /\ k < i /\ k < j
    BY <1>1, <1>5, <1>7
  <2>2. g[k] # "start" /\ g[k] # "end"
    BY <1>2, <1>3, <1>5, <2>1
  <2> QED
    BY <1>7, <2>2 DEF Text!Mark
<1>10. /\ Len(R) = j - i /\ \A k \in 1..Len(R) : R[k] = g[i + k - 1]
  <2>1. /\ Len(R) = IF i <= j - 1 THEN j - 1 - i + 1 ELSE 0
        /\ \A k \in 1..Len(R) : R[k] = g[i + k - 1]
    BY <1>4, <1>5, InPart
  <2> QED
    BY <1>1, <1>5, <2>1
<1>11. R # <<>> /\ R[1] = "start"
  <2> HIDE DEF R
  <2>1. 1 \in 1..Len(R) /\ i + 1 - 1 = i
    BY <1>1, <1>5, <1>10
  <2> QED
    BY <1>2, <1>10, <2>1
<1>12. \A k \in 2..Len(R) : R[k] \notin Text!Mark
  <2> SUFFICES ASSUME NEW k \in 2..Len(R) PROVE R[k] \notin Text!Mark
    OBVIOUS
  <2>1. k \in 1..Len(R) /\ i + k - 1 \in (i + 1)..(j - 1) /\ (i + k - 1) - (i + 1) + 1 = k - 1
    BY <1>1, <1>5, <1>10
  <2>2. /\ \A n \in (i + 1)..(j - 1) : inner[n - (i + 1) + 1] = g[n]
        /\ Len(inner) = (IF i + 1 <= j - 1 THEN j - 1 - (i + 1) + 1 ELSE 0)
        /\ inner \in Seq(Text!Token)
    <3>1. i + 1 \in Nat \ {0} /\ j - 1 <= Len(g)
      BY <1>5
    <3> QED
      BY <1>4, <1>5, <3>1, InPart
  <2>3. inner[k - 1] = R[k]
    BY <1>10, <2>1, <2>2
  <2>4. k - 1 \in DOMAIN inner
    BY <1>1, <1>5, <1>10, <2>1, <2>2
  <2> HIDE DEF inner, R
  <2> QED
    BY <1>1, <2>3, <2>4 DEF Text!Unmarked
<1>13. Text!TheUsers(R) = <<>> /\ Said(R) = Said(rows)
  <2> DEFINE e == <<g[j]>>
  <2>1. e \in Docs /\ Said(e) = <<>> /\ Text!TheUsers(e) = <<>>
    <3>1. "end" \in Text!Token /\ "end" \notin Text!Meaningful /\ "end" \notin Own \union Text!Note
      BY Kinds DEF Text!Token, Text!Mark
    <3> QED
      BY <1>3, <3>1, DocOne, OneToken
  <2> HIDE DEF e, R, rows
  <2>2. rows = R \o e
    BY <1>6 DEF e
  <2>3. Said(R \o e) = Said(R) \o Said(e) /\ Said(R) \in Docs
    BY <1>6, <2>1, DocSaid
  <2>4. Text!TheUsers(R \o e) = Text!TheUsers(R) \o Text!TheUsers(e) /\ Text!TheUsers(R) \in Docs
    BY <1>6, <2>1, DocSaid
  <2>5. Said(R) \o <<>> = Said(R) /\ Text!TheUsers(R) \o <<>> = Text!TheUsers(R)
    BY <2>3, <2>4, DocJoin
  <2> QED
    BY <1>1, <2>1, <2>2, <2>3, <2>4, <2>5
<1>14. g = (P \o R) \o (<<"end">> \o B)
  BY <1>3, <1>6
<1> HIDE DEF P, R, B, rows, inner
<1>15. Halves(g, P, R, B)
  BY <1>1, <1>6, <1>8, <1>9, <1>11, <1>12, <1>13, <1>14 DEF Halves
<1> QED
  BY <1>15

LEMMA EndLine == <<"end", "nl">> = <<"end">> \o <<"nl">>
  OBVIOUS

LEMMA HalvesApart ==
  ASSUME NEW g \in Docs, Text!Editable(g), NEW P, NEW R, NEW B, Halves(g, P, R, B)
  PROVE  \E Q : Apart(g, P, R, Q)
<1> DEFINE e == <<"end">>
           l == <<"nl">>
           PR == P \o R
           eB == e \o B
<1>0. e \o l = <<"end", "nl">>
  BY EndLine
<1>1. /\ P \in Docs /\ R \in Docs /\ B \in Docs /\ g = PR \o eB
      /\ Said(R) = <<"rows", "comma">> \/ (Said(R) = <<"rows">> /\ Said(B) = <<"close">>)
  BY DEF Halves
<1>2. /\ e \in Docs /\ Said(e) = <<>> /\ e # <<>> /\ e[Len(e)] \in Text!Mark
      /\ l \in Docs /\ Said(l) = <<>>
  <2>1. /\ "end" \in Text!Token /\ "nl" \in Text!Token /\ "end" \in Text!Mark
        /\ "end" \notin Text!Meaningful /\ "nl" \notin Text!Meaningful
    BY Kinds DEF Text!Token, Text!Mark
  <2> QED
    BY <2>1, DocOne, OneToken
<1> HIDE DEF e, l
<1>3. PR \in Docs /\ eB \in Docs
  BY <1>1, <1>2, DocJoin
<1> HIDE DEF PR, eB
<1>4. Said(g) = Said(PR) \o Said(eB) /\ (Text!Lines(g) => Text!Lines(eB))
  BY <1>1, <1>3, DocSaid
<1>5. Said(PR) = Said(P) \o Said(R) /\ Said(P) \in Docs /\ Said(R) \in Docs
  BY <1>1, DocSaid DEF PR
<1>6. /\ Said(eB) = Said(e) \o Said(B) /\ Said(B) \in Docs
      /\ Text!Lines(eB) => Joins(e, B)
  BY <1>1, <1>2, DocSaid DEF eB
<1>7. Text!Lines(g) /\ Text!Reads(Said(g)) /\ Said(g) \in Docs
  BY DocReads, DocSaid DEF Text!Editable
<1>8. Said(g) # <<>> /\ Said(g)[Len(Said(g))] = "close"
  BY <1>7, ReadsClosed
<1>9. B # <<>>
  <2> SUFFICES ASSUME B = <<>> PROVE FALSE
    OBVIOUS
  <2>1. Said(B) = <<>>
    BY ThoseEmpty DEF Said
  <2>2. Said(R) = <<"rows", "comma">>
    BY <1>1, <2>1
  <2>3. Said(R) # <<>> /\ Said(R)[Len(Said(R))] = "comma"
    BY <2>2
  <2>4. Said(PR) # <<>> /\ Said(PR)[Len(Said(PR))] = "comma" /\ Said(PR) \in Docs
    BY <1>5, <2>3, DocLast, DocJoin
  <2>5. Said(PR) \o <<>> = Said(PR) /\ <<>> \o <<>> = <<>>
    BY <2>4, DocJoin
  <2>6. Said(g) = Said(PR)
    BY <1>2, <1>4, <1>6, <2>1, <2>5
  <2> QED
    BY <1>8, <2>4, <2>6
<1>10. B[1] = "nl"
  BY <1>2, <1>4, <1>6, <1>7, <1>9 DEF Joins
<1> DEFINE Q == SubSeq(B, 2, Len(B))
<1>11. B = l \o Q /\ Q \in Docs
  <2>1. B \in Seq(Text!Token) /\ Len(B) \in Nat /\ 1 \in 1..Len(B) /\ Len(B) \in 1..Len(B)
    BY <1>1, <1>9, DocLast DEF Docs
  <2>2. SubSeq(B, 1, Len(B)) = <<B[1]>> \o SubSeq(B, 1 + 1, Len(B))
    BY <2>1, SubSeqRecursiveFirst
  <2>3. SubSeq(B, 1, Len(B)) = B /\ 1 + 1 = 2
    BY <2>1, SubSeqFull
  <2>4. Q \in Docs
    BY <2>1, InPart DEF Docs
  <2> QED
    BY <1>10, <2>2, <2>3, <2>4 DEF l
<1> HIDE DEF Q
<1>12. Said(B) = Said(Q)
  <2>1. Said(B) = Said(l) \o Said(Q) /\ Said(Q) \in Docs
    BY <1>2, <1>11, DocSaid
  <2>2. <<>> \o Said(Q) = Said(Q)
    BY <2>1, DocJoin
  <2> QED
    BY <1>2, <2>1, <2>2
<1>13. Text!Unmarked(Q)
  <2>1. Text!Unmarked(B)
    BY DEF Halves
  <2> QED
    BY <1>2, <1>11, <2>1, DocSaid
<1>14. g = (P \o R) \o (<<"end", "nl">> \o Q)
  <2>1. (e \o l) \o Q = e \o (l \o Q)
    BY <1>2, <1>11, DocAssoc
  <2> QED
    BY <1>0, <1>1, <1>11, <2>1 DEF PR, eB
<1>15. Apart(g, P, R, Q)
  BY <1>11, <1>12, <1>13, <1>14 DEF Apart, Halves
<1> QED
  BY <1>15

\* An editable document without the block is a clean one.
LEMMA EditableEmptied ==
  ASSUME NEW g \in Docs, Text!Editable(g)
  PROVE  \E H, T : Emptied(g, H, T)
<1>1. CASE Text!Unmarked(g)
  BY <1>1, UnmarkedEmptied
<1>2. CASE Text!Kept(g)
  <2>1. PICK P, R, B : Halves(g, P, R, B)
    BY <1>2, KeptHalves
  <2>2. PICK Q : Apart(g, P, R, Q)
    BY <2>1, HalvesApart
  <2> QED
    BY <2>2, ApartEmptied
<1> QED
  BY <1>1, <1>2 DEF Text!Editable

\* The edits of an editable document lead to three documents and no further.
Settled(g, r, e) ==
  /\ Text!RenderRemoval(g) = r /\ Text!RenderEntry(g) = e
  /\ Text!RenderRemoval(r) = r /\ Text!RenderEntry(r) = e
  /\ Text!RenderRemoval(e) = r /\ Text!RenderEntry(e) = e
  /\ Text!Parses(g) /\ Text!Parses(r) /\ Text!Parses(e)
  /\ Text!TheUsers(r) = Text!TheUsers(g) /\ Text!TheUsers(e) = Text!TheUsers(g)

LEMMA EditableSettles ==
  ASSUME NEW g \in Docs, Text!Editable(g)
  PROVE  Settled(g, Text!RenderRemoval(g), Text!RenderEntry(g))
<1>1. PICK H, T : Emptied(g, H, T)
  BY EditableEmptied
<1> DEFINE r == H \o T
           e == Text!RenderEntry(r)
<1>2. Tidy(H, T) /\ Text!RenderRemoval(g) = r /\ Text!TheUsers(g) = Text!TheUsers(r)
  BY <1>1 DEF Emptied
<1>3. Text!Parses(r) /\ Text!RenderRemoval(r) = r
  BY <1>2, TidyIs
<1>4. Text!Parses(e) /\ Text!TheUsers(e) = Text!TheUsers(r) /\ Text!RenderRemoval(e) = r
  BY <1>2, EntryIs
<1> HIDE DEF r
<1>5. Text!RenderEntry(g) = e /\ Text!RenderEntry(e) = e
  <2>1. e = Text!WithBlock(Text!WithComma(r))
    BY <1>3 DEF Text!RenderEntry
  <2> HIDE DEF e
  <2> QED
    BY <1>2, <1>4, <2>1 DEF Text!RenderEntry
<1>6. Text!Parses(g)
  BY DEF Text!Editable
<1> HIDE DEF e
<1>7. Text!RenderEntry(r) = e
  BY DEF e
<1> QED
  BY <1>2, <1>3, <1>4, <1>5, <1>6, <1>7 DEF Settled

(***************************************************************************)
(* A setup that is run again changes nothing, and a removal gives back the *)
(* file as it was found where there was no block in it, to the comma that  *)
(* was put behind the last entry (render_entry and render_removal,         *)
(* menu.rs:139-196; what the test at menu.rs:284 says of one file). Of a   *)
(* file that had a block it leaves what a removal of the user's would have *)
(* left.                                                                   *)
(***************************************************************************)
THEOREM RemovalRestores ==
  ASSUME NEW g \in Docs, Text!Editable(g)
  PROVE  LET e == Text!RenderEntry(g)
         IN  /\ Text!RenderEntry(e) = e
             /\ Text!RenderRemoval(e) = Text!RenderRemoval(g)
             /\ Text!Unmarked(g) => Text!RenderRemoval(e) = g
<1> DEFINE e == Text!RenderEntry(g)
           r == Text!RenderRemoval(g)
<1>1. Settled(g, r, e)
  BY EditableSettles
<1>2. Text!Unmarked(g) => r = g
  BY DocUnmarked DEF Text!RenderRemoval
<1> HIDE DEF r, e
<1>3. Text!RenderEntry(e) = e /\ Text!RenderRemoval(e) = r
  BY <1>1 DEF Settled
<1> QED
  BY <1>2, <1>3 DEF r, e

-----------------------------------------------------------------------------
(***************************************************************************)
(* The bindings: what is left of the markers where the first pair is cut.  *)
(***************************************************************************)
Marker == {"start", "end"}

LEMMA BlockIsSingle == Block \in Seq(Marker) /\ Single(Block)
  BY DEF Block, Marker, Single

LEMMA SingleIs ==
  ASSUME NEW markers \in Seq(Marker)
  PROVE  Single(markers) <=> \A t \in Marker : Once(markers, t)
<1>1. \A i \in 1..Len(markers) : markers[i] \in Marker
  OBVIOUS
<1>2. DOMAIN markers = 1..Len(markers)
  OBVIOUS
<1> QED
  BY <1>1, <1>2 DEF Single, Once

LEMMA CutMarkers ==
  ASSUME NEW markers \in Seq(Marker)
  PROVE  /\ WithoutFirst(markers) \in Seq(Marker)
         /\ Single(markers) => Single(WithoutFirst(markers))
         /\ Single(markers) /\ Text!HasBlock(markers) => ~HasBlock(WithoutFirst(markers))
         /\ ~Text!HasBlock(markers) => ~HasBlock(markers)
<1> DEFINE at == Text!First(markers, "end")
           rest == SubSeq(markers, at + 1, Len(markers))
<1>1. at \in 0..Len(markers) /\ Len(markers) \in Nat
  BY FirstIs
<1>2. at # 0 => markers[at] = "end" /\ at \in 1..Len(markers)
  BY <1>1, FirstIs
<1>3. at + 1 \in Nat \ {0}
  BY <1>1
<1>4. WithoutFirst(markers) = rest
  BY DEF WithoutFirst
<1> HIDE DEF at
<1>5. rest \in Seq(Marker) /\ \A t : Once(markers, t) => Once(rest, t)
  BY <1>1, <1>3, PartHas
<1>6. Occurs(rest, "end") => \E i \in (at + 1)..Len(markers) : markers[i] = "end"
  BY <1>1, <1>3, PartHas
<1> HIDE DEF rest
<1>7. Single(markers) => Single(rest)
  BY <1>5, SingleIs
<1>8. ASSUME Single(markers), Text!HasBlock(markers) PROVE ~HasBlock(rest)
  <2>1. at # 0
    BY <1>8 DEF Text!HasBlock, at
  <2>2. \A i \in 1..Len(markers) : markers[i] = "end" => i = at
    BY <1>2, <1>8, <2>1, SingleIs DEF Once, Marker
  <2>3. ~Occurs(rest, "end")
    BY <1>1, <1>6, <2>2
  <2> QED
    BY <1>5, <2>3 DEF HasBlock, Occurs
<1>9. ASSUME ~Text!HasBlock(markers) PROVE ~HasBlock(markers)
  <2>1. \E t \in Marker : ~Occurs(markers, t)
    BY <1>9, NoBlock DEF Text!Mark, Marker
  <2> QED
    BY <2>1 DEF HasBlock, Occurs, Marker
<1> QED
  BY <1>4, <1>5, <1>7, <1>8, <1>9

-----------------------------------------------------------------------------
(***************************************************************************)
(* Type correctness, in groups of variables.                               *)
(***************************************************************************)
HistoryType ==
  /\ alone \in Process \union {Nothing}
  /\ found \in {"integrated", "bare", "stranded", "own", "partial"}
  /\ single \in BOOLEAN /\ clean \in BOOLEAN /\ orderly \in BOOLEAN
  /\ result \in {"none", "ok", "refused", "failed", "undone", "stuck", "removed", "kept", "died"}
  /\ runs \in 0..MaxRuns /\ events \in 0..MaxEvents

CommandType ==
  /\ first \in [Process -> BOOLEAN] /\ kept \in [Process -> BOOLEAN]
  /\ \A p \in Process : /\ pc[p] \in Rendered => clone[p] # Nothing
                        /\ pc[p] = "idle" => ~kept[p]

SurfaceType ==
  /\ leftover \subseteq Version \union {OwnLock} /\ enabled \in BOOLEAN
  /\ stamp \in 0..MaxUpgrade \union {Nothing}
  /\ binding \in Seq(Marker)
  /\ menu \in Seq(Text!Token) /\ given \in Seq(Text!Token) /\ Text!OneBlock(menu)
  /\ units \in [enabled : SUBSET Unit, active : SUBSET Unit]
  /\ socket \in BOOLEAN /\ config \in BOOLEAN /\ package \in BOOLEAN

\* What the command found in the bindings, it and the others keep so.
Marks == single => Single(binding)

TypeInv == HistoryType /\ CommandType /\ SurfaceType /\ Marks

LEMMA EndsType ==
  ASSUME HistoryType, NEW p,
         NEW said \in {"ok", "refused", "failed", "undone", "stuck", "removed", "kept", "died"},
         Ends(p, said)
  PROVE  result' \in {"none", "ok", "refused", "failed", "undone", "stuck", "removed", "kept",
                      "died"}
  BY DEF Ends, HistoryType

\* What a step of a command may make of the history.
LEMMA HistoryStep ==
  ASSUME HistoryType, UNCHANGED history \/ \E p \in Process : Chance(p),
         UNCHANGED result \/ result' \in {"ok", "refused", "failed", "undone", "stuck", "removed",
                                         "kept", "died"}
  PROVE  HistoryType'
<1>1. runs' \in 0..MaxRuns /\ events' \in 0..MaxEvents
  BY BoundAssumption DEF HistoryType, history, Chance, Event
<1>2. UNCHANGED <<alone, found, single, orderly>> /\ clean' \in BOOLEAN
  BY DEF HistoryType, history, Chance
<1> QED
  BY <1>1, <1>2 DEF HistoryType

LEMMA SetupHistory ==
  ASSUME HistoryType, NEW p \in Process, Setup(p)
  PROVE  HistoryType'
<1>1. UNCHANGED history \/ Chance(p)
  BY DEF Setup, Render, Look, Claim, Stage, Previous, Aside, Swap, SwapFails, PutBack, Discard,
     Discover, Enable, Bind, AddRow, Reload, Code, Restart, Stamp, EnableUnits, Watch, Serve,
     Mishap, Warn
<1>2. \/ UNCHANGED result
      \/ result' \in {"ok", "refused", "failed", "undone", "stuck", "removed", "kept", "died"}
  BY DEF Setup, Render, Look, Claim, Stage, Previous, Aside, Swap, SwapFails, PutBack, Discard,
     Discover, Enable, Bind, AddRow, Reload, Code, Restart, Stamp, EnableUnits, Watch, Serve,
     Mishap, Warn, Refuse, Fail, RollBack, Goto, Moves, Ends
<1> QED
  BY <1>1, <1>2, HistoryStep

LEMMA UninstallHistory ==
  ASSUME HistoryType, NEW p \in Process, Uninstall(p) \/ Die(p)
  PROVE  HistoryType'
<1>1. UNCHANGED history \/ Chance(p)
  BY DEF Uninstall, Sudo, LookForLock, RemoveLock, RemoveLockFails, RemoveRow, Unbind, Undone,
     StopUnits, RemoveSocket, RemoveState, Forget, RemovePackage, CannotByChance, Die
<1>2. \/ UNCHANGED result
      \/ result' \in {"ok", "refused", "failed", "undone", "stuck", "removed", "kept", "died"}
  BY DEF Uninstall, Sudo, LookForLock, RemoveLock, RemoveLockFails, RemoveRow, Unbind, Undone,
     StopUnits, RemoveSocket, RemoveState, Forget, RemovePackage, CannotByChance, Die,
     Cannot, Goto, Moves, Ends
<1> QED
  BY <1>1, <1>2, HistoryStep

LEMMA OtherHistory ==
  ASSUME HistoryType,
         \/ \E p \in Process : Begin(p)
         \/ Upgrade \/ CloneLock \/ DropLock \/ RestartShell \/ Enroll \/ Trigger \/ Reinstall
         \/ UNCHANGED vars
  PROVE  HistoryType'
<1>1. CASE \E p \in Process : Begin(p)
  <2>1. PICK p \in Process : Begin(p)
    BY <1>1
  <2>2. Machine \in {"integrated", "bare", "stranded", "own", "partial"}
    BY DEF Machine
  <2>3. found' \in {"integrated", "bare", "stranded", "own", "partial"}
    BY <2>1, <2>2 DEF Begin
  <2>4. runs' \in 0..MaxRuns /\ events' \in 0..MaxEvents
    BY <2>1, BoundAssumption DEF Begin, HistoryType, Event
  <2>5. alone' \in Process \union {Nothing} /\ result' = "none"
    BY <2>1 DEF Begin
  <2>6. single' \in BOOLEAN /\ clean' \in BOOLEAN /\ orderly' \in BOOLEAN
    <3>1. Idle \in BOOLEAN /\ Single(binding) \in BOOLEAN
      BY DEF Idle, Busy, Single
    <3> QED
      BY <2>1, <3>1 DEF Begin, HistoryType
  <2> QED
    BY <2>3, <2>4, <2>5, <2>6 DEF HistoryType
<1>2. CASE CloneLock \/ DropLock
  <2>1. events' \in 0..MaxEvents /\ runs' = runs
    BY <1>2, BoundAssumption DEF CloneLock, DropLock, Aloof, Event, HistoryType
  <2>2. /\ alone' = Nothing /\ found' = "bare" /\ single' = FALSE /\ clean' = FALSE
        /\ result' = "none"
        /\ orderly' \in BOOLEAN
    BY <1>2 DEF CloneLock, DropLock, Aloof, HistoryType
  <2> QED
    BY <2>1, <2>2 DEF HistoryType
<1>3. CASE Upgrade \/ RestartShell \/ Enroll \/ Trigger \/ Reinstall \/ UNCHANGED vars
  <2>1. events' \in 0..MaxEvents
    BY <1>3, BoundAssumption
    DEF Upgrade, RestartShell, Enroll, Trigger, Reinstall, Elsewhere, Event, history, vars,
        HistoryType
  <2>2. UNCHANGED <<alone, found, single, clean, orderly, runs, result>>
    BY <1>3 DEF Upgrade, RestartShell, Enroll, Trigger, Reinstall, Elsewhere, history, vars
  <2> QED
    BY <2>1, <2>2 DEF HistoryType
<1> QED
  BY <1>1, <1>2, <1>3

LEMMA HistoryNext == ASSUME HistoryType, [Next]_vars PROVE HistoryType'
  BY SetupHistory, UninstallHistory, OtherHistory DEF Next

\* A step leads into a setup only from its first one, which renders.
Moved(p) ==
  /\ first' \in {first, [first EXCEPT ![p] = FALSE], [first EXCEPT ![p] = TRUE]}
  /\ \/ kept' \in {kept, [kept EXCEPT ![p] = TRUE]} /\ pc'[p] # "idle"
     \/ kept' = [kept EXCEPT ![p] = FALSE]
  /\ \/ clone' = [clone EXCEPT ![p] = stock]
     \/ clone' \in {clone, [clone EXCEPT ![p] = Nothing]} /\ pc'[p] \notin Rendered
     \/ clone' = clone /\ pc[p] \in Rendered
  /\ \E label \in Step : pc' = [pc EXCEPT ![p] = label]

LEMMA MovedType ==
  ASSUME LockInv, CommandType, NEW p \in Process, Moved(p)
  PROVE  CommandType'
<1>1. first' \in [Process -> BOOLEAN] /\ kept' \in [Process -> BOOLEAN]
  BY DEF CommandType, Moved
<1>2. Shape /\ stock # Nothing
  BY ContentAssumption DEF LockInv, Shape
<1>3. ASSUME NEW q \in Process, q # p
      PROVE  pc'[q] = pc[q] /\ clone'[q] = clone[q] /\ kept'[q] = kept[q]
  BY <1>2, <1>3 DEF Moved, Shape, CommandType
<1>4. /\ pc'[p] \in Rendered => clone'[p] # Nothing
      /\ pc'[p] = "idle" => ~kept'[p]
  BY <1>2 DEF Moved, Shape, CommandType
<1> QED
  BY <1>1, <1>3, <1>4 DEF CommandType

LEMMA SetupMoves ==
  ASSUME LockInv, NEW p \in Process, Setup(p) \/ Die(p)
  PROVE  Moved(p)
<1> DEFINE lone(label) == pc' = [pc EXCEPT ![p] = label]
<1>1. Shape
  BY DEF LockInv
<1>2. \A label : pc' = [pc EXCEPT ![p] = label] => pc'[p] = label
  BY <1>1 DEF Shape
<1>3. ASSUME NEW said, Ends(p, said) PROVE Moved(p)
  BY <1>2, <1>3 DEF Ends, Forgets, Moved, Step, Rendered, SetupSteps
<1>4. ASSUME NEW label \in Step \ {"idle"}, Moves(p, label), UNCHANGED <<clone, first, kept>>,
             label \in Rendered => pc[p] \in Rendered
      PROVE  Moved(p)
  BY <1>2, <1>4 DEF Moves, Moved
<1>5. SetupSteps \subseteq Step \ {"idle"} /\ "undo" \in Step \ ({"idle"} \union Rendered)
  BY DEF Step, SetupSteps, UndoSteps, Rendered
<1>6. CASE Render(p)
  <2>1. CASE package
    BY <1>2, <1>5, <1>6, <2>1 DEF Render, Moves, Moved, SetupSteps
  <2>2. CASE ~package
    BY <1>3, <1>6, <2>2 DEF Render, Refuse
  <2> QED
    BY <2>1, <2>2
<1>7. CASE Look(p)
  <2>1. first' \in {[first EXCEPT ![p] = FALSE], [first EXCEPT ![p] = TRUE]}
    BY <1>7 DEF Look, IsGenerated
  <2> QED
    BY <1>2, <1>5, <1>7, <2>1 DEF Look, Moves, Moved, SetupSteps, Rendered
<1>8. CASE Refuse(p) \/ Fail(p) \/ RollBack(p)
  BY <1>3, <1>4, <1>5, <1>8 DEF Refuse, Fail, RollBack, Goto, local
<1>9. CASE Die(p) \/ Serve(p) \/ Warn(p) \/ SwapFails(p) \/ PutBack(p)
  BY <1>3, <1>4, <1>5, <1>9
  DEF Die, Serve, Warn, SwapFails, PutBack, Fail, Goto, local, Rendered, SetupSteps
<1>10. CASE Mishap(p)
  BY <1>8, <1>10 DEF Mishap
<1>11. CASE \/ Claim(p) \/ Stage(p) \/ Previous(p) \/ Aside(p) \/ Swap(p) \/ Discard(p)
            \/ Discover(p) \/ Enable(p)
  BY <1>4, <1>5, <1>8, <1>11
  DEF Claim, Stage, Previous, Aside, Swap, Discard, Discover, Enable, Goto, local, Rendered,
      SetupSteps
<1>12. CASE \/ Bind(p) \/ AddRow(p) \/ Reload(p) \/ Code(p) \/ Restart(p) \/ Stamp(p)
            \/ EnableUnits(p) \/ Watch(p)
  BY <1>4, <1>5, <1>8, <1>12
  DEF Bind, AddRow, Reload, Code, Restart, Stamp, EnableUnits, Watch, Goto, local, Rendered,
      SetupSteps
<1> QED
  BY <1>6, <1>7, <1>9, <1>10, <1>11, <1>12 DEF Setup

LEMMA UninstallMoves ==
  ASSUME LockInv, NEW p \in Process, Uninstall(p)
  PROVE  Moved(p)
<1>1. Shape
  BY DEF LockInv
<1>2. \A label : pc' = [pc EXCEPT ![p] = label] => pc'[p] = label
  BY <1>1 DEF Shape
<1>3. ASSUME NEW said, Ends(p, said) PROVE Moved(p)
  BY <1>2, <1>3 DEF Ends, Forgets, Moved, Step, Rendered, SetupSteps
<1>4. ASSUME NEW label \in UndoSteps \union UninstallSteps, Moves(p, label),
             UNCHANGED <<clone, first>>, kept' \in {kept, [kept EXCEPT ![p] = TRUE]}
      PROVE  Moved(p)
  <2>1. label \in Step \ {"idle"} /\ label \notin Rendered
    BY DEF Step, Rendered, SetupSteps, UndoSteps, UninstallSteps
  <2> QED
    BY <1>2, <1>4, <2>1 DEF Moves, Moved
<1>5. ASSUME NEW label \in UndoSteps \union UninstallSteps, Cannot(p, label) PROVE Moved(p)
  BY <1>3, <1>4, <1>5 DEF Cannot
<1>6. ASSUME NEW label \in UndoSteps \union UninstallSteps, Goto(p, label) PROVE Moved(p)
  BY <1>4, <1>6 DEF Goto, local
<1>7. CASE \/ Sudo(p) \/ LookForLock(p) \/ RemoveLock(p) \/ StopUnits(p)
           \/ RemoveSocket(p) \/ RemoveState(p) \/ Forget(p)
  BY <1>6, <1>7
  DEF Sudo, LookForLock, RemoveLock, StopUnits, RemoveSocket, RemoveState, Forget,
      UndoSteps, UninstallSteps
<1>8. CASE RemoveLockFails(p) \/ RemoveRow(p) \/ Unbind(p)
  BY <1>5, <1>6, <1>8 DEF RemoveLockFails, RemoveRow, Unbind, UndoSteps, UninstallSteps
<1>9. CASE Undone(p) \/ RemovePackage(p)
  BY <1>3, <1>9 DEF Undone, RemovePackage
<1>10. CASE CannotByChance(p)
  BY <1>3, <1>5, <1>10 DEF CannotByChance, UndoSteps, UninstallSteps
<1> QED
  BY <1>7, <1>8, <1>9, <1>10 DEF Uninstall

LEMMA CommandNext ==
  ASSUME LockInv, CommandType, [Next]_vars
  PROVE  CommandType'
<1>1. ASSUME NEW p \in Process, Setup(p) \/ Uninstall(p) \/ Die(p) PROVE CommandType'
  BY <1>1, SetupMoves, UninstallMoves, MovedType
<1>2. ASSUME NEW p \in Process, Begin(p) PROVE CommandType'
  <2>1. /\ UNCHANGED <<clone, first, kept>> /\ pc[p] = "idle"
        /\ \E label \in {"render", "sudo"} : pc' = [pc EXCEPT ![p] = label]
    BY <1>2 DEF Begin, local, Busy
  <2>2. \A q \in Process : pc'[q] = pc[q] \/ pc'[q] \in {"render", "sudo"}
    BY <2>1 DEF LockInv, Shape
  <2> QED
    BY <2>1, <2>2 DEF CommandType, Rendered, SetupSteps
<1>3. CASE \/ Upgrade \/ CloneLock \/ DropLock \/ RestartShell \/ Enroll \/ Trigger \/ Reinstall
           \/ UNCHANGED vars
  <2>1. UNCHANGED <<pc, clone, first, kept>>
    BY <1>3 DEF Upgrade, CloneLock, DropLock, RestartShell, Enroll, Trigger, Reinstall, vars, local
  <2> QED
    BY <2>1 DEF CommandType
<1> QED
  BY <1>1, <1>2, <1>3 DEF Next

\* The parts of SurfaceType, each changed by a few steps.
PluginType == leftover \subseteq Version \union {OwnLock} /\ enabled \in BOOLEAN
StampType == stamp \in 0..MaxUpgrade \union {Nothing}
DesktopType ==
  /\ binding \in Seq(Marker)
  /\ menu \in Seq(Text!Token) /\ given \in Seq(Text!Token) /\ Text!OneBlock(menu)
ServiceType ==
  /\ units \in [enabled : SUBSET Unit, active : SUBSET Unit]
  /\ socket \in BOOLEAN /\ config \in BOOLEAN /\ package \in BOOLEAN

LEMMA PluginNext ==
  ASSUME LockInv, PluginType, [Next]_vars
  PROVE  PluginType'
<1>1. ASSUME NEW p \in Process, Setup(p) \/ Die(p) PROVE PluginType'
  <2>1. leftover' = leftover /\ enabled' \in {enabled, TRUE}
    BY <1>1 DEF Setup, Die, plugin, Render, Look, Claim, Stage, Previous, Aside, Swap, SwapFails,
       PutBack, Discard, Discover, Enable, Bind, AddRow, Reload, Code, Restart, Stamp,
       EnableUnits, Watch, Serve, Mishap, Warn, Refuse, Fail, RollBack
  <2> QED
    BY <2>1 DEF PluginType
<1>2. ASSUME NEW p \in Process, Uninstall(p) PROVE PluginType'
  <2>1. leftover' = leftover /\ enabled' \in {enabled, FALSE}
    BY <1>2 DEF Uninstall, plugin, Sudo, LookForLock, RemoveLock, RemoveLockFails, RemoveRow,
       Unbind, Undone, StopUnits, RemoveSocket, RemoveState, Forget, RemovePackage, CannotByChance
  <2> QED
    BY <2>1 DEF PluginType
<1>3. ASSUME NEW p \in Process, Begin(p) PROVE PluginType'
  <2>1. rollback[p] \in Version \union {OwnLock, Nothing}
    BY DEF LockInv, Shape, Content
  <2> QED
    BY <1>3, <2>1 DEF Begin, PluginType
<1>4. CASE \/ Upgrade \/ CloneLock \/ DropLock \/ RestartShell \/ Enroll \/ Trigger \/ Reinstall
           \/ UNCHANGED vars
  <2>1. leftover' = leftover /\ enabled' \in {enabled, TRUE, FALSE}
    BY <1>4 DEF Upgrade, CloneLock, DropLock, RestartShell, Enroll, Trigger, Reinstall, vars,
       plugin
  <2> QED
    BY <2>1 DEF PluginType
<1> QED
  BY <1>1, <1>2, <1>3, <1>4 DEF Next

LEMMA StampNext ==
  ASSUME LockInv, CommandType, StampType, [Next]_vars
  PROVE  StampType'
<1>1. ASSUME NEW p \in Process, Setup(p) PROVE StampType'
  <2>1. CASE Stamp(p)
    <3>1. pc[p] \in Rendered /\ stamp' = clone[p].files
      BY <2>1 DEF Stamp, Rendered, SetupSteps
    <3>2. clone[p] \in Version
      BY <3>1 DEF LockInv, Shape, CommandType
    <3> QED
      BY <3>1, <3>2 DEF Version, StampType
  <2>2. CASE ~Stamp(p)
    <3>1. stamp' = stamp
      BY <1>1, <2>2 DEF Setup, shell, Render, Look, Claim, Stage, Previous, Aside, Swap,
         SwapFails, PutBack, Discard, Discover, Enable, Bind, AddRow, Reload, Code, Restart,
         EnableUnits, Watch, Serve, Mishap, Warn, Refuse, Fail, RollBack
    <3> QED
      BY <3>1 DEF StampType
  <2> QED
    BY <2>1, <2>2
<1>2. ASSUME NEW p \in Process, Uninstall(p) \/ Die(p) \/ Begin(p) PROVE StampType'
  <2>1. stamp' \in {stamp, Nothing}
    BY <1>2 DEF Uninstall, shell, Sudo, LookForLock, RemoveLock, RemoveLockFails, RemoveRow,
       Unbind, Undone, StopUnits, RemoveSocket, RemoveState, Forget, RemovePackage,
       CannotByChance, Die, Begin
  <2> QED
    BY <2>1 DEF StampType
<1>3. CASE \/ Upgrade \/ CloneLock \/ DropLock \/ RestartShell \/ Enroll \/ Trigger \/ Reinstall
           \/ UNCHANGED vars
  <2>1. stamp' = stamp
    BY <1>3 DEF Upgrade, CloneLock, DropLock, RestartShell, Enroll, Trigger, Reinstall, vars, shell
  <2> QED
    BY <2>1 DEF StampType
<1> QED
  BY <1>1, <1>2, <1>3 DEF Next

\* No block is left by a removal, and one by an entry.
LEMMA RemovedText ==
  ASSUME menu \in Seq(Text!Token), Text!OneBlock(menu), ~Text!Malformed(menu)
  PROVE  LET doc == Text!RenderRemoval(menu)
         IN  doc \in Seq(Text!Token) /\ Text!OneBlock(doc) /\ ~Text!HasBlock(doc)
<1> DEFINE doc == Text!RenderRemoval(menu)
<1>1. doc \in Seq(Text!Token) /\ \E t \in Text!Mark : ~Occurs(doc, t)
  BY RemovalText
<1> HIDE DEF doc
<1>2. Text!OneBlock(doc)
  BY <1>1 DEF Text!OneBlock, Occurs
<1>3. ~Text!HasBlock(doc)
  BY <1>1, NoBlock
<1> QED
  BY <1>1, <1>2, <1>3 DEF doc

LEMMA DesktopNext ==
  ASSUME DesktopType, [Next]_vars
  PROVE  DesktopType'
<1>1. ASSUME UNCHANGED desktop, UNCHANGED given PROVE DesktopType'
  BY <1>1 DEF DesktopType, desktop
<1>2. ASSUME NEW p \in Process, Setup(p) PROVE DesktopType'
  <2>1. given' = given
    BY <1>2 DEF Setup, history, Chance, Render, Look, Claim, Stage, Previous, Aside, Swap,
       SwapFails, PutBack, Discard, Discover, Enable, Bind, AddRow, Reload, Code, Restart, Stamp,
       EnableUnits, Watch, Serve, Mishap, Warn
  <2>2. CASE Bind(p)
    <3>1. binding' \in {binding, Block} /\ menu' = menu
      BY <2>2 DEF Bind, RollBack, desktop
    <3> QED
      BY <2>1, <3>1, BlockIsSingle DEF DesktopType
  <2>3. CASE AddRow(p)
    <3>1. CASE Text!Malformed(menu) \/ Text!Unclosed(menu)
      BY <1>1, <2>1, <2>3, <3>1 DEF AddRow, RollBack
    <3>2. CASE ~(Text!Malformed(menu) \/ Text!Unclosed(menu))
      <4>1. binding' = binding /\ menu' = Text!RenderEntry(menu)
        BY <2>3, <3>2 DEF AddRow
      <4> QED
        BY <2>1, <3>2, <4>1, EntryText DEF DesktopType
    <3> QED
      BY <3>1, <3>2
  <2>4. CASE ~Bind(p) /\ ~AddRow(p)
    <3>1. UNCHANGED desktop
      BY <1>2, <2>4 DEF Setup, Render, Look, Claim, Stage, Previous, Aside, Swap, SwapFails,
         PutBack, Discard, Discover, Enable, Reload, Code, Restart, Stamp, EnableUnits, Watch,
         Serve, Mishap, Warn, Refuse, Fail, RollBack
    <3> QED
      BY <1>1, <2>1, <3>1
  <2> QED
    BY <2>2, <2>3, <2>4
<1>3. ASSUME NEW p \in Process, Uninstall(p) \/ Die(p) \/ Begin(p) PROVE DesktopType'
  <2>1. given' = given
    BY <1>3 DEF Uninstall, history, Chance, Sudo, LookForLock, RemoveLock, RemoveLockFails,
       RemoveRow, Unbind, Undone, StopUnits, RemoveSocket, RemoveState, Forget, RemovePackage,
       CannotByChance, Die, Begin
  <2>2. CASE Unbind(p)
    <3>1. binding' \in {binding, WithoutFirst(binding)} /\ menu' = menu
      BY <2>2 DEF Unbind
    <3> QED
      BY <2>1, <3>1, CutMarkers DEF DesktopType
  <2>3. CASE RemoveRow(p)
    <3>1. binding' = binding /\ (menu' # menu => ~Text!Malformed(menu) /\ menu' = Text!RenderRemoval(menu))
      BY <2>3 DEF RemoveRow
    <3> QED
      BY <2>1, <3>1, RemovedText DEF DesktopType
  <2>4. CASE ~Unbind(p) /\ ~RemoveRow(p)
    <3>1. UNCHANGED desktop
      BY <1>3, <2>4 DEF Uninstall, Sudo, LookForLock, RemoveLock, RemoveLockFails, Undone,
         StopUnits, RemoveSocket, RemoveState, Forget, RemovePackage, CannotByChance, Die, Begin
    <3> QED
      BY <1>1, <2>1, <3>1
  <2> QED
    BY <2>2, <2>3, <2>4
<1>4. CASE \/ Upgrade \/ CloneLock \/ DropLock \/ RestartShell \/ Enroll \/ Trigger \/ Reinstall
           \/ UNCHANGED vars
  BY <1>1, <1>4 DEF Upgrade, CloneLock, DropLock, RestartShell, Enroll, Trigger, Reinstall, vars,
     Elsewhere, Aloof, history
<1> QED
  BY <1>2, <1>3, <1>4 DEF Next

LEMMA ServiceNext ==
  ASSUME ServiceType, [Next]_vars
  PROVE  ServiceType'
<1>1. ASSUME NEW p \in Process, Setup(p) PROVE ServiceType'
  <2>1. CASE EnableUnits(p) \/ Watch(p) \/ Serve(p)
    BY <2>1 DEF EnableUnits, Watch, Serve, ServiceType, Unit
  <2>2. CASE ~(EnableUnits(p) \/ Watch(p) \/ Serve(p))
    <3>1. UNCHANGED <<service, package>>
      BY <1>1, <2>2 DEF Setup, Render, Look, Claim, Stage, Previous, Aside, Swap, SwapFails,
         PutBack, Discard, Discover, Enable, Bind, AddRow, Reload, Code, Restart, Stamp, Mishap,
         Warn, Refuse, Fail, RollBack
    <3> QED
      BY <3>1 DEF ServiceType, service
  <2> QED
    BY <2>1, <2>2
<1>2. ASSUME NEW p \in Process, Uninstall(p) \/ Die(p) \/ Begin(p) PROVE ServiceType'
  <2>1. CASE StopUnits(p) \/ RemoveSocket(p) \/ Forget(p)
    <3>1. CASE StopUnits(p)
      <4>1. PICK unit : units' = Stop(unit)
        BY <3>1 DEF StopUnits
      <4>2. Stop(unit) \in [enabled : SUBSET Unit, active : SUBSET Unit]
        BY DEF Stop, ServiceType
      <4> QED
        BY <3>1, <4>1, <4>2 DEF StopUnits, ServiceType
    <3>2. CASE RemoveSocket(p) \/ Forget(p)
      BY <3>2 DEF RemoveSocket, Forget, ServiceType
    <3> QED
      BY <2>1, <3>1, <3>2
  <2>2. CASE RemovePackage(p)
    <3>1. package' = FALSE \/ package' = package
      BY <2>2 DEF RemovePackage, ServiceType
    <3> QED
      BY <2>2, <3>1 DEF RemovePackage, ServiceType, service
  <2>3. CASE ~(StopUnits(p) \/ RemoveSocket(p) \/ Forget(p) \/ RemovePackage(p))
    <3>1. UNCHANGED <<service, package>>
      BY <1>2, <2>3 DEF Uninstall, Sudo, LookForLock, RemoveLock, RemoveLockFails, RemoveRow,
         Unbind, Undone, RemoveState, CannotByChance, Die, Begin
    <3> QED
      BY <3>1 DEF ServiceType, service
  <2> QED
    BY <2>1, <2>2, <2>3
<1>3. CASE Enroll \/ Trigger \/ Reinstall
  BY <1>3 DEF Enroll, Trigger, Reinstall, ServiceType, service, Unit
<1>4. CASE Upgrade \/ CloneLock \/ DropLock \/ RestartShell \/ UNCHANGED vars
  BY <1>4 DEF Upgrade, CloneLock, DropLock, RestartShell, vars, ServiceType, service
<1> QED
  BY <1>1, <1>2, <1>3, <1>4 DEF Next

\* A command that begins finds one marker of each kind at most, or notes that it
\* does not; no step adds to them but the one that writes the block.
LEMMA MarksNext ==
  ASSUME DesktopType, Marks, [Next]_vars
  PROVE  Marks'
<1>1. ASSUME binding' \in {binding, Block, WithoutFirst(binding)}, single' => single
      PROVE  Marks'
  BY <1>1, BlockIsSingle, CutMarkers DEF Marks, DesktopType
<1>2. ASSUME NEW p \in Process, Setup(p) PROVE Marks'
  <2>1. single' = single
    BY <1>2 DEF Setup, history, Chance, Render, Look, Claim, Stage, Previous, Aside, Swap,
       SwapFails, PutBack, Discard, Discover, Enable, Bind, AddRow, Reload, Code, Restart, Stamp,
       EnableUnits, Watch, Serve, Mishap, Warn
  <2>2. CASE Bind(p) \/ AddRow(p)
    <3>1. binding' \in {binding, Block}
      BY <2>2 DEF Bind, AddRow, RollBack, desktop
    <3> QED
      BY <1>1, <2>1, <3>1
  <2>3. CASE ~Bind(p) /\ ~AddRow(p)
    <3>1. UNCHANGED desktop
      BY <1>2, <2>3 DEF Setup, Render, Look, Claim, Stage, Previous, Aside, Swap, SwapFails,
         PutBack, Discard, Discover, Enable, Reload, Code, Restart, Stamp, EnableUnits, Watch,
         Serve, Mishap, Warn, Refuse, Fail, RollBack
    <3> QED
      BY <1>1, <2>1, <3>1 DEF desktop
  <2> QED
    BY <2>2, <2>3
<1>3. ASSUME NEW p \in Process, Uninstall(p) \/ Die(p) PROVE Marks'
  <2>1. single' = single
    BY <1>3 DEF Uninstall, history, Chance, Sudo, LookForLock, RemoveLock, RemoveLockFails,
       RemoveRow, Unbind, Undone, StopUnits, RemoveSocket, RemoveState, Forget, RemovePackage,
       CannotByChance, Die
  <2>2. CASE Unbind(p) \/ RemoveRow(p)
    <3>1. binding' \in {binding, WithoutFirst(binding)}
      BY <2>2 DEF Unbind, RemoveRow
    <3> QED
      BY <1>1, <2>1, <3>1
  <2>3. CASE ~Unbind(p) /\ ~RemoveRow(p)
    <3>1. UNCHANGED desktop
      BY <1>3, <2>3 DEF Uninstall, Sudo, LookForLock, RemoveLock, RemoveLockFails, Undone,
         StopUnits, RemoveSocket, RemoveState, Forget, RemovePackage, CannotByChance, Die
    <3> QED
      BY <1>1, <2>1, <3>1 DEF desktop
  <2> QED
    BY <2>2, <2>3
<1>4. ASSUME NEW p \in Process, Begin(p) PROVE Marks'
  <2>1. (single' => Single(binding)) /\ binding' = binding
    BY <1>4 DEF Begin, desktop
  <2> QED
    BY <2>1 DEF Marks, Single
<1>5. CASE \/ Upgrade \/ CloneLock \/ DropLock \/ RestartShell \/ Enroll \/ Trigger \/ Reinstall
           \/ UNCHANGED vars
  <2>1. binding' = binding /\ (single' => single)
    BY <1>5 DEF Upgrade, CloneLock, DropLock, RestartShell, Enroll, Trigger, Reinstall, vars,
       Elsewhere, Aloof, history, desktop
  <2> QED
    BY <1>1, <2>1
<1> QED
  BY <1>2, <1>3, <1>4, <1>5 DEF Next

LEMMA TypeNext ==
  ASSUME LockInv, TypeInv, [Next]_vars
  PROVE  TypeInv'
<1>1. PluginType /\ StampType /\ DesktopType /\ ServiceType
  BY DEF TypeInv, SurfaceType, PluginType, StampType, DesktopType, ServiceType
<1>2. PluginType' /\ StampType' /\ DesktopType' /\ ServiceType'
  BY <1>1, PluginNext, StampNext, DesktopNext, ServiceNext DEF TypeInv
<1>3. SurfaceType'
  BY <1>2 DEF SurfaceType, PluginType, StampType, DesktopType, ServiceType
<1> QED
  BY <1>1, <1>3, HistoryNext, CommandNext, MarksNext DEF TypeInv

LEMMA InitType == ASSUME Init PROVE TypeInv
<1>1. HistoryType
  <2>1. 0 \in 0..MaxRuns /\ 0 \in 0..MaxEvents
    BY BoundAssumption
  <2> QED
    BY <2>1 DEF Init, HistoryType
<1>2. CommandType
  BY DEF Init, CommandType, Rendered, SetupSteps
<1>3. SurfaceType
  <2>1. DesktopType
    BY FoundAssumption DEF Init, DesktopType, Marker
  <2> QED
    BY <2>1 DEF Init, SurfaceType, DesktopType
<1>4. Marks
  BY DEF Init, Marks
<1> QED
  BY <1>1, <1>2, <1>3, <1>4 DEF TypeInv

(***************************************************************************)
(* Every variable has its type, and a step has in its hands what it needs: *)
(* the clone that was rendered, the directory that was staged              *)
(* (lock.rs:436-487).                                                      *)
(***************************************************************************)
THEOREM TypeCorrect == Spec => []TypeOK
<1>1. LockInv /\ CodeInv /\ TypeInv => TypeOK
  BY DEF LockInv, Shape, Holds, CodeInv, TypeInv, HistoryType, CommandType, SurfaceType, TypeOK,
     Step, Rendered, Marker
<1>2. Init => LockInv /\ CodeInv /\ TypeInv
  BY InitInv, InitCode, InitType
<1>3. LockInv /\ CodeInv /\ TypeInv /\ [Next]_vars => (LockInv /\ CodeInv /\ TypeInv)'
  BY NextInv, NextCode, TypeNext
<1> QED
  BY <1>1, <1>2, <1>3, PTL DEF Spec

-----------------------------------------------------------------------------
(***************************************************************************)
(* What a command that has the integration to itself has done so far.      *)
(***************************************************************************)
Surfaces == enabled /\ binding = Block /\ HasRow

\* No block is left of the bindings, where there was one marker of each kind.
Unbound == single => ~HasBlock(binding)

\* Markers are the wrong way round, and what removes by them fails each time.
Stubborn == Text!Malformed(menu) \/ Reversed(binding)

AsFound ==
  /\ found = "integrated" => Integrated
  /\ found = "bare" => Bare
  /\ found # "stranded" => ~Stranded

Early == {"render", "look", "claim", "stage", "previous", "aside", "sudo", "lock", "remove"}

\* The plugin that was in place is under a rollback name.
PutAside(p) ==
  /\ target = Nothing /\ found # "bare"
  /\ found = "integrated" => rollback[p] \in Version /\ Surfaces

SetupDone(p) ==
  /\ pc[p] \in Early => AsFound
  /\ pc[p] = "swap" =>
       IF previous[p] THEN PutAside(p)
       ELSE target = Nothing /\ found # "integrated" /\ (found = "bare" => Bare)
  /\ pc[p] = "putback" => PutAside(p)
  /\ pc[p] \in InPlace => target \in Version /\ (found = "integrated" => Surfaces)
  /\ pc[p] \in InCharge => enabled
  /\ pc[p] \in InCharge \ {"bind"} => binding = Block
  /\ pc[p] \in InCharge \ {"bind", "row"} => HasRow
  /\ pc[p] \in Rendered \ {"look"} /\ found = "integrated" => ~first[p]

UndoDone(p) ==
  /\ pc[p] \in UndoSteps => found # "integrated"
  /\ pc[p] \in {"undo", "undoLock", "remove"} => target \in Version
  /\ pc[p] \in {"undoBind", "undoRow", "undoReload"} => target = Nothing /\ ~enabled
  /\ pc[p] \in {"undoRow", "undoReload"} => Unbound
  /\ pc[p] = "undoReload" => ~HasRow

AfterState == {"forget", "package"}
AfterSocket == {"unstate"} \union AfterState
AfterServe == {"unsocket"} \union AfterSocket
AfterWatch == {"unserve"} \union AfterServe
AfterBind == {"unwatch"} \union AfterWatch
AfterRow == {"unbind"} \union AfterBind
AfterLock == {"unrow"} \union AfterRow

LockGone == ~IsGenerated /\ (found # "stranded" => (enabled => target = OwnLock))
NoUnits == units = [enabled |-> {}, active |-> {}]

UninstallDone(p) ==
  /\ kept[p] /\ clean => pc[p] \in AfterRow /\ Stubborn
  /\ ~kept[p] =>
       /\ pc[p] \in AfterLock => LockGone
       /\ pc[p] \in AfterRow => ~HasRow
       /\ pc[p] \in AfterBind => Unbound
       /\ pc[p] \in AfterWatch => "path" \notin units.enabled \union units.active
       /\ pc[p] \in AfterServe => NoUnits
       /\ pc[p] \in AfterSocket => ~socket
       /\ pc[p] \in AfterState => stamp = Nothing

Doing == alone # Nothing => SetupDone(alone) /\ UndoDone(alone) /\ UninstallDone(alone)
DoneInv == Doing /\ NeverHalfIntegrated /\ RemovalIsWhole

Withdrawn == target = Nothing /\ ~enabled /\ ~HasRow /\ Unbound
Removed == LockGone /\ Unbound /\ ~HasRow /\ NoUnits /\ ~socket /\ stamp = Nothing

\* Nothing is said of a command that was not alone.
LEMMA AloneDone ==
  ASSUME CodeInv, NEW p \in Process, pc[p] # "idle", UNCHANGED alone,
         alone = p /\ alone # Nothing => DoneInv'
  PROVE  DoneInv'
<1>1. CASE alone = p /\ alone # Nothing
  BY <1>1
<1>2. CASE ~(alone = p /\ alone # Nothing)
  <2>1. alone' = Nothing
    BY <1>2 DEF CodeInv
  <2> QED
    BY <2>1 DEF DoneInv, Doing, NeverHalfIntegrated, RemovalIsWhole, Done
<1> QED
  BY <1>1, <1>2

LEMMA GoOnDone ==
  ASSUME LockInv, NEW p \in Process, alone = p, UNCHANGED alone, NEW label, label # "idle",
         pc' = [pc EXCEPT ![p] = label], SetupDone(p)', UndoDone(p)', UninstallDone(p)'
  PROVE  DoneInv'
<1>1. ~Done'
  BY DEF Done, Busy, LockInv, Shape
<1> QED
  BY <1>1 DEF DoneInv, Doing, NeverHalfIntegrated, RemovalIsWhole

LEMMA EndDone ==
  ASSUME LockInv, TypeInv, NEW p \in Process, alone = p, UNCHANGED <<alone, found>>,
         NEW said, Ends(p, said),
         said = "ok" => Integrated',
         said = "undone" => Withdrawn',
         said \in {"refused", "failed", "undone", "stuck"} /\ found = "integrated" =>
           Integrated' \/ (target' = Nothing /\ rollback'[p] # Nothing),
         said = "refused" /\ found = "bare" => Bare',
         said = "removed" => Removed',
         said = "kept" => ~clean' \/ Stubborn'
  PROVE  DoneInv'
<1>1. pc'[p] = "idle" /\ ~kept'[p] /\ result' = said
  BY DEF Ends, Forgets, LockInv, Shape, TypeInv, CommandType
<1>2. Doing'
  <2>1. SetupDone(p)' /\ UndoDone(p)'
    BY <1>1 DEF SetupDone, UndoDone, Early, InPlace, InCharge, Rendered, SetupSteps, UndoSteps
  <2>2. UninstallDone(p)'
    BY <1>1 DEF UninstallDone, AfterLock, AfterRow, AfterBind, AfterWatch, AfterServe,
       AfterSocket, AfterState
  <2> QED
    BY <2>1, <2>2 DEF Doing
<1>3. NeverHalfIntegrated'
  BY <1>1 DEF NeverHalfIntegrated, Withdrawn, Unbound
<1>4. RemovalIsWhole'
  BY <1>1 DEF RemovalIsWhole, Removed, LockGone, NoUnits, Unbound, Stubborn
<1> QED
  BY <1>2, <1>3, <1>4 DEF DoneInv

\* From one step of a setup to another.
LEMMA OnwardDone ==
  ASSUME LockInv, NEW p \in Process, alone = p, UNCHANGED <<alone, kept>>, clean' => clean,
         UninstallDone(p), pc[p] \in SetupSteps, NEW label \in SetupSteps,
         pc' = [pc EXCEPT ![p] = label], SetupDone(p)'
  PROVE  DoneInv'
<1>1. pc'[p] = label
  BY DEF LockInv, Shape
<1>2. UndoDone(p)'
  BY <1>1 DEF UndoDone, SetupSteps, UndoSteps
<1>3. UninstallDone(p)'
  <2>1. ~(kept[p] /\ clean)
    BY DEF UninstallDone, SetupSteps, AfterRow, AfterBind, AfterWatch, AfterServe, AfterSocket,
       AfterState
  <2> QED
    BY <1>1, <2>1 DEF UninstallDone, SetupSteps, AfterLock, AfterRow, AfterBind, AfterWatch,
       AfterServe, AfterSocket, AfterState
<1>4. label # "idle"
  BY DEF SetupSteps
<1> QED
  BY <1>2, <1>3, <1>4, GoOnDone

\* What changes nothing the user sees keeps what was said of it.
LEMMA SameAsFound ==
  ASSUME UNCHANGED <<target, enabled, binding, menu, found>>
  PROVE  /\ AsFound => AsFound'
         /\ Integrated => Integrated'
         /\ Bare => Bare'
         /\ Surfaces => Surfaces'
         /\ HasRow => HasRow'
         /\ ~HasRow => ~HasRow'
         /\ LockGone => LockGone'
  BY DEF AsFound, Integrated, Bare, Stranded, Surfaces, HasRow, IsGenerated, LockGone

LEMMA SameMarkers ==
  ASSUME UNCHANGED <<binding, menu, single>>
  PROVE  (Unbound => Unbound') /\ (Stubborn => Stubborn')
  BY DEF Unbound, Stubborn

LEMMA RefusedDone ==
  ASSUME LockInv, TypeInv, NEW p \in Process, alone = p, UNCHANGED <<alone, found>>,
         AsFound, Ends(p, "refused"), UNCHANGED <<target, enabled, binding, menu>>
  PROVE  DoneInv'
<1>1. /\ found = "integrated" => Integrated'
      /\ found = "bare" => Bare'
  BY SameAsFound DEF AsFound
<1> QED
  BY <1>1, EndDone

Solo(p) ==
  /\ LockInv /\ CodeInv /\ TypeInv
  /\ alone = p /\ alone # Nothing
  /\ SetupDone(p) /\ UndoDone(p) /\ UninstallDone(p)

LEMMA EarlyDone ==
  ASSUME NEW p \in Process, Solo(p),
         Render(p) \/ Look(p) \/ Claim(p) \/ Stage(p) \/ Previous(p)
  PROVE  DoneInv'
<1>1. /\ pc[p] \in {"render", "look", "claim", "stage", "previous"} /\ UNCHANGED history
      /\ UNCHANGED <<target, enabled, binding, menu>>
  BY DEF Render, Look, Claim, Stage, Previous, Refuse, plugin, desktop
<1>2. AsFound
  BY <1>1 DEF Solo, SetupDone, Early
<1>3. CASE Refuse(p)
  BY <1>1, <1>2, <1>3, RefusedDone DEF Solo, Refuse, history
<1>4. CASE ~Refuse(p)
  <2>1. /\ kept' = kept
        /\ \/ pc[p] = "render" /\ pc' = [pc EXCEPT ![p] = "look"] /\ first' = first
           \/ /\ pc[p] = "look" /\ pc' = [pc EXCEPT ![p] = "claim"]
              /\ first' = [first EXCEPT ![p] = ~IsGenerated]
           \/ pc[p] = "claim" /\ pc' = [pc EXCEPT ![p] = "stage"] /\ first' = first
           \/ pc[p] = "stage" /\ pc' = [pc EXCEPT ![p] = "previous"] /\ first' = first
           \/ /\ pc[p] = "previous" /\ pc' = [pc EXCEPT ![p] = "aside"] /\ first' = first
              /\ target # Nothing
           \/ /\ pc[p] = "previous" /\ pc' = [pc EXCEPT ![p] = "swap"] /\ first' = first
              /\ previous' = [previous EXCEPT ![p] = FALSE] /\ target = Nothing
    BY <1>4 DEF Render, Look, Claim, Stage, Previous, Goto, Moves, local
  <2>2. /\ pc \in [Process -> Step] /\ previous \in [Process -> BOOLEAN]
        /\ first \in [Process -> BOOLEAN]
    BY DEF Solo, LockInv, Shape, TypeInv, CommandType
  <2>3. PICK label \in SetupSteps : pc' = [pc EXCEPT ![p] = label]
    BY <2>1 DEF SetupSteps
  <2>4. /\ pc'[p] = label
        /\ label \in {"look", "claim", "stage", "previous", "aside", "swap"}
        /\ label = "swap" => ~previous'[p] /\ target = Nothing
    BY <2>1, <2>2, <2>3
  <2>5. found = "integrated" /\ label # "look" => ~first'[p]
    <3>1. found = "integrated" => IsGenerated
      BY <1>2 DEF AsFound, Integrated
    <3>2. CASE pc[p] = "look"
      BY <2>1, <2>2, <3>1, <3>2
    <3>3. CASE pc[p] # "look"
      <4>1. first' = first
        BY <2>1, <3>3, Zenon
      <4>2. label # "look" => pc[p] # "render"
        BY <1>4, <2>2, <2>3 DEF Render, Look, Claim, Stage, Previous, Moves
      <4> QED
        BY <1>1, <3>3, <4>1, <4>2 DEF Solo, SetupDone, Rendered, SetupSteps
    <3> QED
      BY <3>2, <3>3
  <2>6. AsFound' /\ found' = found
    BY <1>1, <1>2, SameAsFound DEF history
  <2>7. label = "swap" => found # "integrated" /\ target' = Nothing /\ (found = "bare" => Bare')
    <3>1. label = "swap" => ~IsGenerated
      BY <2>4, ContentAssumption DEF IsGenerated
    <3> QED
      BY <1>1, <1>2, <2>4, <2>6, <3>1 DEF AsFound, Integrated
  <2>8. SetupDone(p)'
    BY <2>4, <2>5, <2>6, <2>7 DEF SetupDone, InPlace, InCharge
  <2>9. pc[p] \in SetupSteps
    BY <1>1 DEF SetupSteps
  <2> QED
    BY <1>1, <2>1, <2>3, <2>8, <2>9, OnwardDone DEF Solo, history
<1> QED
  BY <1>3, <1>4

LEMMA AsideDone ==
  ASSUME NEW p \in Process, Solo(p), Aside(p)
  PROVE  DoneInv'
<1>1. pc[p] = "aside" /\ UNCHANGED history /\ UNCHANGED <<enabled, binding, menu>>
  BY DEF Aside, Refuse, desktop
<1>2. AsFound
  BY <1>1 DEF Solo, SetupDone, Early
<1>3. CASE target = Nothing
  BY <1>1, <1>2, <1>3, RefusedDone DEF Aside, Refuse, Solo, history
<1>4. CASE target # Nothing
  <2>1. /\ pc' = [pc EXCEPT ![p] = "swap"] /\ target' = Nothing
        /\ rollback' = [rollback EXCEPT ![p] = target]
        /\ UNCHANGED <<previous, first, kept>>
    BY <1>4 DEF Aside, Goto, Moves, local
  <2>2. pc'[p] = "swap" /\ rollback'[p] = target /\ previous[p]
    BY <1>1, <2>1 DEF Solo, LockInv, Shape, Holds
  <2>3. found # "bare"
    BY <1>2, <1>4 DEF AsFound, Bare
  <2>4. found = "integrated" => target \in Version /\ Surfaces'
    BY <1>1, <1>2 DEF AsFound, Integrated, IsGenerated, Surfaces, HasRow
  <2>5. found = "integrated" => ~first[p]
    BY <1>1 DEF Solo, SetupDone, Rendered, SetupSteps
  <2>6. SetupDone(p)'
    BY <1>1, <2>1, <2>2, <2>3, <2>4, <2>5
    DEF SetupDone, PutAside, Early, InPlace, InCharge, history
  <2>7. pc[p] \in SetupSteps /\ "swap" \in SetupSteps
    BY <1>1 DEF SetupSteps
  <2> QED
    BY <1>1, <2>1, <2>6, <2>7, OnwardDone DEF Solo, history
<1> QED
  BY <1>3, <1>4

LEMMA SwapDone ==
  ASSUME NEW p \in Process, Solo(p), Swap(p)
  PROVE  DoneInv'
<1>1. /\ pc[p] = "swap" /\ UNCHANGED history /\ UNCHANGED <<enabled, binding, menu, first, kept>>
      /\ target' = stage[p]
  BY DEF Swap, Goto, Moves, local, desktop
<1>2. PICK label \in {"discard", "discover"} : pc' = [pc EXCEPT ![p] = label]
  BY DEF Swap, Goto, Moves
<1>3. pc'[p] = label /\ target' \in Version
  BY <1>1, <1>2 DEF Solo, LockInv, Shape, Holds
<1>4. found = "integrated" => Surfaces /\ ~first[p]
  BY <1>1 DEF Solo, SetupDone, PutAside, Rendered, SetupSteps
<1>5. found = "integrated" => Surfaces'
  BY <1>1, <1>4 DEF Surfaces, HasRow
<1>6. SetupDone(p)'
  BY <1>1, <1>3, <1>4, <1>5 DEF SetupDone, Early, InPlace, InCharge, history
<1>7. pc[p] \in SetupSteps /\ label \in SetupSteps
  BY <1>1 DEF SetupSteps
<1> QED
  BY <1>1, <1>2, <1>6, <1>7, OnwardDone DEF Solo, history

LEMMA SwapFailsDone ==
  ASSUME NEW p \in Process, Solo(p), SwapFails(p)
  PROVE  DoneInv'
<1>1. /\ pc[p] = "swap" /\ UNCHANGED <<target, enabled, rollback, binding, menu>>
      /\ UNCHANGED <<alone, found>> /\ (clean' => clean)
  BY ChanceKeeps, ChanceCode DEF SwapFails, history, desktop
<1>2. CASE previous[p]
  <2>1. pc' = [pc EXCEPT ![p] = "putback"] /\ UNCHANGED <<first, kept>>
    BY <1>2 DEF SwapFails, Goto, Moves, local
  <2>2. pc'[p] = "putback"
    BY <2>1 DEF Solo, LockInv, Shape
  <2>3. PutAside(p) /\ (found = "integrated" => ~first[p])
    BY <1>1, <1>2 DEF Solo, SetupDone, Rendered, SetupSteps
  <2>4. PutAside(p)'
    BY <1>1, <2>3, SameAsFound DEF PutAside
  <2>5. SetupDone(p)'
    BY <1>1, <2>1, <2>2, <2>3, <2>4 DEF SetupDone, Early, InPlace, InCharge
  <2>6. pc[p] \in SetupSteps /\ "putback" \in SetupSteps
    BY <1>1 DEF SetupSteps
  <2> QED
    BY <1>1, <2>1, <2>5, <2>6, OnwardDone DEF Solo
<1>3. CASE ~previous[p]
  <2>1. found # "integrated" /\ (found = "bare" => Bare)
    BY <1>1, <1>3 DEF Solo, SetupDone
  <2>2. found = "bare" => Bare'
    BY <1>1, <2>1, SameAsFound
  <2>3. Ends(p, "refused")
    BY <1>3 DEF SwapFails
  <2> QED
    BY <1>1, <2>1, <2>2, <2>3, EndDone DEF Solo
<1> QED
  BY <1>2, <1>3

LEMMA PutBackDone ==
  ASSUME NEW p \in Process, Solo(p), PutBack(p)
  PROVE  DoneInv'
<1>1. /\ pc[p] = "putback" /\ UNCHANGED <<enabled, binding, menu>>
      /\ UNCHANGED <<alone, found>>
  BY DEF PutBack, Fail, plugin, desktop, history
<1>2. PutAside(p)
  BY <1>1 DEF Solo, SetupDone
<1>3. Ends(p, "refused") /\ target' = rollback[p]
  BY <1>2 DEF PutBack, PutAside
<1>4. found = "integrated" => Integrated'
  BY <1>1, <1>2, <1>3 DEF PutAside, Surfaces, Integrated, IsGenerated, HasRow
<1>5. found # "bare"
  BY <1>2 DEF PutAside
<1> QED
  BY <1>1, <1>3, <1>4, <1>5, EndDone DEF Solo

\* An error after the swap, where a working integration was found.
LEMMA FailedDone ==
  ASSUME NEW p \in Process, Solo(p), pc[p] \in InPlace \union {"putback"},
         UNCHANGED <<alone, found>>, Fail(p) \/ (Ends(p, "failed") /\ UNCHANGED <<plugin, desktop>>)
  PROVE  DoneInv'
<1>1. Ends(p, "failed") /\ UNCHANGED <<target, enabled, rollback, binding, menu>>
  BY DEF Fail, plugin, desktop
<1>2. CASE pc[p] = "putback"
  <2>1. found = "integrated" => target' = Nothing /\ rollback'[p] # Nothing
    BY <1>1, <1>2, ContentAssumption DEF Solo, SetupDone, PutAside
  <2> QED
    BY <1>1, <2>1, EndDone DEF Solo
<1>3. CASE pc[p] \in InPlace
  <2>1. found = "integrated" => Integrated
    BY <1>3 DEF Solo, SetupDone, Surfaces, Integrated, IsGenerated
  <2>2. found = "integrated" => Integrated'
    BY <1>1, <2>1, SameAsFound
  <2> QED
    BY <1>1, <2>2, EndDone DEF Solo
<1> QED
  BY <1>2, <1>3

LEMMA LaterDone ==
  ASSUME NEW p \in Process, Solo(p),
         \/ Discard(p) \/ Discover(p) \/ Enable(p) \/ Reload(p) \/ Code(p) \/ Restart(p)
         \/ Stamp(p) \/ EnableUnits(p) \/ Watch(p)
  PROVE  DoneInv'
<1>1. /\ pc[p] \in InPlace /\ pc[p] \in SetupSteps \ {"bind", "row"}
      /\ UNCHANGED history /\ UNCHANGED <<target, binding, menu>>
  BY DEF Discard, Discover, Enable, Reload, Code, Restart, Stamp, EnableUnits, Watch, Fail,
     plugin, desktop, InPlace, InCharge, SetupSteps
<1>2. CASE Fail(p)
  BY <1>1, <1>2, FailedDone DEF history
<1>3. CASE ~Fail(p)
  <2>1. /\ UNCHANGED <<first, kept>> /\ enabled' \in {enabled, TRUE}
        /\ \/ pc[p] = "discard" /\ pc' = [pc EXCEPT ![p] = "discover"]
           \/ pc[p] = "discover" /\ pc' = [pc EXCEPT ![p] = "enable"]
           \/ pc[p] = "enable" /\ pc' = [pc EXCEPT ![p] = "bind"] /\ enabled' = TRUE
           \/ /\ pc[p] \in InCharge \ {"bind", "row"} /\ enabled' = enabled
              /\ \E label \in {"code", "units", "restart", "stamp", "watch", "serve"} :
                   pc' = [pc EXCEPT ![p] = label]
    BY <1>3 DEF Discard, Discover, Enable, Reload, Code, Restart, Stamp, EnableUnits, Watch,
       Goto, Moves, local, plugin, InCharge
  <2>2. PICK label \in InPlace \ {"discard", "row", "reload"} : pc' = [pc EXCEPT ![p] = label]
    BY <2>1 DEF InPlace, InCharge
  <2>3. pc'[p] = label
    BY <2>2 DEF Solo, LockInv, Shape
  <2>4. /\ label \in InCharge => enabled'
        /\ label \in InCharge \ {"bind"} => pc[p] \in InCharge \ {"bind", "row"}
    BY <2>1, <2>2, <2>3 DEF Solo, SetupDone, LockInv, Shape, InCharge
  <2>5. target \in Version /\ (found = "integrated" => Surfaces /\ ~first[p])
    BY <1>1 DEF Solo, SetupDone, InPlace, InCharge, Rendered, SetupSteps
  <2>6. found = "integrated" => Surfaces'
    BY <1>1, <2>1, <2>5 DEF Surfaces, HasRow
  <2>7. label \in InCharge \ {"bind"} => binding' = Block /\ HasRow'
    BY <1>1, <2>4 DEF Solo, SetupDone, HasRow
  <2>8. SetupDone(p)'
    BY <1>1, <2>1, <2>2, <2>3, <2>4, <2>5, <2>6, <2>7
    DEF SetupDone, Early, InPlace, InCharge, history
  <2>9. label \in SetupSteps
    BY <2>2 DEF InPlace, InCharge, SetupSteps
  <2> QED
    BY <1>1, <2>1, <2>2, <2>8, <2>9, OnwardDone DEF Solo, history
<1> QED
  BY <1>2, <1>3

\* A later error of a first install, which is then undone.
LEMMA RollBackDone ==
  ASSUME NEW p \in Process, Solo(p), pc[p] \in {"bind", "row", "reload"}, RollBack(p),
         UNCHANGED <<alone, found>>, clean' => clean
  PROVE  DoneInv'
<1>1. UNCHANGED <<target, enabled, rollback, binding, menu>>
  BY DEF RollBack, plugin, desktop
<1>2. pc[p] \in InPlace /\ pc[p] \in Rendered \ {"look"} /\ pc[p] \in SetupSteps
  BY DEF InPlace, InCharge, Rendered, SetupSteps
<1>3. CASE first[p]
  <2>1. pc' = [pc EXCEPT ![p] = "undo"] /\ kept' = kept
    BY <1>3 DEF RollBack, Goto, Moves, local
  <2>2. pc'[p] = "undo"
    BY <2>1 DEF Solo, LockInv, Shape
  <2>3. found # "integrated" /\ target \in Version
    BY <1>2, <1>3 DEF Solo, SetupDone
  <2>4. SetupDone(p)'
    BY <2>2 DEF SetupDone, Early, InPlace, InCharge, Rendered, SetupSteps
  <2>5. UndoDone(p)'
    BY <1>1, <2>2, <2>3 DEF UndoDone
  <2>6. ~(kept[p] /\ clean)
    BY <1>2 DEF Solo, UninstallDone, SetupSteps, AfterRow, AfterBind, AfterWatch, AfterServe,
       AfterSocket, AfterState
  <2>7. UninstallDone(p)'
    BY <2>1, <2>2, <2>6 DEF UninstallDone, AfterLock, AfterRow, AfterBind, AfterWatch,
       AfterServe, AfterSocket, AfterState
  <2> QED
    BY <2>1, <2>4, <2>5, <2>7, GoOnDone DEF Solo
<1>4. CASE ~first[p]
  BY <1>2, <1>4, FailedDone DEF RollBack
<1> QED
  BY <1>3, <1>4

LEMMA SurfaceDone ==
  ASSUME NEW p \in Process, Solo(p), Bind(p) \/ AddRow(p)
  PROVE  DoneInv'
<1>1. /\ pc[p] \in {"bind", "row"} /\ UNCHANGED history
      /\ UNCHANGED <<target, enabled>>
  BY DEF Bind, AddRow, RollBack, plugin
<1>2. CASE RollBack(p)
  BY <1>1, <1>2, RollBackDone DEF history
<1>3. CASE ~RollBack(p)
  <2>1. /\ UNCHANGED <<first, kept>>
        /\ \/ /\ pc[p] = "bind" /\ pc' = [pc EXCEPT ![p] = "row"]
              /\ binding' = Block /\ menu' = menu
           \/ /\ pc[p] = "row" /\ pc' = [pc EXCEPT ![p] = "reload"] /\ binding' = binding
              /\ ~Text!Malformed(menu) /\ ~Text!Unclosed(menu) /\ menu' = Text!RenderEntry(menu)
    BY <1>3 DEF Bind, AddRow, Goto, Moves, local
  <2>2. PICK label \in {"row", "reload"} : pc' = [pc EXCEPT ![p] = label]
    BY <2>1
  <2>3. pc'[p] = label
    BY <2>2 DEF Solo, LockInv, Shape
  <2>4. /\ target \in Version /\ enabled
        /\ found = "integrated" => Surfaces /\ ~first[p]
        /\ pc[p] = "row" => binding = Block
    BY <1>1 DEF Solo, SetupDone, InPlace, InCharge, Rendered, SetupSteps
  <2>5. binding' = Block /\ (label = "reload" => pc[p] = "row")
    BY <2>1, <2>2, <2>3, <2>4
  <2>6. pc[p] = "row" => HasRow'
    <3>1. CASE pc[p] = "row"
      <4>1. Text!HasBlock(Text!RenderEntry(menu))
        BY <2>1, <3>1, EntryText DEF Solo, TypeInv, SurfaceType
      <4> QED
        BY <2>1, <3>1, <4>1 DEF HasRow
    <3> QED
      BY <3>1
  <2>7. found = "integrated" => HasRow'
    <3>1. CASE pc[p] = "bind"
      BY <2>1, <2>4, <3>1 DEF Surfaces, HasRow
    <3> QED
      BY <1>1, <2>6, <3>1
  <2>8. SetupDone(p)'
    BY <1>1, <2>1, <2>2, <2>3, <2>4, <2>5, <2>6, <2>7
    DEF SetupDone, Surfaces, Early, InPlace, InCharge, history
  <2>9. pc[p] \in SetupSteps /\ label \in SetupSteps
    BY <1>1 DEF SetupSteps
  <2> QED
    BY <1>1, <2>1, <2>2, <2>8, <2>9, OnwardDone DEF Solo, history
<1> QED
  BY <1>2, <1>3

\* What a setup that ends well leaves is what it has put in place.
LEMMA ServeDone ==
  ASSUME NEW p \in Process, Solo(p), Serve(p) \/ Warn(p)
  PROVE  DoneInv'
<1>1. /\ pc[p] \in {"restart", "stamp", "units", "watch", "serve"}
      /\ UNCHANGED <<target, enabled, binding, menu>>
      /\ UNCHANGED <<alone, found>> /\ (clean' => clean)
  BY ChanceKeeps, ChanceCode DEF Serve, Warn, plugin, desktop, history
<1>2. /\ target \in Version /\ enabled /\ binding = Block /\ HasRow
      /\ found = "integrated" => Surfaces /\ ~first[p]
  BY <1>1 DEF Solo, SetupDone, InPlace, InCharge, Rendered, SetupSteps
<1>3. CASE Ends(p, "ok")
  <2>1. Integrated'
    BY <1>1, <1>2 DEF Integrated, IsGenerated, HasRow
  <2> QED
    BY <1>1, <1>3, <2>1, EndDone DEF Solo
<1>4. CASE Goto(p, "units")
  <2>1. pc' = [pc EXCEPT ![p] = "units"] /\ UNCHANGED <<first, kept>>
    BY <1>4 DEF Goto, Moves, local
  <2>2. pc'[p] = "units"
    BY <2>1 DEF Solo, LockInv, Shape
  <2>3. HasRow' /\ (found = "integrated" => Surfaces')
    BY <1>1, <1>2, SameAsFound
  <2>4. SetupDone(p)'
    BY <1>1, <1>2, <2>1, <2>2, <2>3 DEF SetupDone, Early, InPlace, InCharge
  <2>5. pc[p] \in SetupSteps /\ "units" \in SetupSteps
    BY <1>1 DEF SetupSteps
  <2> QED
    BY <1>1, <2>1, <2>4, <2>5, OnwardDone DEF Solo
<1> QED
  BY <1>3, <1>4 DEF Serve, Warn

LEMMA MishapDone ==
  ASSUME NEW p \in Process, Solo(p), Mishap(p) \/ Die(p)
  PROVE  DoneInv'
<1>1. UNCHANGED <<alone, found>> /\ (clean' => clean)
  BY ChanceKeeps, ChanceCode DEF Mishap, Die
<1>2. CASE pc[p] \in {"render", "look", "claim", "stage", "aside", "sudo"} /\ Refuse(p)
  <2>1. AsFound /\ Ends(p, "refused") /\ UNCHANGED <<target, enabled, binding, menu>>
    BY <1>2 DEF Solo, SetupDone, Early, Refuse, desktop
  <2> QED
    BY <1>1, <2>1, RefusedDone DEF Solo
<1>3. CASE pc[p] \in {"putback", "discard", "discover", "enable"} /\ Fail(p)
  BY <1>1, <1>3, FailedDone DEF InPlace
<1>4. CASE pc[p] \in {"bind", "row", "reload"} /\ RollBack(p)
  BY <1>1, <1>4, RollBackDone
<1>5. CASE Die(p)
  BY <1>1, <1>5, EndDone DEF Die, Solo
<1> QED
  BY <1>2, <1>3, <1>4, <1>5 DEF Mishap

LEMMA SetupSolo ==
  ASSUME NEW p \in Process, Solo(p), Setup(p) \/ Die(p)
  PROVE  DoneInv'
<1>1. CASE Render(p) \/ Look(p) \/ Claim(p) \/ Stage(p) \/ Previous(p) \/ Aside(p) \/ Swap(p)
  BY <1>1, EarlyDone, AsideDone, SwapDone
<1>2. CASE SwapFails(p) \/ PutBack(p) \/ Bind(p) \/ AddRow(p) \/ Serve(p)
  BY <1>2, SwapFailsDone, PutBackDone, SurfaceDone, ServeDone
<1>3. CASE \/ Discard(p) \/ Discover(p) \/ Enable(p) \/ Reload(p) \/ Code(p) \/ Restart(p)
           \/ Stamp(p) \/ EnableUnits(p) \/ Watch(p)
  BY <1>3, LaterDone
<1>4. CASE Mishap(p) \/ Warn(p) \/ Die(p)
  BY <1>4, MishapDone, ServeDone
<1> QED
  BY <1>1, <1>2, <1>3, <1>4 DEF Setup

-----------------------------------------------------------------------------
(***************************************************************************)
(* The undoing of a first install, and uninstall.                          *)
(***************************************************************************)
LEMMA UndoOn ==
  ASSUME NEW p \in Process, Solo(p), UNCHANGED <<alone, kept>>, clean' => clean,
         pc[p] \in UndoSteps, NEW label \in UndoSteps, pc' = [pc EXCEPT ![p] = label],
         UndoDone(p)'
  PROVE  DoneInv'
<1>1. pc'[p] = label
  BY DEF Solo, LockInv, Shape
<1>2. SetupDone(p)'
  BY <1>1 DEF SetupDone, Early, InPlace, InCharge, Rendered, SetupSteps, UndoSteps
<1>3. ~(kept[p] /\ clean)
  BY DEF Solo, UninstallDone, UndoSteps, AfterRow, AfterBind, AfterWatch, AfterServe,
     AfterSocket, AfterState
<1>4. UninstallDone(p)'
  BY <1>1, <1>3 DEF UninstallDone, UndoSteps, AfterLock, AfterRow, AfterBind, AfterWatch,
     AfterServe, AfterSocket, AfterState
<1>5. label # "idle"
  BY DEF UndoSteps
<1> QED
  BY <1>2, <1>4, <1>5, GoOnDone DEF Solo

LEMMA UninstallOn ==
  ASSUME NEW p \in Process, Solo(p), UNCHANGED alone, NEW label \in UninstallSteps,
         pc' = [pc EXCEPT ![p] = label],
         label \in {"sudo", "lock", "remove"} => AsFound',
         label = "remove" => target' \in Version,
         UninstallDone(p)'
  PROVE  DoneInv'
<1>1. pc'[p] = label
  BY DEF Solo, LockInv, Shape
<1>2. SetupDone(p)'
  BY <1>1 DEF SetupDone, Early, InPlace, InCharge, Rendered, SetupSteps, UninstallSteps
<1>3. UndoDone(p)'
  BY <1>1 DEF UndoDone, UndoSteps, UninstallSteps
<1>4. label # "idle"
  BY DEF UninstallSteps
<1> QED
  BY <1>2, <1>3, <1>4, GoOnDone DEF Solo, UninstallDone

\* An error is noted, or ends the undoing of an install that was a first one.
LEMMA CannotDone ==
  ASSUME NEW p \in Process, Solo(p), NEW next \in UninstallSteps, Cannot(p, next),
         UNCHANGED <<alone, found>>,
         ~Undoing(p) => /\ next \notin {"sudo", "lock", "remove"}
                        /\ clean' => next \in AfterRow /\ Stubborn'
  PROVE  DoneInv'
<1>1. CASE Undoing(p)
  <2>1. Ends(p, "stuck")
    BY <1>1 DEF Cannot
  <2>2. found # "integrated"
    BY <1>1 DEF Solo, UndoDone, Undoing
  <2> QED
    BY <2>1, <2>2, EndDone DEF Solo
<1>2. CASE ~Undoing(p)
  <2>1. pc' = [pc EXCEPT ![p] = next] /\ kept' = [kept EXCEPT ![p] = TRUE]
    BY <1>2 DEF Cannot, Moves
  <2>2. pc'[p] = next /\ kept'[p]
    BY <2>1 DEF Solo, LockInv, Shape, TypeInv, CommandType
  <2>3. UninstallDone(p)'
    BY <1>2, <2>2 DEF UninstallDone
  <2> QED
    BY <1>2, <2>1, <2>3, UninstallOn
<1> QED
  BY <1>1, <1>2

LEMMA LookDone ==
  ASSUME NEW p \in Process, Solo(p), Sudo(p) \/ LookForLock(p)
  PROVE  DoneInv'
<1>1. /\ pc[p] \in {"sudo", "undo", "lock"}
      /\ UNCHANGED <<alone, found, clean, kept, target, enabled, binding, menu>>
      /\ pc[p] = "sudo" => pc' = [pc EXCEPT ![p] = "lock"]
      /\ pc[p] # "sudo" => LookForLock(p)
  BY DEF Sudo, LookForLock, Goto, Moves, local, history, plugin, desktop
<1>2. CASE pc[p] = "undo"
  <2>1. IsGenerated /\ target \in Version /\ found # "integrated"
    BY <1>2 DEF Solo, UndoDone, UndoSteps, IsGenerated
  <2>2. pc' = [pc EXCEPT ![p] = "undoLock"]
    BY <1>1, <1>2, <2>1 DEF LookForLock, Undoing, UndoSteps, Goto, Moves
  <2>3. pc'[p] = "undoLock"
    BY <2>2 DEF Solo, LockInv, Shape
  <2>4. UndoDone(p)'
    BY <1>1, <2>1, <2>3 DEF UndoDone
  <2>5. pc[p] \in UndoSteps /\ "undoLock" \in UndoSteps
    BY <1>2 DEF UndoSteps
  <2> QED
    BY <1>1, <2>2, <2>4, <2>5, UndoOn
<1>3. CASE pc[p] # "undo"
  <2>1. AsFound /\ ~(kept[p] /\ clean)
    BY <1>1, <1>3 DEF Solo, SetupDone, UninstallDone, Early, AfterRow, AfterBind, AfterWatch,
       AfterServe, AfterSocket, AfterState
  <2>2. AsFound'
    BY <1>1, <2>1, SameAsFound
  <2>3. PICK label \in {"lock", "remove", "unrow"} :
          /\ pc' = [pc EXCEPT ![p] = label]
          /\ label = "remove" => IsGenerated
          /\ label = "unrow" => ~IsGenerated
    BY <1>1, <1>3 DEF LookForLock, Undoing, UndoSteps, Goto, Moves
  <2>4. pc'[p] = label
    BY <2>3 DEF Solo, LockInv, Shape
  <2>5. label = "unrow" => LockGone
    BY <2>1, <2>3 DEF AsFound, Stranded, LockGone, IsGenerated, Solo, LockInv, Shape, Content
  <2>6. label = "unrow" => LockGone'
    BY <1>1, <2>5, SameAsFound
  <2>7. UninstallDone(p)'
    BY <1>1, <2>1, <2>4, <2>6 DEF UninstallDone, AfterLock, AfterRow, AfterBind, AfterWatch,
       AfterServe, AfterSocket, AfterState
  <2>8. label \in UninstallSteps
    BY DEF UninstallSteps
  <2> QED
    BY <1>1, <2>2, <2>3, <2>7, <2>8, UninstallOn DEF IsGenerated
<1> QED
  BY <1>2, <1>3

LEMMA RemoveLockDone ==
  ASSUME NEW p \in Process, Solo(p), RemoveLock(p)
  PROVE  DoneInv'
<1>1. /\ UNCHANGED <<alone, found, clean, kept, binding, menu>>
      /\ target' = Nothing /\ ~enabled'
  BY DEF RemoveLock, Goto, Moves, local, history, desktop
<1>2. CASE pc[p] = "undoLock"
  <2>1. pc' = [pc EXCEPT ![p] = "undoBind"]
    BY <1>2 DEF RemoveLock, Undoing, UndoSteps, Goto, Moves
  <2>2. pc'[p] = "undoBind"
    BY <2>1 DEF Solo, LockInv, Shape
  <2>3. UndoDone(p)'
    BY <1>1, <1>2, <2>2 DEF UndoDone, Solo, UndoSteps
  <2>4. pc[p] \in UndoSteps /\ "undoBind" \in UndoSteps
    BY <1>2 DEF UndoSteps
  <2> QED
    BY <1>1, <2>1, <2>3, <2>4, UndoOn
<1>3. CASE pc[p] # "undoLock"
  <2>1. pc[p] = "remove"
    BY <1>3 DEF RemoveLock
  <2>2. pc' = [pc EXCEPT ![p] = "unrow"]
    BY <2>1 DEF RemoveLock, Undoing, UndoSteps, Goto, Moves
  <2>3. pc'[p] = "unrow"
    BY <2>2 DEF Solo, LockInv, Shape
  <2>4. LockGone'
    BY <1>1, ContentAssumption DEF LockGone, IsGenerated
  <2>5. ~(kept[p] /\ clean)
    BY <2>1 DEF Solo, UninstallDone, AfterRow, AfterBind, AfterWatch, AfterServe, AfterSocket,
       AfterState
  <2>6. UninstallDone(p)'
    BY <1>1, <2>3, <2>4, <2>5 DEF UninstallDone, AfterRow, AfterBind, AfterWatch, AfterServe,
       AfterSocket, AfterState
  <2>7. "unrow" \in UninstallSteps \ {"sudo", "lock", "remove"}
    BY DEF UninstallSteps
  <2> QED
    BY <1>1, <2>2, <2>6, <2>7, UninstallOn
<1> QED
  BY <1>2, <1>3

LEMMA ChanceSolo == ASSUME NEW p, alone = p, Chance(p) PROVE ~clean' /\ UNCHANGED <<alone, found>>
  BY DEF Chance

LEMMA ByChanceDone ==
  ASSUME NEW p \in Process, Solo(p), RemoveLockFails(p) \/ CannotByChance(p)
  PROVE  DoneInv'
<1>1. CASE RemoveLockFails(p)
  <2>1. target # Nothing
    BY <1>1, ContentAssumption DEF RemoveLockFails, Solo, UndoDone
  <2>2. Chance(p) /\ Cannot(p, "unrow")
    BY <1>1, <2>1 DEF RemoveLockFails
  <2>3. "unrow" \in UninstallSteps \ {"sudo", "lock", "remove"}
    BY DEF UninstallSteps
  <2> QED
    BY <2>2, <2>3, ChanceSolo, CannotDone DEF Solo
<1>2. CASE CannotByChance(p)
  <2>1. Chance(p) /\ ~clean' /\ UNCHANGED <<alone, found>>
    BY <1>2, ChanceSolo DEF CannotByChance, Solo
  <2>2. CASE pc[p] \in {"undoBind", "undoRow", "undoReload"} /\ Cannot(p, pc[p])
    <3>1. Ends(p, "stuck") /\ found # "integrated"
      BY <2>2 DEF Cannot, Undoing, UndoSteps, Solo, UndoDone
    <3> QED
      BY <2>1, <3>1, EndDone DEF Solo
  <2>3. CASE pc[p] = "package" /\ Ends(p, "kept")
    BY <2>1, <2>3, EndDone DEF Solo
  <2>4. CASE \E next \in UninstallSteps \ {"sudo", "lock", "remove"} : Cannot(p, next)
    BY <2>1, <2>4, CannotDone
  <2> QED
    BY <1>2, <2>2, <2>3, <2>4 DEF CannotByChance, UninstallSteps
<1> QED
  BY <1>1, <1>2

LEMMA RowDone ==
  ASSUME NEW p \in Process, Solo(p), RemoveRow(p)
  PROVE  DoneInv'
<1>1. /\ pc[p] \in {"undoRow", "unrow"}
      /\ UNCHANGED <<alone, found, single, clean, target, enabled, binding>>
  BY DEF RemoveRow, history, plugin
<1>2. CASE Text!Malformed(menu)
  <2>1. Cannot(p, "unbind") /\ menu' = menu
    BY <1>2 DEF RemoveRow
  <2>2. "unbind" \in UninstallSteps \ {"sudo", "lock", "remove"} /\ "unbind" \in AfterRow
    BY DEF UninstallSteps, AfterRow
  <2>3. Stubborn'
    BY <1>2, <2>1 DEF Stubborn
  <2> QED
    BY <1>1, <2>1, <2>2, <2>3, CannotDone
<1>3. CASE ~Text!Malformed(menu)
  <2>1. kept' = kept /\ menu' = Text!RenderRemoval(menu)
    BY <1>3 DEF RemoveRow, Goto, local
  <2>2. ~HasRow'
    BY <1>3, <2>1, RemovedText DEF HasRow, Solo, TypeInv, SurfaceType
  <2>3. CASE pc[p] = "undoRow"
    <3>1. pc' = [pc EXCEPT ![p] = "undoReload"]
      BY <1>3, <2>3 DEF RemoveRow, Undoing, UndoSteps, Goto, Moves
    <3>2. pc'[p] = "undoReload"
      BY <3>1 DEF Solo, LockInv, Shape
    <3>3. /\ found # "integrated" /\ target = Nothing /\ ~enabled /\ Unbound
      BY <2>3 DEF Solo, UndoDone, UndoSteps
    <3>4. UndoDone(p)'
      BY <1>1, <2>2, <3>2, <3>3 DEF UndoDone, Unbound
    <3>5. pc[p] \in UndoSteps /\ "undoReload" \in UndoSteps
      BY <2>3 DEF UndoSteps
    <3> QED
      BY <1>1, <2>1, <3>1, <3>4, <3>5, UndoOn
  <2>4. CASE pc[p] = "unrow"
    <3>1. pc' = [pc EXCEPT ![p] = "unbind"]
      BY <1>3, <2>4 DEF RemoveRow, Undoing, UndoSteps, Goto, Moves
    <3>2. pc'[p] = "unbind"
      BY <3>1 DEF Solo, LockInv, Shape
    <3>3. ~(kept[p] /\ clean) /\ (~kept[p] => LockGone)
      BY <2>4 DEF Solo, UninstallDone, AfterLock, AfterRow, AfterBind, AfterWatch, AfterServe,
         AfterSocket, AfterState
    <3>4. LockGone => LockGone'
      BY <1>1 DEF LockGone, IsGenerated
    <3>5. UninstallDone(p)'
      BY <1>1, <2>1, <2>2, <3>2, <3>3, <3>4 DEF UninstallDone, AfterBind, AfterWatch,
         AfterServe, AfterSocket, AfterState
    <3>6. "unbind" \in UninstallSteps \ {"sudo", "lock", "remove"}
      BY DEF UninstallSteps
    <3> QED
      BY <1>1, <3>1, <3>5, <3>6, UninstallOn
  <2> QED
    BY <1>1, <2>3, <2>4
<1> QED
  BY <1>2, <1>3

LEMMA UndoneDone ==
  ASSUME NEW p \in Process, Solo(p), Undone(p)
  PROVE  DoneInv'
<1>1. /\ UNCHANGED <<alone, found, single, target, enabled, binding, menu>>
      /\ Ends(p, "undone") /\ pc[p] = "undoReload"
  BY DEF Undone, history, plugin, desktop
<1>2. found # "integrated" /\ target = Nothing /\ ~enabled /\ ~HasRow /\ Unbound
  BY <1>1 DEF Solo, UndoDone, UndoSteps
<1>3. Withdrawn'
  BY <1>1, <1>2 DEF Withdrawn, Unbound, HasRow
<1> QED
  BY <1>1, <1>2, <1>3, EndDone DEF Solo

LEMMA UnbindDone ==
  ASSUME NEW p \in Process, Solo(p), Unbind(p)
  PROVE  DoneInv'
<1>1. UNCHANGED <<alone, found, single, clean, target, enabled, menu>>
  BY DEF Unbind, history, plugin
<1>2. CASE Reversed(binding)
  <2>1. Cannot(p, "unwatch") /\ binding' = binding
    BY <1>2 DEF Unbind
  <2>2. "unwatch" \in UninstallSteps \ {"sudo", "lock", "remove"} /\ "unwatch" \in AfterRow
    BY DEF UninstallSteps, AfterRow, AfterBind
  <2>3. Stubborn'
    BY <1>2, <2>1 DEF Stubborn
  <2> QED
    BY <1>1, <2>1, <2>2, <2>3, CannotDone
<1>3. CASE ~Reversed(binding)
  <2>1. /\ kept' = kept
        /\ binding' = IF Text!HasBlock(binding) THEN WithoutFirst(binding) ELSE binding
    BY <1>3 DEF Unbind, Goto, local
  <2>2. Unbound'
    <3>1. binding \in Seq(Marker) /\ (single => Single(binding))
      BY DEF Solo, TypeInv, SurfaceType, Marks
    <3>2. single => ~HasBlock(binding')
      BY <2>1, <3>1, CutMarkers
    <3> QED
      BY <1>1, <3>2 DEF Unbound, HasBlock
  <2>3. CASE pc[p] = "undoBind"
    <3>1. pc' = [pc EXCEPT ![p] = "undoRow"]
      BY <1>3, <2>3 DEF Unbind, Undoing, UndoSteps, Goto, Moves
    <3>2. pc'[p] = "undoRow"
      BY <3>1 DEF Solo, LockInv, Shape
    <3>3. found # "integrated" /\ target = Nothing /\ ~enabled
      BY <2>3 DEF Solo, UndoDone, UndoSteps
    <3>4. UndoDone(p)'
      BY <1>1, <2>2, <3>2, <3>3 DEF UndoDone
    <3>5. pc[p] \in UndoSteps /\ "undoRow" \in UndoSteps
      BY <2>3 DEF UndoSteps
    <3> QED
      BY <1>1, <2>1, <3>1, <3>4, <3>5, UndoOn
  <2>4. CASE pc[p] = "unbind"
    <3>1. pc' = [pc EXCEPT ![p] = "unwatch"]
      BY <1>3, <2>4 DEF Unbind, Undoing, UndoSteps, Goto, Moves
    <3>2. pc'[p] = "unwatch"
      BY <3>1 DEF Solo, LockInv, Shape
    <3>3. /\ kept[p] /\ clean => Text!Malformed(menu)
          /\ ~kept[p] => LockGone /\ ~HasRow
      BY <1>3, <2>4 DEF Solo, UninstallDone, AfterLock, AfterRow, Stubborn
    <3>4. /\ Text!Malformed(menu) => Stubborn'
          /\ (LockGone => LockGone') /\ (~HasRow => ~HasRow')
      BY <1>1 DEF LockGone, IsGenerated, HasRow, Stubborn
    <3>5. UninstallDone(p)'
      BY <1>1, <2>1, <2>2, <3>2, <3>3, <3>4 DEF UninstallDone, AfterRow, AfterBind, AfterWatch,
         AfterServe, AfterSocket, AfterState
    <3>6. "unwatch" \in UninstallSteps \ {"sudo", "lock", "remove"}
      BY DEF UninstallSteps
    <3> QED
      BY <1>1, <3>1, <3>5, <3>6, UninstallOn
  <2> QED
    BY <2>3, <2>4 DEF Unbind
<1> QED
  BY <1>2, <1>3

\* The units, the socket, the state directory, the enrollment.
LEMMA ServiceDone ==
  ASSUME NEW p \in Process, Solo(p),
         StopUnits(p) \/ RemoveSocket(p) \/ RemoveState(p) \/ Forget(p)
  PROVE  DoneInv'
<1>1. /\ UNCHANGED <<alone, found, single, clean, kept, target, enabled, binding, menu>>
      /\ pc[p] \in AfterBind
  BY DEF StopUnits, RemoveSocket, RemoveState, Forget, Goto, local, history, plugin, desktop,
     AfterBind, AfterWatch, AfterServe, AfterSocket, AfterState
<1>2. /\ kept[p] /\ clean => Stubborn
      /\ ~kept[p] => LockGone /\ ~HasRow /\ Unbound
  BY <1>1 DEF Solo, UninstallDone, AfterLock, AfterRow, AfterBind
<1>3. /\ kept[p] /\ clean => Stubborn'
      /\ ~kept[p] => LockGone' /\ ~HasRow' /\ Unbound'
  BY <1>1, <1>2, SameAsFound, SameMarkers
<1>4. /\ units.enabled \subseteq Unit /\ units.active \subseteq Unit
      /\ units = [enabled |-> units.enabled, active |-> units.active]
  BY DEF Solo, TypeInv, SurfaceType
<1>5. PICK label \in AfterWatch : pc' = [pc EXCEPT ![p] = label]
  BY DEF StopUnits, RemoveSocket, RemoveState, Forget, Goto, Moves, AfterWatch, AfterServe,
     AfterSocket, AfterState
<1>6. pc'[p] = label
  BY <1>5 DEF Solo, LockInv, Shape
<1>7. ~kept[p] =>
        /\ "path" \notin units'.enabled \union units'.active
        /\ label \in AfterServe => NoUnits'
        /\ label \in AfterSocket => ~socket'
        /\ label \in AfterState => stamp' = Nothing
  <2>1. CASE StopUnits(p) /\ pc[p] = "unwatch"
    <3>1. label = "unserve" /\ units' = Stop("path")
      BY <1>5, <1>6, <2>1 DEF StopUnits, Goto, Moves, Solo, LockInv, Shape
    <3> QED
      BY <3>1 DEF Stop, AfterServe, AfterSocket, AfterState
  <2>2. CASE StopUnits(p) /\ pc[p] = "unserve"
    <3>1. label = "unsocket" /\ units' = Stop("service")
      BY <1>5, <1>6, <2>2 DEF StopUnits, Goto, Moves, Solo, LockInv, Shape
    <3>2. ~kept[p] => "path" \notin units.enabled \union units.active
      BY <2>2 DEF Solo, UninstallDone, AfterWatch
    <3>3. ~kept[p] => units.enabled \ {"service"} = {} /\ units.active \ {"service"} = {}
      BY <1>4, <3>2 DEF Unit
    <3>4. ~kept[p] => NoUnits'
      BY <3>1, <3>3 DEF Stop, NoUnits
    <3> QED
      BY <3>1, <3>4 DEF NoUnits, AfterSocket, AfterState
  <2>3. CASE RemoveSocket(p)
    <3>1. label = "unstate" /\ units' = units /\ ~socket' /\ pc[p] = "unsocket"
      BY <1>5, <1>6, <2>3 DEF RemoveSocket, Goto, Moves, Solo, LockInv, Shape
    <3>2. ~kept[p] => NoUnits
      BY <3>1 DEF Solo, UninstallDone, AfterServe
    <3> QED
      BY <3>1, <3>2 DEF NoUnits, AfterState
  <2>4. CASE RemoveState(p)
    <3>1. UNCHANGED <<units, socket>> /\ stamp' = Nothing /\ pc[p] = "unstate"
      BY <2>4 DEF RemoveState, service
    <3>2. ~kept[p] => NoUnits /\ ~socket
      BY <3>1 DEF Solo, UninstallDone, AfterServe, AfterSocket
    <3> QED
      BY <3>1, <3>2 DEF NoUnits
  <2>5. CASE Forget(p)
    <3>1. UNCHANGED <<units, socket, stamp>> /\ pc[p] = "forget"
      BY <2>5 DEF Forget, shell
    <3>2. ~kept[p] => NoUnits /\ ~socket /\ stamp = Nothing
      BY <3>1 DEF Solo, UninstallDone, AfterServe, AfterSocket, AfterState
    <3> QED
      BY <3>1, <3>2 DEF NoUnits
  <2> QED
    BY <2>1, <2>2, <2>3, <2>4, <2>5 DEF StopUnits
<1>8. label \in AfterRow
  BY DEF AfterRow, AfterBind, AfterWatch
<1>9. UninstallDone(p)'
  BY <1>1, <1>3, <1>6, <1>7, <1>8 DEF UninstallDone
<1>10. label \in UninstallSteps \ {"sudo", "lock", "remove"}
  BY DEF UninstallSteps, AfterWatch, AfterServe, AfterSocket, AfterState
<1> QED
  BY <1>1, <1>5, <1>9, <1>10, UninstallOn

LEMMA PackageDone ==
  ASSUME NEW p \in Process, Solo(p), RemovePackage(p)
  PROVE  DoneInv'
<1>1. /\ pc[p] = "package" /\ Ends(p, IF kept[p] THEN "kept" ELSE "removed")
      /\ UNCHANGED <<alone, found, single, clean, target, enabled, binding, menu, units, socket,
                     stamp>>
  BY DEF RemovePackage, history, plugin, desktop, service, shell
<1>2. /\ kept[p] /\ clean => Stubborn
      /\ ~kept[p] => Removed
  BY <1>1 DEF Solo, UninstallDone, Removed, AfterLock, AfterRow, AfterBind, AfterWatch,
     AfterServe, AfterSocket, AfterState
<1>3. Removed => Removed'
  BY <1>1, SameAsFound, SameMarkers DEF Removed, NoUnits
<1>4. kept[p] => ~clean' \/ Stubborn'
  BY <1>1, <1>2, SameMarkers
<1> QED
  BY <1>1, <1>2, <1>3, <1>4, EndDone DEF Solo

LEMMA UninstallSolo ==
  ASSUME NEW p \in Process, Solo(p), Uninstall(p)
  PROVE  DoneInv'
  BY LookDone, RemoveLockDone, ByChanceDone, RowDone, UnbindDone, UndoneDone, ServiceDone,
     PackageDone
  DEF Uninstall

-----------------------------------------------------------------------------
(***************************************************************************)
(* Commands that begin, and the rest of the machine.                       *)
(***************************************************************************)
\* A command that begins alone notes how it finds the machine.
LEMMA BeginDone ==
  ASSUME LockInv, TypeInv, NEW p \in Process, Begin(p)
  PROVE  DoneInv'
<1>1. PICK label \in {"render", "sudo"} : pc' = [pc EXCEPT ![p] = label]
  BY DEF Begin
<1>2. pc'[p] = label /\ alone' \in {p, Nothing} /\ UNCHANGED <<target, enabled, binding, menu>>
  BY <1>1 DEF Begin, LockInv, Shape, desktop
<1>3. CASE alone' = Nothing
  BY <1>3 DEF DoneInv, Doing, NeverHalfIntegrated, RemovalIsWhole, Done
<1>4. CASE alone' = p /\ p # Nothing
  <2>1. found' = Machine
    <3>1. Idle
      BY <1>4 DEF Begin
    <3> QED
      BY <3>1 DEF Begin
  <2>2. AsFound'
    <3>1. /\ Machine = "integrated" => Integrated
          /\ Machine = "bare" => Bare
          /\ Machine # "stranded" => ~Stranded
      <4>1. Integrated => ~Stranded
        BY ContentAssumption DEF Integrated, IsGenerated, Stranded
      <4>2. Bare => ~Stranded
        BY DEF Bare, Stranded
      <4>3. CASE Integrated
        BY <4>1, <4>3 DEF Machine
      <4>4. CASE ~Integrated /\ Bare
        BY <4>2, <4>4 DEF Machine
      <4>5. CASE ~Integrated /\ ~Bare /\ Stranded
        <5>1. target # OwnLock
          BY <4>5, ContentAssumption DEF Stranded
        <5> QED
          BY <4>5, <5>1 DEF Machine
      <4>6. CASE ~Integrated /\ ~Bare /\ ~Stranded
        BY <4>6 DEF Machine
      <4> QED
        BY <4>3, <4>4, <4>5, <4>6
    <3>2. /\ Integrated => Integrated'
          /\ Bare => Bare'
          /\ ~Stranded => ~Stranded'
      BY <1>2 DEF Integrated, Bare, Stranded, IsGenerated, HasRow
    <3> QED
      BY <2>1, <3>1, <3>2 DEF AsFound
  <2>3. ~kept'[p]
    BY DEF Begin, Busy, local, TypeInv, CommandType
  <2>4. SetupDone(p)' /\ UndoDone(p)'
    BY <1>2, <2>2 DEF SetupDone, UndoDone, InPlace, InCharge, Rendered, SetupSteps, UndoSteps
  <2>5. UninstallDone(p)'
    BY <1>2, <2>3 DEF UninstallDone, AfterLock, AfterRow, AfterBind, AfterWatch, AfterServe,
       AfterSocket, AfterState
  <2>6. ~Done'
    BY <1>2, <1>4 DEF Done, Busy
  <2> QED
    BY <1>4, <2>4, <2>5, <2>6 DEF DoneInv, Doing, NeverHalfIntegrated, RemovalIsWhole
<1> QED
  BY <1>2, <1>3, <1>4

\* A path unit that starts the service again is one no uninstall has stopped.
LEMMA TriggerDone ==
  ASSUME DoneInv, Trigger
  PROVE  DoneInv'
<1>1. /\ "path" \in units.active
      /\ UNCHANGED <<target, enabled, rollback, binding, menu, stamp, pc, first, previous, kept,
                     result, alone, found, single, clean>>
  BY DEF Trigger, plugin, shell, desktop, local, history
<1>2. ~NoUnits
  BY <1>1 DEF NoUnits
<1>3. /\ HasRow => HasRow'
      /\ ~HasRow => ~HasRow'
      /\ Bare => Bare'
      /\ Integrated => Integrated'
      /\ Surfaces => Surfaces'
      /\ AsFound => AsFound'
      /\ LockGone => LockGone'
      /\ Unbound => Unbound'
      /\ Stubborn => Stubborn'
  BY <1>1, SameAsFound, SameMarkers
<1>4. ASSUME NEW p, SetupDone(p), UndoDone(p), UninstallDone(p)
      PROVE  SetupDone(p)' /\ UndoDone(p)' /\ UninstallDone(p)'
  <2>1. SetupDone(p)'
    BY <1>1, <1>3, <1>4 DEF SetupDone, PutAside
  <2>2. UndoDone(p)'
    BY <1>1, <1>3, <1>4 DEF UndoDone
  <2>3. UninstallDone(p)'
    <3>1. ~kept[p] => pc[p] \notin AfterWatch
      BY <1>1, <1>4 DEF UninstallDone
    <3>2. AfterServe \subseteq AfterWatch /\ AfterSocket \subseteq AfterWatch
          /\ AfterState \subseteq AfterWatch
      BY DEF AfterWatch, AfterServe, AfterSocket
    <3> QED
      BY <1>1, <1>3, <1>4, <3>1, <3>2 DEF UninstallDone
  <2> QED
    BY <2>1, <2>2, <2>3
<1>5. Doing'
  BY <1>1, <1>4 DEF DoneInv, Doing
<1>6. NeverHalfIntegrated'
  BY <1>1, <1>3 DEF DoneInv, NeverHalfIntegrated, Done, Busy
<1>7. RemovalIsWhole'
  BY <1>1, <1>2, <1>3 DEF DoneInv, RemovalIsWhole, Done, Busy, NoUnits
<1> QED
  BY <1>5, <1>6, <1>7 DEF DoneInv

LEMMA OtherDone ==
  ASSUME DoneInv,
         \/ Upgrade \/ CloneLock \/ DropLock \/ RestartShell \/ Enroll \/ Trigger \/ Reinstall
         \/ UNCHANGED vars
  PROVE  DoneInv'
<1>1. CASE CloneLock \/ DropLock
  <2>1. alone' = Nothing
    BY <1>1 DEF CloneLock, DropLock, Aloof
  <2> QED
    BY <2>1 DEF DoneInv, Doing, NeverHalfIntegrated, RemovalIsWhole, Done
<1>2. CASE Upgrade \/ RestartShell \/ Enroll \/ Reinstall \/ UNCHANGED vars
  <2>1. UNCHANGED <<plugin, stamp, desktop, units, socket, pc, local, result, alone, found,
                    single, clean>>
    BY <1>2 DEF Upgrade, RestartShell, Enroll, Reinstall, Elsewhere, vars, shell, service, history
  <2>2. UNCHANGED <<target, enabled, rollback, binding, menu, first, previous, kept>>
    BY <2>1 DEF plugin, desktop, local
  <2>3. Doing'
    BY <2>1, <2>2 DEF DoneInv, Doing, SetupDone, UndoDone, UninstallDone, PutAside, Surfaces,
       AsFound, Integrated, Bare, Stranded, HasRow, IsGenerated, LockGone, NoUnits, Unbound,
       Stubborn
  <2>4. NeverHalfIntegrated' /\ RemovalIsWhole'
    BY <2>1, <2>2 DEF DoneInv, NeverHalfIntegrated, RemovalIsWhole, Done, Busy, Integrated, Bare,
       HasRow, IsGenerated
  <2> QED
    BY <2>3, <2>4 DEF DoneInv
<1> QED
  BY <1>1, <1>2, TriggerDone

LEMMA NextDone ==
  ASSUME LockInv, CodeInv, TypeInv, DoneInv, [Next]_vars
  PROVE  DoneInv'
<1>1. ASSUME NEW p \in Process, Setup(p) \/ Uninstall(p) \/ Die(p) PROVE DoneInv'
  <2>1. pc[p] # "idle" /\ UNCHANGED alone
    <3>1. UNCHANGED history \/ Chance(p)
      BY <1>1 DEF Setup, Render, Look, Claim, Stage, Previous, Aside, Swap, SwapFails, PutBack,
         Discard, Discover, Enable, Bind, AddRow, Reload, Code, Restart, Stamp, EnableUnits,
         Watch, Serve, Mishap, Warn, Uninstall, Sudo, LookForLock, RemoveLock, RemoveLockFails,
         RemoveRow, Unbind, Undone, StopUnits, RemoveSocket, RemoveState, Forget, RemovePackage,
         CannotByChance, Die
    <3>2. pc[p] # "idle"
      BY <1>1 DEF Setup, Render, Look, Claim, Stage, Previous, Aside, Swap, SwapFails, PutBack,
         Discard, Discover, Enable, Bind, AddRow, Reload, Code, Restart, Stamp, EnableUnits,
         Watch, Serve, Mishap, Warn, Uninstall, Sudo, LookForLock, RemoveLock, RemoveLockFails,
         RemoveRow, Unbind, Undone, StopUnits, RemoveSocket, RemoveState, Forget, RemovePackage,
         CannotByChance, Die, Busy
    <3> QED
      BY <3>1, <3>2, ChanceKeeps DEF history
  <2>2. ASSUME alone = p, alone # Nothing PROVE DoneInv'
    <3>1. Solo(p)
      BY <2>2 DEF DoneInv, Doing, Solo
    <3> QED
      BY <1>1, <3>1, SetupSolo, UninstallSolo
  <2> QED
    BY <2>1, <2>2, AloneDone
<1> QED
  BY <1>1, BeginDone, OtherDone DEF Next

LEMMA InitDone == ASSUME Init PROVE DoneInv
  BY DEF Init, DoneInv, Doing, NeverHalfIntegrated, RemovalIsWhole, Done

LEMMA AlwaysDone == Spec => [](LockInv /\ CodeInv /\ TypeInv /\ DoneInv)
<1>1. Init => LockInv /\ CodeInv /\ TypeInv /\ DoneInv
  BY InitInv, InitCode, InitType, InitDone
<1>2. LockInv /\ CodeInv /\ TypeInv /\ DoneInv /\ [Next]_vars =>
        (LockInv /\ CodeInv /\ TypeInv /\ DoneInv)'
  BY NextInv, NextCode, TypeNext, NextDone
<1> QED
  BY <1>1, <1>2, PTL DEF Spec

(***************************************************************************)
(* A setup that says ok has the plugin, its place in charge, the binding   *)
(* and the row; one that says it was undone has left none of them, where   *)
(* it found one marker of each kind in bindings.lua at most; one that      *)
(* fails over a working integration leaves it working, or its plugin under *)
(* the rollback name; and where nothing was, a refused setup leaves        *)
(* nothing (setup.rs:37-42, 48-88; write_clone, lock.rs:436-487;           *)
(* binding.rs:34-91). However many commands there were before, failed or   *)
(* dead, and whatever the menu extension and bindings.lua hold.            *)
(***************************************************************************)
THEOREM SetupIsWhole == Spec => []NeverHalfIntegrated
<1>1. DoneInv => NeverHalfIntegrated
  BY DEF DoneInv
<1> QED
  BY <1>1, AlwaysDone, PTL

(***************************************************************************)
(* An uninstall that removes the package has removed all that needs it,    *)
(* the binding too where it found one marker of each kind at most, and     *)
(* nothing has started the daemon again behind it; one that keeps the      *)
(* package had a step that failed in this run, or a menu extension or      *)
(* bindings whose markers are the wrong way round (teardown.rs:3-6,        *)
(* 53-113; menu.rs, remove; binding.rs:76-91).                             *)
(***************************************************************************)
THEOREM RemovalAlwaysWhole == Spec => []RemovalIsWhole
<1>1. DoneInv => RemovalIsWhole
  BY DEF DoneInv
<1> QED
  BY <1>1, AlwaysDone, PTL

-----------------------------------------------------------------------------
(***************************************************************************)
(* The menu extension through any number of commands.                      *)
(***************************************************************************)
\* One of three texts of the file that was found.
MenuInv ==
  Text!Editable(given) =>
    menu \in {given, Text!RenderEntry(given), Text!RenderRemoval(given)}

\* A step writes it with the rows, or without them, or leaves it alone.
LEMMA MenuStep ==
  ASSUME [Next]_vars
  PROVE  given' = given /\ menu' \in {menu, Text!RenderEntry(menu), Text!RenderRemoval(menu)}
<1>1. ASSUME NEW p \in Process, Setup(p) PROVE given' = given
  BY <1>1 DEF Setup, history, Chance, Render, Look, Claim, Stage, Previous, Aside, Swap,
     SwapFails, PutBack, Discard, Discover, Enable, Bind, AddRow, Reload, Code, Restart, Stamp,
     EnableUnits, Watch, Serve, Mishap, Warn
<1>2. ASSUME NEW p \in Process, Setup(p) PROVE menu' \in {menu, Text!RenderEntry(menu)}
  <2>1. CASE Bind(p) \/ AddRow(p)
    BY <2>1 DEF Bind, AddRow, RollBack, desktop
  <2>2. CASE ~Bind(p) /\ ~AddRow(p)
    <3>1. UNCHANGED desktop
      BY <1>2, <2>2 DEF Setup, Render, Look, Claim, Stage, Previous, Aside, Swap, SwapFails,
         PutBack, Discard, Discover, Enable, Reload, Code, Restart, Stamp, EnableUnits, Watch,
         Serve, Mishap, Warn, Refuse, Fail, RollBack
    <3> QED
      BY <3>1 DEF desktop
  <2> QED
    BY <2>1, <2>2
<1>3. ASSUME NEW p \in Process, Uninstall(p) \/ Die(p) \/ Begin(p) PROVE given' = given
  BY <1>3 DEF Uninstall, history, Chance, Sudo, LookForLock, RemoveLock, RemoveLockFails,
     RemoveRow, Unbind, Undone, StopUnits, RemoveSocket, RemoveState, Forget, RemovePackage,
     CannotByChance, Die, Begin
<1>4. ASSUME NEW p \in Process, Uninstall(p) \/ Die(p) \/ Begin(p)
      PROVE  menu' \in {menu, Text!RenderRemoval(menu)}
  <2>1. CASE Unbind(p) \/ RemoveRow(p)
    BY <2>1 DEF Unbind, RemoveRow
  <2>2. CASE ~Unbind(p) /\ ~RemoveRow(p)
    <3>1. UNCHANGED desktop
      BY <1>4, <2>2 DEF Uninstall, Sudo, LookForLock, RemoveLock, RemoveLockFails, Undone,
         StopUnits, RemoveSocket, RemoveState, Forget, RemovePackage, CannotByChance, Die, Begin
    <3> QED
      BY <3>1 DEF desktop
  <2> QED
    BY <2>1, <2>2
<1>5. CASE \/ Upgrade \/ CloneLock \/ DropLock \/ RestartShell \/ Enroll \/ Trigger \/ Reinstall
           \/ UNCHANGED vars
  BY <1>5 DEF Upgrade, CloneLock, DropLock, RestartShell, Enroll, Trigger, Reinstall, vars,
     Elsewhere, Aloof, history, desktop
<1> QED
  BY <1>1, <1>2, <1>3, <1>4, <1>5 DEF Next

LEMMA MenuNext ==
  ASSUME MenuInv, DesktopType, [Next]_vars
  PROVE  MenuInv'
<1> DEFINE r == Text!RenderRemoval(given)
           e == Text!RenderEntry(given)
<1>1. given' = given /\ menu' \in {menu, Text!RenderEntry(menu), Text!RenderRemoval(menu)}
  BY MenuStep
<1>2. CASE Text!Editable(given)
  <2>1. given \in Docs
    BY DEF DesktopType, Docs
  <2>2. Settled(given, r, e)
    BY <1>2, <2>1, EditableSettles
  <2>3. menu \in {given, e, r}
    BY <1>2 DEF MenuInv
  <2> HIDE DEF r, e
  <2>4. menu' \in {given, e, r}
    BY <1>1, <2>2, <2>3 DEF Settled
  <2> QED
    BY <1>1, <2>4 DEF MenuInv, r, e
<1>3. CASE ~Text!Editable(given)
  BY <1>1, <1>3 DEF MenuInv
<1> QED
  BY <1>2, <1>3

LEMMA MenuGood ==
  ASSUME MenuInv, DesktopType
  PROVE  MenuStaysGood
<1> SUFFICES ASSUME Text!Editable(given)
             PROVE  /\ Text!Parses(menu) /\ Text!TheUsers(menu) = Text!TheUsers(given)
                    /\ menu \in {given, Text!RenderEntry(given), Text!RenderRemoval(given)}
  BY DEF MenuStaysGood
<1> DEFINE r == Text!RenderRemoval(given)
           e == Text!RenderEntry(given)
<1>1. given \in Docs
  BY DEF DesktopType, Docs
<1>2. Settled(given, r, e)
  BY <1>1, EditableSettles
<1>3. menu \in {given, e, r}
  BY DEF MenuInv
<1> HIDE DEF r, e
<1>4. Text!Parses(menu) /\ Text!TheUsers(menu) = Text!TheUsers(given)
  BY <1>2, <1>3 DEF Settled
<1> QED
  BY <1>3, <1>4 DEF r, e

(***************************************************************************)
(* However many commands there were, failed or dead, a menu extension that *)
(* could be edited is well formed and has the user's entries and comments  *)
(* in their order: it is the text that was found, with the rows, or        *)
(* without them (menu.rs:138-196).                                         *)
(***************************************************************************)
THEOREM MenuAlwaysGood == Spec => []MenuStaysGood
<1>1. Init => MenuInv
  BY DEF Init, MenuInv
<1>2. TypeInv => DesktopType
  BY DEF TypeInv, SurfaceType, DesktopType
<1>3. DesktopType /\ MenuInv /\ [Next]_vars => MenuInv'
  BY MenuNext
<1>4. DesktopType /\ MenuInv => MenuStaysGood
  BY MenuGood
<1> QED
  BY <1>1, <1>2, <1>3, <1>4, AlwaysDone, PTL DEF Spec
=============================================================================
