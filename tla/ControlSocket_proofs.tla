------------------------- MODULE ControlSocket_proofs -------------------------
(***************************************************************************)
(* Proofs about module ControlSocket, for any number of daemons, deaths    *)
(* and removals of the runtime directory.                                  *)
(*                                                                         *)
(* The argument: two processes never hold the same lock file; a process    *)
(* that is still starting holds the current one (else `torn'); the         *)
(* endpoint of a process that has bound it is under the lock file that     *)
(* process holds.  So nobody can touch the endpoint between the probe that *)
(* found it refused and its removal.                                       *)
(***************************************************************************)
EXTENDS ControlSocket, TLAPS

LockIsExclusive ==
  /\ held = {p \in Process : pc[p] \in Running \ {"lock"}}
  /\ \A p, q \in held : opened[p] = opened[q] => p = q

StartsUnderLock ==
  \A p \in Process : pc[p] \in Starting => opened[p] = lockFile

Reached ==
  \A p \in Process :
    pc[p] \in {"listen", "chmod", "serve"} => (endpoint = p <=> opened[p] = lockFile)

NobodyAnswers ==
  \A p \in Process : pc[p] = "remove" => endpoint \notin listening

SocketSeen ==
  \A p \in Process : pc[p] \in {"probe", "remove"} => endpoint # Foreign

Accepting ==
  \A p \in Process : p \in listening <=> pc[p] \in {"chmod", "serve"}

Inv ==
  /\ TypeOK
  /\ LockIsExclusive
  /\ Accepting
  /\ SocketSeen
  /\ ~torn => StartsUnderLock /\ Reached /\ NobodyAnswers

LEMMA InvInit == Init => Inv
<1> SUFFICES ASSUME Init
             PROVE  Inv
  OBVIOUS
<1>1. /\ endpoint \in {Absent, Foreign} \cup Process
      /\ ~directory => endpoint = Absent
  BY DEF Init
<1>2. TypeOK
  <2>1. /\ lockFile = 0 /\ wipes = 0 /\ deaths = 0 /\ torn = FALSE
        /\ directory \in BOOLEAN /\ held = {} /\ listening = {}
    BY DEF Init
  <2>2. pc \in [Process -> {"off"} \cup Running]
    BY DEF Init
  <2>3. opened \in [Process -> 0..lockFile]
    BY <2>1 DEF Init
  <2>4. deaths \in 0..MaxDeaths /\ wipes \in 0..MaxWipes
    BY <2>1, BoundAssumption
  <2>5. lockFile = wipes /\ torn \in BOOLEAN
    BY <2>1
  <2>6. endpoint \in {Absent, Foreign} \cup Process \cup Squatter
    BY <1>1
  <2>7. held \subseteq {p \in Process : pc[p] \in Running \ {"lock"}}
    BY <2>1
  <2>8. listening \subseteq
          {p \in Process : pc[p] \in {"chmod", "serve"}} \cup Squatter
    BY <2>1
  <2>9. QED
    BY <1>1, <2>1, <2>2, <2>3, <2>4, <2>5, <2>6, <2>7, <2>8, Zenon DEF TypeOK
<1>3. pc = [p \in Process |-> "off"] /\ held = {} /\ listening = {}
  BY DEF Init
<1>4. LockIsExclusive /\ StartsUnderLock /\ Reached
  BY <1>3 DEF LockIsExclusive, StartsUnderLock, Reached, Running, Starting
<1>5. NobodyAnswers /\ Accepting /\ SocketSeen
  BY <1>3 DEF NobodyAnswers, Accepting, SocketSeen
<1>6. QED BY <1>2, <1>4, <1>5 DEF Inv

LEMMA InvStep == Inv /\ [Next]_vars => Inv'
<1> USE ProcessAssumption, BoundAssumption, NameAssumption
<1> SUFFICES ASSUME Inv, [Next]_vars
             PROVE  Inv'
  OBVIOUS
<1> USE DEF Inv
<1>1. ASSUME NEW p \in Process, Launch(p)
      PROVE  Inv'
  BY <1>1 DEF Launch, Goto, history, TypeOK, LockIsExclusive, StartsUnderLock,
      Reached, NobodyAnswers, Accepting, SocketSeen, Running, Starting, Absent, Foreign
<1>2. ASSUME NEW p \in Process, Fail(p), pc[p] \in Running
      PROVE  Inv'
  BY <1>2 DEF Fail, Goto, files, history, TypeOK, LockIsExclusive,
      StartsUnderLock, Reached, NobodyAnswers, Accepting, SocketSeen, Running, Starting, Absent, Foreign
<1>3. ASSUME NEW p \in Process, TakeLock(p)
      PROVE  Inv'
  BY <1>2, <1>3 DEF TakeLock, Contended, Goto, files, history, TypeOK, LockIsExclusive,
      StartsUnderLock, Reached, NobodyAnswers, Accepting, SocketSeen, Running, Starting, Absent, Foreign
<1>4. ASSUME NEW p \in Process, Inspect(p) \/ Probe(p) \/ Chmod(p)
      PROVE  Inv'
  <2>1. CASE Fail(p)
    BY <1>2, <1>4, <2>1 DEF Inspect, Probe, Chmod, Running
  <2>2. CASE Inspect(p) /\ ~Fail(p)
    BY <2>2 DEF Inspect, Proceed, Goto, files, history, TypeOK, LockIsExclusive,
       StartsUnderLock, Reached, NobodyAnswers, Accepting, SocketSeen, Running, Starting
  <2>3. CASE Probe(p) /\ ~Fail(p)
    <3>1. endpoint \notin listening
      BY <2>3 DEF Probe
    <3>2. QED
      BY <2>3, <3>1 DEF Probe, Proceed, Goto, files, history, TypeOK,
         LockIsExclusive, StartsUnderLock, Reached, NobodyAnswers, Accepting, SocketSeen, Running,
         Starting
  <2>4. CASE Chmod(p) /\ ~Fail(p)
    BY <2>4 DEF Chmod, Proceed, Goto, files, history, TypeOK, LockIsExclusive,
       StartsUnderLock, Reached, NobodyAnswers, Accepting, SocketSeen, Running, Starting
  <2>5. QED BY <1>4, <2>1, <2>2, <2>3, <2>4
<1>5. ASSUME NEW p \in Process, Remove(p)
      PROVE  Inv'
  BY <1>2, <1>5 DEF Remove, Goto, files, history, TypeOK,
      LockIsExclusive, StartsUnderLock, Reached, NobodyAnswers, Accepting, SocketSeen, Running,
      Starting, Absent, Foreign
<1>6. ASSUME NEW p \in Process, Bind(p)
      PROVE  Inv'
  BY <1>2, <1>6 DEF Bind, Goto, files, history, TypeOK,
      LockIsExclusive, StartsUnderLock, Reached, NobodyAnswers, Accepting, SocketSeen, Running,
      Starting, Absent, Foreign
<1>7. ASSUME NEW p \in Process, Listen(p)
      PROVE  Inv'
  BY <1>7 DEF Listen, Goto, files, history, TypeOK,
      LockIsExclusive, StartsUnderLock, Reached, NobodyAnswers, Accepting, SocketSeen, Running,
      Starting, Absent, Foreign
<1>8. ASSUME NEW p \in Process, Die(p)
      PROVE  Inv'
  BY <1>8 DEF Die, Goto, files, TypeOK, LockIsExclusive, StartsUnderLock, Reached,
      NobodyAnswers, Accepting, SocketSeen, Running, Starting, Absent, Foreign
<1>9. CASE Wipe
  <2>1. TypeOK'
    <3>1. /\ lockFile' = wipes' /\ wipes' \in 0..MaxWipes
          /\ directory' = FALSE /\ endpoint' = Absent /\ torn' \in BOOLEAN
      BY <1>9 DEF Wipe, TypeOK
    <3>2. UNCHANGED <<pc, opened, held, listening, deaths>>
      BY <1>9 DEF Wipe
    <3>3. opened \in [Process -> 0..lockFile']
      <4>1. 0..lockFile \subseteq 0..lockFile'
        BY <1>9 DEF Wipe, TypeOK
      <4>2. QED BY <4>1 DEF TypeOK
    <3>4. QED BY <3>1, <3>2, <3>3 DEF TypeOK
  <2>2. LockIsExclusive' /\ Accepting' /\ SocketSeen'
    BY <1>9 DEF Wipe, LockIsExclusive, Accepting, SocketSeen, Absent, Foreign
  <2>3. ASSUME ~torn'
        PROVE  StartsUnderLock' /\ NobodyAnswers'
    BY <1>9, <2>3 DEF Wipe, StartsUnderLock, NobodyAnswers, Starting
  <2>4. Reached'
    <3>1. ASSUME NEW p \in Process
          PROVE  opened[p] # lockFile' /\ endpoint' # p
      <4>1. opened[p] \in 0..lockFile /\ lockFile = wipes /\ wipes \in Nat
        BY DEF TypeOK
      <4>2. endpoint' = Absent /\ lockFile' = lockFile + 1
        BY <1>9 DEF Wipe
      <4>3. QED BY <4>1, <4>2 DEF Absent
    <3>2. opened' = opened
      BY <1>9 DEF Wipe
    <3>3. QED BY <3>1, <3>2 DEF Reached
  <2>5. QED BY <2>1, <2>2, <2>3, <2>4
<1>10. ASSUME NEW s \in Squatter, Squat(s) \/ Leave(s)
       PROVE  Inv'
  BY <1>10 DEF Squat, Leave, Active, files, history, TypeOK, LockIsExclusive,
      StartsUnderLock, Reached, NobodyAnswers, Accepting, SocketSeen, Running, Starting, Absent, Foreign
<1>11. CASE UNCHANGED vars
  BY <1>11 DEF vars, TypeOK, LockIsExclusive, StartsUnderLock, Reached,
      NobodyAnswers, Accepting, SocketSeen
<1>12. QED
  BY <1>1, <1>3, <1>4, <1>5, <1>6, <1>7, <1>8, <1>9, <1>10, <1>11 DEF Next, Serve

(***************************************************************************)
(* TypeOK, for any number of daemons.                                      *)
(***************************************************************************)
THEOREM TypeCorrect == Spec => []TypeOK
<1>1. Inv => TypeOK
  BY DEF Inv
<1>2. QED BY InvInit, InvStep, <1>1, PTL DEF Spec

(***************************************************************************)
(* A serving daemon is the one that clients reach.                         *)
(***************************************************************************)
THEOREM ServerAlwaysReached == Spec => []ServerIsReached
<1>1. Inv => ServerIsReached
  BY DEF Inv, ServerIsReached, Reached, Accepting
<1>2. QED BY InvInit, InvStep, <1>1, PTL DEF Spec

(***************************************************************************)
(* No listening daemon ever loses its endpoint to one that starts.         *)
(***************************************************************************)
THEOREM LiveEndpointsStay == Spec => NeverUnlinksLive
<1>1. Inv /\ [Next]_vars =>
        [~torn' /\ wipes' = wipes /\ endpoint \in listening
           => endpoint' = endpoint]_vars
  <2> SUFFICES ASSUME Inv, [Next]_vars, ~torn', wipes' = wipes, endpoint \in listening
               PROVE  endpoint' = endpoint
    OBVIOUS
  <2>1. CASE UNCHANGED endpoint
    BY <2>1
  <2>2. ASSUME NEW p \in Process, Serve(p)
        PROVE  endpoint' = endpoint
    <3>1. pc[p] = "remove" /\ ~torn => endpoint \notin listening
      BY DEF Inv, NobodyAnswers
    <3>2. endpoint # Absent
      BY NameAssumption DEF Inv, TypeOK, Absent
    <3>3. torn' = torn
      BY <2>2 DEF Serve, TakeLock, Inspect, Probe, Remove, Bind, Listen, Chmod,
           Fail, Proceed, history
    <3>4. QED
      BY <2>2, <3>1, <3>2, <3>3 DEF Serve, TakeLock, Inspect, Probe, Remove, Bind,
         Listen, Chmod, Fail, Proceed, files
  <2>3. CASE Wipe
    BY <2>3 DEF Wipe, Inv, TypeOK
  <2>4. ASSUME NEW s \in Squatter, Squat(s)
        PROVE  endpoint' = endpoint
    BY <2>4 DEF Squat, Active
  <2>5. QED
    BY <2>1, <2>2, <2>3, <2>4 DEF Next, Launch, Die, Leave, files, vars
<1>2. QED BY InvInit, InvStep, <1>1, PTL DEF Spec, NeverUnlinksLive
=============================================================================
