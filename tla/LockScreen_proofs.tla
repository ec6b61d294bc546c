-------------------------- MODULE LockScreen_proofs --------------------------
(***************************************************************************)
(* Presence unlocks only what its user asked it to unlock, however often   *)
(* the session is locked.                                                  *)
(***************************************************************************)
EXTENDS LockScreen, TLAPS

(***************************************************************************)
(* The strengthening.  A result is awaited only of an attempt that nothing *)
(* has superseded, begun in this lock by a hold; the timer runs only under *)
(* a hold that lasts, with no attempt under way.                           *)
(***************************************************************************)
AttemptStands ==
  presenceAuthenticating =>
    lockRequested /\ attempt.current /\ attempt.lock = locks /\ attempt.deliberate

HoldStands ==
  presenceHoldTimer => lockRequested /\ gesture /\ presencePam = "idle"

IInv == TypeOK /\ AttemptStands /\ HoldStands

LEMMA InitIInv == ASSUME Init PROVE IInv
<1>1. 0 \in 0..MaxLocks
  BY LocksAssumption
<1>2. attempt \in [lock : 0..MaxLocks, deliberate : BOOLEAN, granted : BOOLEAN,
                   current : BOOLEAN]
  BY <1>1 DEF Init
<1> QED
  BY <1>1, <1>2, Zenon DEF Init, IInv, TypeOK, AttemptStands, HoldStands

LEMMA NextIInv == ASSUME IInv, [Next]_vars PROVE IInv'
<1> USE LocksAssumption DEF IInv, TypeOK, AttemptStands, HoldStands
<1> USE DEF stock, presence, Busy, Locked, CancelPresence, Superseded, Aborted
<1>1. CASE HoldPresence
  BY <1>1 DEF HoldPresence
<1>2. CASE ReleasePresence
  BY <1>2 DEF ReleasePresence
<1>3. CASE Triggered
  <2> USE <1>3 DEF Triggered
  <2>1. CASE ~Locked \/ authenticatingPassword
    BY <2>1
  <2>2. CASE presenceAuthenticating' = TRUE
    <3>1. attempt' = Begun /\ Locked /\ gesture /\ presenceHoldTimer' = FALSE
      BY <2>2
    <3>2. attempt' \in [lock : 0..MaxLocks, deliberate : BOOLEAN,
                        granted : BOOLEAN, current : BOOLEAN]
      BY <3>1 DEF Begun
    <3>3. attempt'.lock = locks /\ attempt'.deliberate /\ attempt'.current
      BY <3>1 DEF Begun
    <3> QED
      BY <2>2, <3>1, <3>2, <3>3
  <2>3. CASE presenceAuthenticating' = FALSE
    BY <2>3
  <2> QED
    BY <2>1, <2>2, <2>3
<1>4. CASE Succeeds
  BY <1>4 DEF Succeeds, Accepts
<1>5. CASE Fails
  BY <1>5 DEF Fails
<1>6. CASE Lock
  BY <1>6 DEF Lock
<1>7. CASE Secure
  BY <1>7 DEF Secure
<1>8. CASE SubmitPassword
  BY <1>8 DEF SubmitPassword
<1>9. CASE PasswordFails
  BY <1>9 DEF PasswordFails
<1>10. CASE UnlockOtherwise
  BY <1>10 DEF UnlockOtherwise, FinishUnlock
<1>11. CASE PolicyLoaded
  BY <1>11 DEF PolicyLoaded
<1>12. CASE PolicyGone
  BY <1>12 DEF PolicyGone
<1>13. CASE Wander
  BY <1>13 DEF Wander
<1>14. CASE UNCHANGED vars
  BY <1>14 DEF vars
<1> QED
  BY <1>1, <1>2, <1>3, <1>4, <1>5, <1>6, <1>7, <1>8, <1>9, <1>10, <1>11, <1>12,
     <1>13, <1>14 DEF Next

\* The types of the lock's variables, and that a result is awaited exactly
\* while an attempt that was not aborted runs (lock.rs:109-131).
THEOREM TypeCorrect == Spec => []TypeOK
<1>1. Init => IInv
  BY InitIInv
<1>2. IInv /\ [Next]_vars => IInv'
  BY NextIInv
<1>3. IInv => TypeOK
  BY DEF IInv
<1> QED
  BY <1>1, <1>2, <1>3, PTL DEF Spec

\* However often the session is locked, presence unlocks it only on a hold and
\* an authentication of this very lock that nothing superseded (lock.rs:123-131).
THEOREM UnlocksAreEarned == Spec => UnlockIsEarned
<1> DEFINE Earned ==
      Succeeds /\ lockRequested /\ ~lockRequested'
        => /\ attempt.current /\ attempt.lock = locks
           /\ attempt.deliberate /\ attempt.granted
           /\ secure /\ ~authenticatingPassword
<1>1. Init => IInv
  BY InitIInv
<1>2. IInv /\ [Next]_vars => IInv'
  BY NextIInv
<1>3. IInv => [Earned]_vars
  BY DEF IInv, AttemptStands, Succeeds, Accepts, Locked, stock
<1> QED
  BY <1>1, <1>2, <1>3, PTL DEF Spec, UnlockIsEarned
=============================================================================
