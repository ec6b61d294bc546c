------------------------------ MODULE LockScreen ------------------------------
(***************************************************************************)
(* The presence code that setup grafts into a clone of Omarchy's lock      *)
(* screen (SERVICE_STATE_PATCH and its companions, crates/cli/src/setup/   *)
(* lock.rs:48-195): a hold of Alt, timed, begins an authentication, and    *)
(* its success unlocks.                                                    *)
(*                                                                         *)
(* QML runs one handler at a time; what interleaves is the order in which  *)
(* the events reach it.  hold() and release() come over IPC from processes *)
(* of their own, so they come in any order and any number.  The stock lock *)
(* (the session's lock, its password, the unlock itself) is modelled from  *)
(* the hooks the patches attach to; the authentication from what module    *)
(* Daemon shows of it: it may succeed only if presence was granted at some *)
(* moment since it began.                                                  *)
(***************************************************************************)
EXTENDS Naturals

CONSTANT MaxLocks       \* bound: times the session is locked

ASSUME LocksAssumption == MaxLocks \in Nat

VARIABLES
  lockRequested, secure,    \* the stock lock's, and the compositor's
  authenticatingPassword,   \* the stock lock's
  presenceConfigured,       \* the PAM policy was there when last looked at
  presenceHoldTimer,        \* is it running?
  presenceAuthenticating,   \* is a result awaited?
  presencePam,              \* "idle", "running", or "aborted" and not yet over
  present,                  \* would the daemon grant an unlock now?
  locks,                    \* history: how often the session was locked
  gesture,                  \* history: Alt was reported held, not yet let go,
                            \* and nothing else has happened to the lock
  attempt                   \* history: of the last authentication begun

stock == <<lockRequested, secure, authenticatingPassword, locks>>
presence == <<presenceHoldTimer, presenceAuthenticating, presencePam>>
vars == <<stock, presence, presenceConfigured, present, gesture, attempt>>

TypeOK ==
  /\ lockRequested \in BOOLEAN /\ secure \in BOOLEAN
  /\ authenticatingPassword \in BOOLEAN
  /\ authenticatingPassword => lockRequested
  /\ presenceConfigured \in BOOLEAN
  /\ presenceHoldTimer \in BOOLEAN /\ presenceAuthenticating \in BOOLEAN
  /\ presencePam \in {"idle", "running", "aborted"}
  /\ presenceAuthenticating <=> presencePam = "running"
  /\ present \in BOOLEAN /\ gesture \in BOOLEAN
  /\ locks \in 0..MaxLocks
  /\ attempt \in [lock : 0..MaxLocks, deliberate : BOOLEAN,
                  granted : BOOLEAN, current : BOOLEAN]

Init ==
  /\ lockRequested = FALSE /\ secure = FALSE /\ authenticatingPassword = FALSE
  /\ presenceConfigured = FALSE
  /\ presenceHoldTimer = FALSE /\ presenceAuthenticating = FALSE
  /\ presencePam = "idle"
  /\ present \in BOOLEAN
  /\ locks = 0 /\ gesture = FALSE
  /\ attempt = [lock |-> 0, deliberate |-> FALSE, granted |-> FALSE,
                current |-> FALSE]

Aborted == IF presencePam = "running" THEN "aborted" ELSE presencePam

\* Mutant: the attempt is aborted, but its result is still awaited.
CancelPresenceAborts ==
  /\ presenceHoldTimer' = FALSE
  /\ presencePam' = Aborted
  /\ UNCHANGED presenceAuthenticating

CancelPresence ==
  /\ presenceHoldTimer' = FALSE
  /\ presenceAuthenticating' = FALSE
  /\ presencePam' = Aborted

\* Something else decided about the lock: the gesture made so far, and the
\* attempt it began, no longer speak for the user.
Superseded ==
  /\ gesture' = FALSE
  /\ attempt' = [attempt EXCEPT !.current = FALSE]

-----------------------------------------------------------------------------
(***************************************************************************)
(* The gesture.                                                            *)
(***************************************************************************)
Busy ==
  authenticatingPassword \/ presenceAuthenticating \/ presencePam # "idle"
    \/ presenceHoldTimer

\* Locked, and the compositor vouches for it.
Locked == lockRequested /\ secure

\* holdPresence: admission, then the timer.
HoldPresence ==
  /\ Locked /\ ~Busy /\ presenceConfigured
  /\ presenceHoldTimer' = TRUE
  /\ gesture' = TRUE
  /\ UNCHANGED <<stock, presenceConfigured, presenceAuthenticating, presencePam,
                 present, attempt>>

\* releasePresence: a hold cut short is not a hold.
ReleasePresence ==
  /\ presenceHoldTimer' = FALSE
  /\ gesture' = FALSE
  /\ UNCHANGED <<stock, presenceConfigured, presenceAuthenticating, presencePam,
                 present, attempt>>

Begun ==
  [lock |-> locks, deliberate |-> gesture, granted |-> present, current |-> TRUE]

\* Mutant: start() is taken to work.
TriggeredHopefully ==
  /\ presenceHoldTimer
  /\ presenceHoldTimer' = FALSE
  /\ \/ Locked /\ presenceAuthenticating' = TRUE /\ presencePam' = "running"
        /\ attempt' = Begun
     \/ Locked /\ presenceAuthenticating' = TRUE
        /\ UNCHANGED <<presencePam, attempt>>
     \/ ~Locked /\ CancelPresence /\ UNCHANGED attempt
  /\ UNCHANGED <<stock, presenceConfigured, present, gesture>>

\* presenceHoldTimer.onTriggered: admission again, then the authentication,
\* which may fail to start.
Triggered ==
  /\ presenceHoldTimer
  /\ \/ /\ ~Locked \/ authenticatingPassword
        /\ CancelPresence
        /\ UNCHANGED attempt
     \/ /\ Locked /\ ~authenticatingPassword
        /\ presenceHoldTimer' = FALSE
        /\ presenceAuthenticating' = TRUE
        /\ presencePam' = "running"
        /\ attempt' = Begun
     \/ /\ Locked /\ ~authenticatingPassword
        /\ presenceHoldTimer' = FALSE
        /\ presenceAuthenticating' = FALSE
        /\ UNCHANGED <<presencePam, attempt>>
  /\ UNCHANGED <<stock, presenceConfigured, present, gesture>>

-----------------------------------------------------------------------------
(***************************************************************************)
(* Results.  An aborted attempt still completes, with whatever it came to. *)
(***************************************************************************)

\* finishUnlock, by whichever authenticator; it resets them all.
FinishUnlock ==
  /\ lockRequested' = FALSE /\ authenticatingPassword' = FALSE
  /\ CancelPresence
  /\ Superseded
  /\ UNCHANGED <<secure, locks>>

\* The result is used only if this lock still waits for it.
Accepts == presenceAuthenticating /\ Locked /\ ~authenticatingPassword

\* Mutant: any success unlocks a locked session.
SucceedsWhenever ==
  /\ presencePam # "idle" /\ attempt.granted /\ presencePam' = "idle"
  /\ presenceAuthenticating' = FALSE
  /\ IF Locked
       THEN /\ lockRequested' = FALSE /\ authenticatingPassword' = FALSE
            /\ presenceHoldTimer' = FALSE
            /\ Superseded
            /\ UNCHANGED <<secure, locks>>
       ELSE UNCHANGED <<stock, presenceHoldTimer, gesture, attempt>>
  /\ UNCHANGED <<presenceConfigured, present>>

\* onCompleted, with success; the context is no longer active then.
Succeeds ==
  /\ presencePam # "idle" /\ attempt.granted /\ presencePam' = "idle"
  /\ presenceAuthenticating' = FALSE
  /\ IF Accepts
       THEN /\ lockRequested' = FALSE /\ authenticatingPassword' = FALSE
            /\ presenceHoldTimer' = FALSE
            /\ Superseded
            /\ UNCHANGED <<secure, locks>>
       ELSE UNCHANGED <<stock, presenceHoldTimer, gesture, attempt>>
  /\ UNCHANGED <<presenceConfigured, present>>

\* onCompleted with anything else, and onError.
Fails ==
  /\ presencePam # "idle" /\ presencePam' = "idle"
  /\ presenceAuthenticating' = FALSE
  /\ UNCHANGED <<stock, presenceHoldTimer, presenceConfigured, present, gesture,
                 attempt>>

-----------------------------------------------------------------------------
(***************************************************************************)
(* The stock lock, as far as the patches depend on it, the policy's file   *)
(* and the daemon.                                                         *)
(***************************************************************************)
Lock ==
  /\ ~lockRequested /\ locks < MaxLocks
  /\ lockRequested' = TRUE
  /\ locks' = locks + 1
  /\ UNCHANGED <<secure, authenticatingPassword, presence, presenceConfigured,
                 present, gesture, attempt>>

\* The compositor locks, and lets go, when it gets to it.
Secure ==
  /\ secure' = ~secure
  /\ secure' => lockRequested
  /\ UNCHANGED <<lockRequested, authenticatingPassword, locks, presence,
                 presenceConfigured, present, gesture, attempt>>

\* submitPassword: a typed password wins over a pending gesture.
SubmitPassword ==
  /\ lockRequested /\ ~authenticatingPassword
  /\ CancelPresence
  /\ Superseded
  /\ authenticatingPassword' = TRUE
  /\ UNCHANGED <<lockRequested, secure, locks, presenceConfigured, present>>

PasswordFails ==
  /\ authenticatingPassword
  /\ authenticatingPassword' = FALSE
  /\ UNCHANGED <<lockRequested, secure, locks, presence, presenceConfigured,
                 present, gesture, attempt>>

\* The password is right, or, at any time, a fingerprint is.
UnlockOtherwise ==
  /\ lockRequested
  /\ FinishUnlock
  /\ UNCHANGED <<presenceConfigured, present>>

\* FileView: the policy was loaded, or could not be.
PolicyLoaded ==
  /\ presenceConfigured' = TRUE
  /\ UNCHANGED <<stock, presence, present, gesture, attempt>>

PolicyGone ==
  /\ presenceConfigured' = FALSE
  /\ CancelPresence
  /\ Superseded
  /\ UNCHANGED <<stock, present>>

\* The daemon would grant an unlock, or would no longer.
Wander ==
  /\ present' = ~present
  /\ attempt' = [attempt EXCEPT !.granted =
       @ \/ (present' /\ presencePam # "idle")]
  /\ UNCHANGED <<stock, presence, presenceConfigured, gesture>>

Next ==
  \/ HoldPresence \/ ReleasePresence \/ Triggered \/ Succeeds \/ Fails
  \/ Lock \/ Secure \/ SubmitPassword \/ PasswordFails \/ UnlockOtherwise
  \/ PolicyLoaded \/ PolicyGone \/ Wander

(***************************************************************************)
(* Fairness.  Timers fire; an authentication ends, because the exchange it *)
(* makes is bounded (crates/pam/src/lib.rs:23-25); so does a password's.   *)
(***************************************************************************)
Ends == Succeeds \/ Fails

Spec == Init /\ [][Next]_vars
FairSpec == Spec /\ WF_vars(Triggered) /\ WF_vars(Ends) /\ WF_vars(PasswordFails)

-----------------------------------------------------------------------------
(***************************************************************************)
(* Properties.                                                             *)
(***************************************************************************)

(***************************************************************************)
(* Presence unlocks the session only on a hold of Alt that was not let go, *)
(* reported in this very lock, followed by an authentication begun in this *)
(* very lock during which the devices were present, and only if neither a  *)
(* password, nor the loss of the policy, nor an unlock has come between    *)
(* (lock.rs:101-131, 170-181).                                             *)
(***************************************************************************)
UnlockIsEarned ==
  [][Succeeds /\ lockRequested /\ ~lockRequested'
       => /\ attempt.current /\ attempt.lock = locks
          /\ attempt.deliberate /\ attempt.granted
          /\ secure /\ ~authenticatingPassword]_vars

(***************************************************************************)
(* The gesture always comes back: nothing that can be begun, and nothing   *)
(* that can be aborted on the way, leaves the lock answering "busy" for    *)
(* good (lock.rs:78, 110-137).                                             *)
(***************************************************************************)
GestureReturns == Busy ~> ~Busy
=============================================================================
