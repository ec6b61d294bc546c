------------------------------ MODULE Capture ------------------------------
(***************************************************************************)
(* Guided enrollment (crates/cli/src/pairing.rs, advertise_flow): this     *)
(* computer becomes pairable and advertises, a peer connects and bonds,    *)
(* the kernel reports the peer's identity key to a privileged monitor, the *)
(* key is enrolled, and the machine is put back as it was.                 *)
(*                                                                         *)
(* Meanwhile other peers connect and bond, for other programs or because   *)
(* the computer is pairable; the user may cancel; any step may fail or run *)
(* into its timeout; and the process may be killed, which undoes nothing.  *)
(*                                                                         *)
(* A peer is an address BlueZ knows, and a key is named by the peer it     *)
(* belongs to.  A read of a peer's property may fail at any time; the code *)
(* takes that for `no' (unwrap_or(false)).                                 *)
(***************************************************************************)
EXTENDS Naturals, Sequences, FiniteSets

CONSTANTS
  Peer,             \* what may connect
  Resolvable,       \* the peers that use resolvable private addresses
  Claims,           \* the identities each may claim; two may claim the same one
  RestoreAttempts,  \* RESTORE_ATTEMPTS
  MaxKeys,          \* bound: keys the monitor has not delivered yet
  MaxContacts       \* bound: connections and bonds that peers make

ASSUME PeerAssumption == IsFiniteSet(Peer) /\ Resolvable \subseteq Peer
ASSUME ClaimsAssumption == DOMAIN Claims = Peer /\ \A p \in Peer : Claims[p] # {}
ASSUME AttemptsAssumption == RestoreAttempts \in Nat \ {0}
ASSUME BoundAssumption == MaxKeys \in Nat /\ MaxContacts \in Nat

VARIABLES
  pairable, timeout,  \* the adapter's settings
  connected, paired,  \* the peers BlueZ has a link to, a bond with
  pc,                 \* where the flow is
  save,               \* whether it was asked to enroll
  prior,              \* the settings it found
  established,        \* the peers it found
  unread,             \* those it has yet to look at, in a loop over all
  device,             \* the peer it took, or NoPeer
  identity,           \* the identity BlueZ gave of that peer, or NoIdentity
  keys,               \* the monitor's events, oldest first
  captured,           \* whose key it took, or NoPeer
  outcome,            \* "none", then what will be returned
  enrolled,           \* whose key it wrote to the configuration, or NoPeer
  attempt,            \* writes of the settings tried: [count, ok]
  reported,           \* what it said of its cleanup: [devices, settings]
  contacts,           \* for the bound
  former,             \* history: related since before the flow began
  misread             \* history: not in `established' because a read failed

adapter == <<pairable, timeout>>
radio == <<connected, paired, contacts, former>>
vars == <<adapter, radio, pc, save, prior, established, misread, unread, device,
          identity, keys, captured, outcome, enrolled, attempt, reported>>

found == <<save, prior, established, misread>>
got == <<device, identity, keys, captured>>
said == <<enrolled, attempt, reported>>

NoPeer == "no peer"
ASSUME NoPeerAssumption == NoPeer \notin Peer

NoIdentity == "no identity"
ASSUME NoIdentityAssumption == \A p \in Peer : NoIdentity \notin Claims[p]

Timeout == {"never", "prior", "window"}

\* The awaits under the select, any of which a cancel ends.
Cancellable == {"monitor", "advertise", "await", "secure", "key", "name"}
Setup == {"open", "snapshot", "settings", "time", "enable"}
Cleanup == {"list", "sweep", "remove", "untime", "unpair"}
Over == {"ended", "killed"}

Related == connected \cup paired

\* What a read of a property may answer: the fact, or that it failed.
Answers(fact) == {fact, FALSE}

TypeOK ==
  /\ pairable \in BOOLEAN /\ timeout \in Timeout
  /\ connected \subseteq Peer /\ paired \subseteq Peer
  /\ pc \in {"off"} \cup Setup \cup Cancellable \cup Cleanup \cup Over
  /\ save \in BOOLEAN
  /\ prior \in [pairable : BOOLEAN, timeout : Timeout \ {"window"}]
  /\ established \subseteq Peer /\ unread \subseteq Peer /\ misread \subseteq Peer
  /\ device \in Peer \cup {NoPeer}
  /\ pc \in {"secure", "key", "name"} => device # NoPeer
  /\ identity \in UNION {Claims[p] : p \in Peer} \cup {NoIdentity}
  /\ keys \in Seq(Peer) /\ Len(keys) <= MaxKeys
  /\ outcome \in {"none", "ok", "error", "unsynced"}
  /\ pc \in Cleanup => outcome # "none"
  /\ captured \in Peer \cup {NoPeer}
  /\ enrolled \in Peer \cup {NoPeer}
  /\ attempt \in [count : 0..RestoreAttempts, ok : BOOLEAN]
  /\ reported \in [devices : BOOLEAN, settings : BOOLEAN]
  /\ contacts \in 0..MaxContacts
  /\ former \subseteq Related

Init ==
  /\ pairable \in BOOLEAN /\ timeout \in {"never", "prior"}
  /\ paired \in SUBSET Peer /\ connected \in SUBSET Peer
  /\ contacts = 0
  /\ former = Related
  /\ pc = "off" /\ save \in BOOLEAN
  /\ prior = [pairable |-> pairable, timeout |-> timeout]
  /\ established = {} /\ misread = {} /\ unread = {}
  /\ device = NoPeer /\ identity = NoIdentity /\ keys = <<>>
  /\ captured = NoPeer /\ outcome = "none" /\ enrolled = NoPeer
  /\ attempt = [count |-> 0, ok |-> TRUE]
  /\ reported = [devices |-> TRUE, settings |-> FALSE]

-----------------------------------------------------------------------------
(***************************************************************************)
(* Peers, other programs and the adapter.                                  *)
(***************************************************************************)
flow == <<pc, save, prior, established, misread, unread, device, identity,
          captured, outcome, enrolled, attempt, reported>>

\* The monitor is started before anything is advertised.
Monitored == pc \in Cancellable \ {"monitor"}

Connect(p) ==
  /\ p \notin connected /\ contacts < MaxContacts
  /\ connected' = connected \cup {p}
  /\ contacts' = contacts + 1
  /\ UNCHANGED <<adapter, paired, former, keys, flow>>

\* A first bond or another one; the kernel reports the key that comes with it,
\* if the peer distributes one.
Bond(p) ==
  /\ p \in connected /\ contacts < MaxContacts
  /\ paired' = paired \cup {p}
  /\ contacts' = contacts + 1
  /\ \/ keys' = keys
     \/ Monitored /\ Len(keys) < MaxKeys /\ keys' = Append(keys, p)
  /\ UNCHANGED <<adapter, connected, former, flow>>

Disconnect(p) ==
  /\ p \in connected
  /\ connected' = connected \ {p}
  /\ former' = former \ ({p} \ paired)
  /\ UNCHANGED <<adapter, paired, contacts, keys, flow>>

\* BlueZ ends pairability when its timeout runs out; never, if there is none.
Expire ==
  /\ pairable /\ timeout # "never"
  /\ pairable' = FALSE
  /\ UNCHANGED <<timeout, radio, keys, flow>>

-----------------------------------------------------------------------------
(***************************************************************************)
(* The flow.                                                               *)
(***************************************************************************)
Fail(label) == pc' = label /\ outcome' = "error"

\* The capture is over: its monitor, and what it knew of the peer, go with it.
Dropped ==
  /\ device' = NoPeer /\ identity' = NoIdentity
  /\ keys' = <<>> /\ captured' = NoPeer

\* Session, adapter, alias; then every address BlueZ knows, related or cached.
Open ==
  /\ pc = "open"
  /\ \/ /\ Fail("ended")
        /\ UNCHANGED unread
     \/ /\ pc' = "snapshot" /\ outcome' = outcome
        /\ unread' \in {known \in SUBSET Peer : Related \subseteq known}
  /\ UNCHANGED <<adapter, radio, found, got, said>>

Begin ==
  /\ pc = "off" /\ pc' = "open"
  /\ UNCHANGED <<adapter, radio, found, unread, got, outcome, said>>

\* Mutant: only bonds count.
IsEstablishedByBond(linked, bonded) == bonded

\* established_before: any live relationship counts, as far as it could be read.
IsEstablished(linked, bonded) == linked \/ bonded

Snapshot ==
  /\ pc = "snapshot"
  /\ \/ /\ unread = {} /\ pc' = "settings"
        /\ UNCHANGED <<established, unread>>
        /\ UNCHANGED misread
     \/ \E p \in unread :
        \E linked \in Answers(p \in connected), bonded \in Answers(p \in paired) :
          /\ unread' = unread \ {p}
          /\ established' = IF IsEstablished(linked, bonded)
                              THEN established \cup {p} ELSE established
          /\ misread' =
               IF linked # (p \in connected) \/ bonded # (p \in paired)
                 THEN misread \cup ({p} \ established') ELSE misread
          /\ pc' = pc
  /\ UNCHANGED <<adapter, radio, save, prior, got, outcome, said>>

ReadSettings ==
  /\ pc = "settings"
  /\ \/ /\ Fail("ended")
        /\ UNCHANGED prior
     \/ /\ prior' = [pairable |-> pairable, timeout |-> timeout]
        /\ pc' = "time" /\ outcome' = outcome
  /\ UNCHANGED <<adapter, radio, save, established, misread, unread, got, said>>

\* Mutant: open it now, whatever the timeout is.
SetTimeoutLate ==
  /\ pc = "time"
  /\ pairable' = TRUE
  /\ pc' = "enable"
  /\ UNCHANGED <<timeout, radio, found, unread, got, outcome, said>>

\* The window is bounded before it is opened.
SetTimeout ==
  /\ pc = "time"
  /\ \/ /\ timeout' = "window"
        /\ pc' = "enable" /\ outcome' = outcome
     \/ Fail("ended") /\ UNCHANGED timeout
  /\ UNCHANGED <<pairable, radio, found, unread, got, said>>

\* A refusal puts the timeout back, if that works.
SetPairable ==
  /\ pc = "enable"
  /\ \/ /\ pairable' = TRUE
        /\ pc' = "monitor"
        /\ UNCHANGED <<timeout, outcome>>
     \/ /\ timeout' \in {timeout, prior.timeout}
        /\ Fail("ended")
        /\ UNCHANGED pairable
  /\ UNCHANGED <<radio, found, unread, got, said>>

\* The monitor listens; then the agent, the application and the advertisement.
Proceed ==
  /\ \/ pc = "monitor" /\ pc' = "advertise"
     \/ pc = "advertise" /\ pc' = "await"
  /\ UNCHANGED <<adapter, radio, found, unread, got, outcome, said>>

\* await_incoming_connection: a new link, no bond of which is read.
Accept(p) ==
  /\ pc = "await"
  /\ p \in connected \ established
  /\ \E bonded \in Answers(p \in paired) : ~bonded
  /\ device' = p
  /\ pc' = "secure"
  /\ UNCHANGED <<adapter, radio, found, unread, identity, keys, captured, outcome,
                 said>>

\* initiate_security: whichever side began, the bond is there.  BlueZ then gives
\* the peer's identity, unless that read fails.
Secured ==
  /\ pc = "secure" /\ device \in paired
  /\ pc' = "key"
  /\ identity' \in Claims[device] \cup {NoIdentity}
  /\ UNCHANGED <<adapter, radio, found, unread, device, keys, captured, outcome,
                 said>>

\* Mutant: the next key is the peer's.
BelongsToAnyone(address, claimed) == TRUE

\* belongs_to_peer: the event carries the resolvable address the key is used on,
\* if there is one, and the identity the peer claims.
BelongsToPeer(address, claimed) == address = device \/ claimed = identity

\* Mutant: the event is trusted.
SelfCheckNever(p) == TRUE

\* self_check: a key must resolve a resolvable address; no other can be checked.
SelfCheck(p) == device \in Resolvable => p = device

\* capture_peer_irk: events of others are skipped.
ReceiveKey ==
  /\ pc = "key" /\ keys # <<>>
  /\ LET p == Head(keys)
     IN  \E address \in {NoPeer} \cup ({p} \cap Resolvable), claimed \in Claims[p] :
           \/ /\ ~BelongsToPeer(address, claimed)
              /\ keys' = Tail(keys)
              /\ UNCHANGED <<pc, device, identity, captured, outcome>>
           \/ /\ BelongsToPeer(address, claimed) /\ SelfCheck(p)
              /\ pc' = "name" /\ captured' = p
              /\ keys' = Tail(keys)
              /\ UNCHANGED <<device, identity, outcome>>
           \/ /\ BelongsToPeer(address, claimed) /\ ~SelfCheck(p)
              /\ Fail("list") /\ Dropped
  /\ UNCHANGED <<adapter, radio, found, unread, said>>

\* Mutant: an await after the configuration is written.
SaveThenName ==
  /\ pc = "name" /\ enrolled = NoPeer
  /\ enrolled' = IF save THEN captured ELSE NoPeer
  /\ UNCHANGED <<adapter, radio, found, unread, got, pc, outcome, attempt,
                 reported>>

\* The name came or did not; then, with no await, the configuration is written
\* and the enrollment counts as saved; or that fails before the file is
\* replaced, or after it, when its directory cannot be synced (atomic.rs:75-78).
SaveCapture ==
  /\ pc = "name"
  /\ \/ /\ enrolled' = IF save THEN captured ELSE NoPeer
        /\ outcome' = "ok"
     \/ /\ save /\ enrolled' = enrolled
        /\ outcome' = "error"
     \/ /\ save /\ enrolled' = captured
        /\ outcome' = "unsynced"
  /\ pc' = "list" /\ Dropped
  /\ UNCHANGED <<adapter, radio, found, unread, attempt, reported>>

\* A step under the select fails, runs into its timeout, or is cancelled.
Abandon ==
  /\ pc \in Cancellable
  /\ Fail("list") /\ Dropped
  /\ UNCHANGED <<adapter, radio, found, unread, said>>

\* cleanup_new_capture_devices: every address BlueZ knows, or none if it fails.
ListDevices ==
  /\ pc = "list"
  /\ pc' = "sweep"
  /\ unread' \in {known \in SUBSET Peer : Related \subseteq known} \cup {{}}
  /\ UNCHANGED <<adapter, radio, found, got, outcome, said>>

Sweep ==
  /\ pc = "sweep"
  /\ \/ /\ unread = {} /\ pc' = "untime"
        /\ UNCHANGED <<unread, device>>
     \/ \E p \in unread :
          /\ unread' = unread \ {p}
          /\ \E linked \in Answers(p \in connected), bonded \in Answers(p \in paired) :
               IF p \notin established /\ (linked \/ bonded)
                 THEN device' = p /\ pc' = "remove"
                 ELSE UNCHANGED <<pc, device>>
  /\ UNCHANGED <<adapter, radio, found, identity, keys, captured, outcome, said>>

\* cleanup_capture_device, after waiting: the link is closed and BlueZ forgets
\* the peer; or something of it fails.
Remove ==
  /\ pc = "remove"
  /\ pc' = "sweep" /\ Dropped
  /\ \/ /\ connected' = connected \ {device} /\ paired' = paired \ {device}
        /\ former' = former \ {device}
        /\ UNCHANGED reported
     \/ /\ connected' \in {connected, connected \ {device}} /\ paired' = paired
        /\ former' = former \cap (connected' \cup paired)
        /\ reported' = [reported EXCEPT !.devices = FALSE]
  /\ UNCHANGED <<adapter, contacts, found, unread, outcome, enrolled, attempt>>

\* Mutant: each attempt is the first.
RestoreTimeoutAfresh ==
  /\ pc = "untime"
  /\ pc' = "unpair"
  /\ \/ /\ timeout' = prior.timeout
        /\ attempt' = [count |-> 0, ok |-> TRUE]
     \/ /\ timeout' = timeout
        /\ attempt' = [count |-> 0, ok |-> FALSE]
  /\ UNCHANGED <<pairable, radio, found, unread, got, outcome, enrolled,
                 reported>>

\* restore_pairability: two writes, each may be refused as Busy.
RestoreTimeout ==
  /\ pc = "untime"
  /\ pc' = "unpair"
  /\ \/ /\ timeout' = prior.timeout
        /\ attempt' = [attempt EXCEPT !.ok = TRUE]
     \/ /\ timeout' = timeout
        /\ attempt' = [attempt EXCEPT !.ok = FALSE]
  /\ UNCHANGED <<pairable, radio, found, unread, got, outcome, enrolled,
                 reported>>

\* Mutant: the second write decides.
SucceededByPairable(written) == written

Succeeded(written) == written /\ attempt.ok

Settled(written) == Succeeded(written) \/ attempt.count + 1 = RestoreAttempts

RestorePairable ==
  /\ pc = "unpair"
  /\ \E written \in BOOLEAN :
       /\ pairable' = IF written THEN prior.pairable ELSE pairable
       /\ IF Settled(written)
            THEN /\ pc' = "ended"
                 /\ reported' = [reported EXCEPT !.settings = Succeeded(written)]
                 /\ attempt' = attempt
            ELSE /\ pc' = "untime"
                 /\ attempt' = [attempt EXCEPT !.count = @ + 1]
                 /\ reported' = reported
  /\ UNCHANGED <<timeout, radio, found, unread, got, outcome, enrolled>>

\* A signal that does not ask, or a second Ctrl+C: nothing unwinds, and what the
\* process knew is gone.
Kill ==
  /\ pc \notin {"off"} \cup Over
  /\ pc' = "killed" /\ Dropped
  /\ established' = {} /\ misread' = {} /\ unread' = {}
  /\ UNCHANGED <<adapter, radio, save, prior, outcome, said>>

Flow ==
  \/ Open \/ Snapshot \/ ReadSettings \/ SetTimeout \/ SetPairable \/ Proceed
  \/ (\E p \in Peer : Accept(p)) \/ Secured \/ ReceiveKey \/ SaveCapture
  \/ Abandon \/ ListDevices \/ Sweep \/ Remove \/ RestoreTimeout \/ RestorePairable

Next ==
  \/ Begin \/ Flow \/ Kill \/ Expire
  \/ \E p \in Peer : Connect(p) \/ Bond(p) \/ Disconnect(p)

\* Fairness.  Each await is bounded by a timeout, so the flow moves on; BlueZ
\* runs its timer.
Spec == Init /\ [][Next]_vars
FairSpec == Spec /\ WF_vars(Flow) /\ WF_vars(Expire)

-----------------------------------------------------------------------------
(***************************************************************************)
(* Properties.                                                             *)
(***************************************************************************)

(***************************************************************************)
(* The peer that is enrolled came during the flow, unless a read of it     *)
(* failed at the snapshot; and the key is that peer's own, not that of one *)
(* that bonds for another program: where the peer uses a fixed address, it *)
(* is at least that of one that can claim the identity BlueZ gave of that  *)
(* peer (pairing.rs:790-804, 704-722, 433-447).                            *)
(***************************************************************************)
OnlyThePeersKey ==
  [][enrolled' # enrolled =>
       /\ device \in former => device \in misread
       /\ \/ enrolled' = device
          \/ device \notin Resolvable /\ identity \in Claims[enrolled']]_vars

(***************************************************************************)
(* What was connected or bonded before the flow, and still is, is left     *)
(* alone by its cleanup (pairing.rs:1009-1019), unless the snapshot missed *)
(* it because a read of it failed.                                         *)
(***************************************************************************)
FormerIsLeftAlone ==
  [][pc = "remove" /\ pc' = "sweep" => former \ former' \subseteq misread]_vars

(***************************************************************************)
(* When the flow says that the adapter's settings are restored, they are   *)
(* (pairing.rs:1045-1063).                                                 *)
(***************************************************************************)
RestoredAsSaid ==
  reported.settings =>
    timeout = prior.timeout /\ (pairable => prior.pairable)

(***************************************************************************)
(* A flow that was to enroll says it did only if the configuration was     *)
(* written, and one that says it was cancelled or failed has not written   *)
(* it: a cancel neither hides an enrollment nor invents one (pairing.rs:   *)
(* 992-1004, 1121-1124).  One error alone comes with the file in place:    *)
(* that of the save itself, when it cannot sync the directory after the    *)
(* rename (atomic.rs:75-78, devices.rs:85-97).                             *)
(***************************************************************************)
OutcomeIsTruth ==
  pc = "ended" /\ save => (outcome \in {"ok", "unsynced"} <=> enrolled # NoPeer)

(***************************************************************************)
(* While the computer is pairable because of the flow, a timer ends it,    *)
(* whether or not the process lives (pairing.rs:1086-1090): until the flow *)
(* starts to put the settings back.                                        *)
(***************************************************************************)
OpenWindowIsTimed ==
  /\ pairable /\ ~prior.pairable
  /\ pc \in Setup \cup Cancellable \cup {"list", "sweep", "remove"}
  => timeout # "never"

\* A flow ends: every wait is bounded, every retry counted.
FlowEnds == pc = "open" ~> pc \in Over

(***************************************************************************)
(* What the comment says of a process that exits without unwinding: the    *)
(* controller closes the window on its own (pairing.rs:1086-1090).         *)
(***************************************************************************)
WindowCloses == pc = "killed" ~> (pairable => prior.pairable)
=============================================================================
