--------------------------- MODULE Capture_proofs ---------------------------
(***************************************************************************)
(* Proofs about module Capture, for any peers, any number of attempts at   *)
(* restoring, and whatever peers, timers and failures do meanwhile.        *)
(***************************************************************************)
EXTENDS Capture, SequenceTheorems, TLAPS

(***************************************************************************)
(* The settings of the adapter.  Until the timeout is set, pairability is  *)
(* what it was or has expired; from then on until they are put back, the   *)
(* timeout is that of the window.  A restore that counts both writes saw   *)
(* the first succeed.                                                      *)
(***************************************************************************)
Before == {"off", "open", "snapshot", "settings", "time"}
Opened == {"enable"} \cup Cancellable \cup {"list", "sweep", "remove"}

Restored == timeout = prior.timeout /\ (pairable => prior.pairable)

Settings ==
  /\ prior \in [pairable : BOOLEAN, timeout : Timeout]
  /\ pairable \in BOOLEAN /\ timeout \in Timeout
  /\ attempt = [count |-> attempt.count, ok |-> attempt.ok]
  /\ reported = [devices |-> reported.devices, settings |-> reported.settings]
  /\ pc \in Before => (pairable => prior.pairable)
  /\ pc \in Opened => timeout = "window"
  /\ pc = "unpair" /\ attempt.ok => timeout = prior.timeout
  /\ reported.settings => pc = "ended" /\ Restored

LEMMA NextSettings == ASSUME Settings, [Next]_vars PROVE Settings'
<1> USE DEF Settings, Restored, Before, Opened, Cancellable, Fail, Timeout
<1>1. CASE Begin \/ Open \/ Snapshot
  BY <1>1 DEF Begin, Open, Snapshot, adapter, found, got, said
<1>2. CASE ReadSettings
  BY <1>2 DEF ReadSettings, adapter, got, said
<1>3. CASE SetTimeout
  BY <1>3 DEF SetTimeout, found, got, said
<1>4. CASE SetPairable
  BY <1>4 DEF SetPairable, found, got, said
<1>5. CASE Proceed \/ Secured \/ Abandon \/ ListDevices
  BY <1>5 DEF Proceed, Secured, Abandon, ListDevices, adapter, found, got, said
<1>6. CASE (\E p \in Peer : Accept(p)) \/ ReceiveKey \/ SaveCapture
  BY <1>6 DEF Accept, ReceiveKey, SaveCapture, adapter, found, said
<1>7. CASE Sweep
  BY <1>7 DEF Sweep, adapter, found, said
<1>8. CASE Remove
  BY <1>8 DEF Remove, adapter, found
<1>9. CASE RestoreTimeout
  BY <1>9 DEF RestoreTimeout, found
<1>10. CASE RestorePairable
  BY <1>10 DEF RestorePairable, Settled, Succeeded, found
<1>11. CASE Kill
  BY <1>11 DEF Kill, Over, adapter, found, got, said
<1>12. CASE Expire
  BY <1>12 DEF Expire, flow
<1>13. CASE \E p \in Peer : Connect(p) \/ Bond(p) \/ Disconnect(p)
  BY <1>13 DEF Connect, Bond, Disconnect, adapter, flow
<1>14. CASE UNCHANGED vars
  BY <1>14 DEF vars, adapter
<1> QED
  BY <1>1, <1>2, <1>3, <1>4, <1>5, <1>6, <1>7, <1>8, <1>9, <1>10, <1>11, <1>12, <1>13, <1>14
  DEF Next, Flow

LEMMA AlwaysSettings == Spec => []Settings
<1>1. Init => Settings
  BY DEF Init, Settings, Restored, Before, Opened, Cancellable, Timeout
<1> QED
  BY <1>1, NextSettings, PTL DEF Spec

(***************************************************************************)
(* When the flow says that the adapter's settings are restored, they are   *)
(* (pairing.rs:1045-1063): the write of pairability that counts follows a  *)
(* write of the timeout that succeeded, and nothing of the flow follows.   *)
(***************************************************************************)
THEOREM SettingsRestoredAsSaid == Spec => []RestoredAsSaid
<1>1. Settings => RestoredAsSaid
  BY DEF Settings, Restored, RestoredAsSaid
<1> QED
  BY <1>1, AlwaysSettings, PTL

(***************************************************************************)
(* While the computer is pairable because of the flow, a timer ends it     *)
(* (pairing.rs:1086-1090): the window's timeout is written before it is    *)
(* opened, and stays until the settings are put back.                      *)
(***************************************************************************)
THEOREM WindowIsTimed == Spec => []OpenWindowIsTimed
<1>1. Settings => OpenWindowIsTimed
  BY DEF Settings, Before, Opened, Setup, OpenWindowIsTimed
<1> QED
  BY <1>1, AlwaysSettings, PTL

-----------------------------------------------------------------------------
(***************************************************************************)
(* The capture.  The flow has taken a peer from the moment it secures the  *)
(* link, and a key as good as the peer's own from the moment it asks for   *)
(* the name; nothing is enrolled before that, and the outcome is decided   *)
(* with the write.                                                         *)
(***************************************************************************)
Undecided == {"off"} \cup Setup \cup Cancellable

\* A key as good as the peer's own: only a fixed address leaves it at the identity.
OwnKey(p) ==
  \/ p = device
  \/ device \notin Resolvable /\ identity \in Claims[p]

Captured ==
  /\ keys \in Seq(Peer)
  /\ pc \in {"secure", "key", "name"} => device \in Peer
  /\ pc = "name" => captured \in Peer /\ OwnKey(captured)
  /\ pc \in Undecided => enrolled = NoPeer /\ outcome = "none"
  /\ pc \in Cleanup \cup {"ended"} /\ save
       => (outcome \in {"ok", "unsynced"} <=> enrolled # NoPeer)

\* The comparison of the addresses and the check of the key leave no other.
LEMMA AcceptedIsOwn ==
  ASSUME device \in Peer, NEW p \in Peer, NEW claimed \in Claims[p],
         NEW address \in {NoPeer} \cup ({p} \cap Resolvable),
         BelongsToPeer(address, claimed), SelfCheck(p)
  PROVE  OwnKey(p)
<1>1. CASE address = device
  BY <1>1, NoPeerAssumption DEF OwnKey
<1>2. CASE claimed = identity
  BY <1>2 DEF OwnKey, SelfCheck
<1> QED
  BY <1>1, <1>2 DEF BelongsToPeer

LEMMA NextCaptured == ASSUME Captured, [Next]_vars PROVE Captured'
<1> USE EmptySeq DEF Captured, OwnKey, Undecided, Setup, Cancellable, Cleanup, Fail, Dropped
<1>1. CASE Begin \/ Open \/ Snapshot \/ ReadSettings
  BY <1>1 DEF Begin, Open, Snapshot, ReadSettings, found, got, said
<1>2. CASE SetTimeout \/ SetPairable
  BY <1>2 DEF SetTimeout, SetPairable, found, got, said
<1>3. CASE Proceed \/ ListDevices
  BY <1>3 DEF Proceed, ListDevices, found, got, said
<1>13. CASE Secured
  BY <1>13 DEF Secured, found, said
<1>14. CASE Abandon
  BY <1>14 DEF Abandon, found, said
<1>4. CASE \E p \in Peer : Accept(p)
  BY <1>4 DEF Accept, found, said
<1>5. CASE ReceiveKey
  <2>1. /\ pc = "key" /\ Head(keys) \in Peer /\ Tail(keys) \in Seq(Peer)
        /\ UNCHANGED <<save, enrolled>>
    BY <1>5 DEF ReceiveKey, found, said
  <2>2. PICK address \in {NoPeer} \cup ({Head(keys)} \cap Resolvable),
             claimed \in Claims[Head(keys)] :
          \/ /\ keys' = Tail(keys)
             /\ UNCHANGED <<pc, device, identity, captured, outcome>>
          \/ /\ BelongsToPeer(address, claimed) /\ SelfCheck(Head(keys))
             /\ pc' = "name" /\ captured' = Head(keys)
             /\ keys' = Tail(keys) /\ UNCHANGED <<device, identity, outcome>>
          \/ Fail("list") /\ Dropped
    BY <1>5 DEF ReceiveKey
  <2>3. CASE keys' = Tail(keys) /\ UNCHANGED <<pc, device, identity, captured, outcome>>
    BY <2>1, <2>3
  <2>4. CASE /\ BelongsToPeer(address, claimed) /\ SelfCheck(Head(keys))
             /\ pc' = "name" /\ captured' = Head(keys)
             /\ keys' = Tail(keys) /\ UNCHANGED <<device, identity, outcome>>
    <3>1. OwnKey(Head(keys))
      BY <2>1, <2>4, AcceptedIsOwn
    <3> QED
      BY <2>1, <2>4, <3>1
  <2>5. CASE Fail("list") /\ Dropped
    BY <2>1, <2>5
  <2> QED
    BY <2>2, <2>3, <2>4, <2>5
<1>6. CASE SaveCapture
  BY <1>6, NoPeerAssumption DEF SaveCapture, found, got
<1>7. CASE Sweep
  <2>1. /\ pc = "sweep" /\ pc' \in {"sweep", "untime", "remove"}
        /\ UNCHANGED <<save, keys, outcome, enrolled>>
    BY <1>7 DEF Sweep, found, said
  <2> QED
    BY <2>1
<1>15. CASE Remove
  <2>1. /\ pc = "remove" /\ pc' = "sweep" /\ keys' = <<>>
        /\ UNCHANGED <<save, outcome, enrolled>>
    BY <1>15 DEF Remove, found
  <2> QED
    BY <2>1
<1>8. CASE RestoreTimeout \/ RestorePairable
  BY <1>8 DEF RestoreTimeout, RestorePairable, found, got
<1>9. CASE Kill
  BY <1>9 DEF Kill, Over, found, got, said
<1>10. CASE Expire
  BY <1>10 DEF Expire, flow
<1>11. CASE \E p \in Peer : Connect(p) \/ Bond(p) \/ Disconnect(p)
  <2>1. keys' \in Seq(Peer)
    BY <1>11 DEF Connect, Bond, Disconnect
  <2> QED
    BY <1>11, <2>1 DEF Connect, Bond, Disconnect, flow
<1>12. CASE UNCHANGED vars
  BY <1>12 DEF vars, found, got, said
<1> QED
  BY <1>1, <1>2, <1>3, <1>4, <1>5, <1>6, <1>7, <1>8, <1>9, <1>10, <1>11, <1>12,
     <1>13, <1>14, <1>15
  DEF Next, Flow

LEMMA AlwaysCaptured == Spec => []Captured
<1>1. Init => Captured
  BY EmptySeq DEF Init, Captured, Undecided, Cleanup
<1> QED
  BY <1>1, NextCaptured, PTL DEF Spec

(***************************************************************************)
(* A flow that was to enroll returns success only when the configuration   *)
(* was written, and an error with it written only from the save itself     *)
(* (pairing.rs:992-1004, 1121-1124, atomic.rs:75-78), whenever it was      *)
(* cancelled or failed.                                                    *)
(***************************************************************************)
THEOREM OutcomeIsTheTruth == Spec => []OutcomeIsTruth
<1>1. Captured => OutcomeIsTruth
  BY DEF Captured, OutcomeIsTruth
<1> QED
  BY <1>1, AlwaysCaptured, PTL

-----------------------------------------------------------------------------
(***************************************************************************)
(* Former peers.  Those related since before the flow began, and still,    *)
(* are among what the snapshot found, has yet to look at or missed because *)
(* a read failed, and after it among what it found or missed so; the peer  *)
(* the flow takes or removes is not one that it found.                     *)
(***************************************************************************)
Looked == Cancellable \cup Cleanup \cup {"settings", "time", "enable"}

FormerKnown ==
  /\ former \subseteq Related
  /\ pc = "snapshot" => former \subseteq established \cup unread \cup misread
  /\ pc \in Looked => former \subseteq established \cup misread
  /\ pc \in {"secure", "key", "name", "remove"} => device \notin established

LEMMA NextFormer == ASSUME FormerKnown, [Next]_vars PROVE FormerKnown'
<1> USE DEF FormerKnown, Looked, Related, Cancellable, Cleanup, Fail, Dropped
<1>1. CASE Begin \/ Open
  BY <1>1 DEF Begin, Open, radio, found, got
<1>2. CASE Snapshot
  <2>1. UNCHANGED <<former, connected, paired>> /\ pc = "snapshot"
    BY <1>2 DEF Snapshot, radio
  <2>2. CASE pc' = "settings"
    BY <1>2, <2>1, <2>2 DEF Snapshot
  <2>3. CASE pc' # "settings"
    <3>4. PICK p \in unread :
          \E linked \in Answers(p \in connected), bonded \in Answers(p \in paired) :
            /\ unread' = unread \ {p}
            /\ established' = IF IsEstablished(linked, bonded)
                               THEN established \cup {p} ELSE established
            /\ misread' =
                 IF linked # (p \in connected) \/ bonded # (p \in paired)
                   THEN misread \cup ({p} \ established') ELSE misread
            /\ pc' = pc
      BY <1>2, <2>3 DEF Snapshot
    <3>1. PICK linked \in Answers(p \in connected), bonded \in Answers(p \in paired) :
            /\ unread' = unread \ {p}
            /\ established' = IF IsEstablished(linked, bonded)
                               THEN established \cup {p} ELSE established
            /\ misread' =
                 IF linked # (p \in connected) \/ bonded # (p \in paired)
                   THEN misread \cup ({p} \ established') ELSE misread
            /\ pc' = pc
      BY <3>4
    <3>2. p \in Related => p \in established' \cup misread'
      BY <3>1 DEF Answers, IsEstablished
    <3>3. established \cup misread \subseteq established' \cup misread'
      BY <3>1
    <3> QED
      BY <2>1, <3>1, <3>2, <3>3
  <2> QED
    BY <2>2, <2>3
<1>3. CASE ReadSettings \/ SetTimeout \/ SetPairable
  BY <1>3 DEF ReadSettings, SetTimeout, SetPairable, radio, found, got
<1>4. CASE Proceed \/ Secured \/ Abandon \/ ListDevices
  BY <1>4 DEF Proceed, Secured, Abandon, ListDevices, radio, found, got
<1>5. CASE (\E p \in Peer : Accept(p)) \/ ReceiveKey \/ SaveCapture
  BY <1>5 DEF Accept, ReceiveKey, SaveCapture, radio, found, got
<1>6. CASE Sweep
  BY <1>6 DEF Sweep, radio, found
<1>7. CASE Remove
  BY <1>7 DEF Remove, found, got
<1>8. CASE RestoreTimeout \/ RestorePairable
  BY <1>8 DEF RestoreTimeout, RestorePairable, radio, found, got
<1>9. CASE Kill
  BY <1>9 DEF Kill, Over, radio, found, got
<1>10. CASE Expire
  BY <1>10 DEF Expire, radio, flow
<1>11. CASE \E p \in Peer : Connect(p) \/ Bond(p) \/ Disconnect(p)
  BY <1>11 DEF Connect, Bond, Disconnect, flow
<1>12. CASE UNCHANGED vars
  BY <1>12 DEF vars, radio, found, got
<1> QED
  BY <1>1, <1>2, <1>3, <1>4, <1>5, <1>6, <1>7, <1>8, <1>9, <1>10, <1>11, <1>12
  DEF Next, Flow

LEMMA AlwaysFormer == Spec => []FormerKnown
<1>1. Init => FormerKnown
  BY DEF Init, FormerKnown, Looked, Related, Cancellable, Cleanup
<1> QED
  BY <1>1, NextFormer, PTL DEF Spec

(***************************************************************************)
(* Only the configuration's write enrolls, and only in these steps does    *)
(* the cleanup remove.                                                     *)
(***************************************************************************)
LEMMA OnlySaveEnrolls ==
  ASSUME Next, enrolled' # enrolled PROVE SaveCapture
BY DEF Next, Flow, Begin, Open, Snapshot, ReadSettings, SetTimeout,
  SetPairable, Proceed, Accept, Secured, ReceiveKey, Abandon, ListDevices,
  Sweep, Remove, RestoreTimeout, RestorePairable, Kill, Expire, Connect, Bond,
  Disconnect, said, flow

LEMMA OnlyRemoveReturns ==
  ASSUME Next, pc = "remove", pc' = "sweep" PROVE Remove
BY DEF Next, Flow, Begin, Open, Snapshot, ReadSettings, SetTimeout,
  SetPairable, Proceed, Accept, Secured, ReceiveKey, SaveCapture, Abandon,
  ListDevices, Sweep, RestoreTimeout, RestorePairable, Kill, Expire, Connect,
  Bond, Disconnect, flow, Cancellable, Fail

(***************************************************************************)
(* The peer that is enrolled was not there before the flow, unless a read  *)
(* of it failed, and the key is its own or, where its address is fixed, of *)
(* its identity (pairing.rs:790-804, 704-722, 433-447), whatever others do *)
(* while the monitor listens.                                              *)
(***************************************************************************)
THEOREM EnrollsOnlyThePeersKey == Spec => OnlyThePeersKey
<1>1. ASSUME Captured, FormerKnown, [Next]_vars, enrolled' # enrolled
      PROVE  /\ device \in former => device \in misread
             /\ \/ enrolled' = device
                \/ device \notin Resolvable /\ identity \in Claims[enrolled']
  <2>1. SaveCapture
    BY <1>1, OnlySaveEnrolls DEF vars, said
  <2>2. pc = "name" /\ enrolled' = captured /\ OwnKey(captured)
    <3>1. pc = "name"
      BY <2>1 DEF SaveCapture
    <3>2. OwnKey(captured) /\ enrolled = NoPeer
      BY <3>1, <1>1 DEF Captured, Undecided, Cancellable
    <3> QED
      BY <3>1, <3>2, <2>1, <1>1 DEF SaveCapture
  <2>3. former \subseteq established \cup misread /\ device \notin established
    BY <2>2, <1>1 DEF FormerKnown, Looked, Cancellable
  <2> QED
    BY <2>2, <2>3 DEF OwnKey
<1> QED
  BY <1>1, AlwaysCaptured, AlwaysFormer, PTL DEF Spec, OnlyThePeersKey

(***************************************************************************)
(* What was connected or bonded before the flow, and still is, is left     *)
(* alone by its cleanup (pairing.rs:1009-1019), wherever the flow ended,   *)
(* unless a read of it failed at the snapshot.                             *)
(***************************************************************************)
THEOREM FormerPeersAreLeftAlone == Spec => FormerIsLeftAlone
<1>1. ASSUME FormerKnown, [Next]_vars, pc = "remove" /\ pc' = "sweep"
      PROVE  former \ former' \subseteq misread
  <2>1. Remove
    BY <1>1, OnlyRemoveReturns DEF vars
  <2>2. /\ device \in former => device \in misread
        /\ former \subseteq connected \cup paired
    BY <1>1 DEF FormerKnown, Looked, Cleanup, Related
  <2>3. former \ former' \subseteq {device}
    BY <2>1, <2>2 DEF Remove
  <2> QED
    BY <2>2, <2>3
<1> QED
  BY <1>1, AlwaysFormer, PTL DEF Spec, FormerIsLeftAlone
=============================================================================
