---------------------------- MODULE Daemon_proofs ----------------------------
(***************************************************************************)
(* Proofs about module Daemon: the running daemon only ever steps its      *)
(* fleet as module Fleet does, nothing survives a lost scan, a grant or a  *)
(* status that reaches a client was due while the client waited, and a     *)
(* revocation on the air reaches the policy.                               *)
(*                                                                         *)
(* The only fact of the scanner that the first needs is that what it hands *)
(* to the fleet is a reading of an enrolled device.                        *)
(***************************************************************************)
EXTENDS Daemon, FiniteSetTheorems, SequenceTheorems, TLAPS

\* What the scanner holds, as far as the fleet can tell.
Holding ==
  /\ cache \in [Device -> [rssi : Rssi \cup {NoRssi}, payload : F!Reading]]
  /\ queue \in Seq(Device)
  /\ scan.pc \in Reading => scan.device \in Device
  /\ scan.pc \in {"payload", "observe"} => scan.rssi \in Rssi
  /\ scan.pc = "observe" => scan.payload \in F!Reading
  /\ scan = [pc |-> scan.pc, device |-> scan.device,
             rssi |-> scan.rssi, payload |-> scan.payload]

LEMMA BareFields ==
  ASSUME NEW pc
  PROVE  /\ Bare(pc).pc = pc
         /\ Bare(pc) = [pc |-> Bare(pc).pc, device |-> Bare(pc).device,
                        rssi |-> Bare(pc).rssi, payload |-> Bare(pc).payload]
  BY DEF Bare

LEMMA HoldingInit == Init => Holding
  BY BareFields DEF Init, Holding, F!Observation, F!Reading, Reading

\* The payload a device's cache holds, and an RSSI that is there.
LEMMA CacheFields ==
  ASSUME Holding, NEW d \in Device
  PROVE  /\ cache[d].payload \in F!Reading
         /\ cache[d].rssi # NoRssi => cache[d].rssi \in Rssi
  BY DEF Holding

LEMMA HoldingStep == Holding /\ [Next]_vars => Holding'
<1> SUFFICES ASSUME Holding, [Next]_vars
             PROVE  Holding'
  OBVIOUS
<1>1. CASE UNCHANGED <<cache, queue, scan>>
  BY <1>1 DEF Holding
<1>2. ASSUME NEW d \in Device, NEW rssi \in Rssi, NEW payload \in F!Reading,
             Receive(d, rssi, payload)
      PROVE  Holding'
  <2>1. queue' \in Seq(Device)
    <3>1. queue \in Seq(Device) /\ <<d, d>> \in Seq(Device)
      BY DEF Holding
    <3>2. queue' = queue \o <<d, d>> \/ queue' = queue
      BY <1>2 DEF Receive
    <3>3. queue \o <<d, d>> \in Seq(Device)
      BY <3>1, ConcatProperties
    <3>4. QED BY <3>1, <3>2, <3>3
  <2>2. cache' \in [Device -> [rssi : Rssi \cup {NoRssi}, payload : F!Reading]]
    BY <1>2 DEF Receive, Holding
  <2>3. QED BY <1>2, <2>1, <2>2 DEF Receive, Holding
<1>3. ASSUME NEW d \in Device, Vanish(d)
      PROVE  Holding'
  <2>1. cache' \in [Device -> [rssi : Rssi \cup {NoRssi}, payload : F!Reading]]
    BY <1>3 DEF Vanish, Holding
  <2>2. QED BY <1>3, <2>1 DEF Vanish, Holding
<1>4. CASE Start \/ Crash \/ LoseScan \/ Forget
  <2>1. scan' = Bare("ready") \/ scan' = Bare("down") \/ scan' = Bare("lost")
    BY <1>4 DEF Start, Crash, LoseScan, Forget
  <2>2. cache' = cache /\ (queue' = queue \/ queue' = <<>>)
    BY <1>4 DEF Start, Crash, LoseScan, Forget, bluez
  <2>3. queue' \in Seq(Device)
    BY <2>2, EmptySeq DEF Holding
  <2>4. scan'.pc \in {"ready", "down", "lost"}
    BY <2>1, BareFields
  <2>5. scan' = [pc |-> scan'.pc, device |-> scan'.device,
                 rssi |-> scan'.rssi, payload |-> scan'.payload]
    BY <2>1, BareFields, Zenon
  <2>6. QED BY <2>2, <2>3, <2>4, <2>5 DEF Holding, Reading
<1>5. CASE OpenScan
  <2>1. queue' \in Seq(Device)
    <3>1. Cardinality(Device) \in Nat
      BY DeviceAssumption, FS_CardinalityType
    <3>2. queue' \in [1..Cardinality(Device) -> Device]
      BY <1>5 DEF OpenScan, SetToSeqs
    <3>3. QED BY <3>1, <3>2
  <2>2. scan' = Bare("idle") /\ cache' = cache
    BY <1>5 DEF OpenScan
  <2>3. QED BY <2>1, <2>2, BareFields DEF Holding, Reading
<1>6. CASE TakeEvent
  <2>1. Head(queue) \in Device /\ queue' \in Seq(Device)
    BY <1>6 DEF TakeEvent, Holding
  <2>2. scan'.pc = "rssi" /\ scan'.device = Head(queue) /\ cache' = cache
    BY <1>6 DEF TakeEvent, At, Bare, Holding
  <2>3. QED BY <1>6, <2>1, <2>2 DEF TakeEvent, At, Holding, Reading
<1>7. CASE ReadRssi
  <2>1. scan.device \in Device
    BY <1>7 DEF ReadRssi, Holding, Reading
  <2>2. CASE cache[scan.device].rssi = NoRssi
    BY <1>7, <2>2, BareFields DEF ReadRssi, Holding, Reading, bluez
  <2>3. CASE cache[scan.device].rssi # NoRssi
    BY <1>7, <2>1, <2>3, CacheFields DEF ReadRssi, At, Holding, Reading, bluez
  <2>4. QED BY <2>2, <2>3
<1>8. CASE ReadPayload
  <2>1. scan.device \in Device
    BY <1>8 DEF ReadPayload, Holding, Reading
  <2>2. QED
    BY <1>8, <2>1, CacheFields DEF ReadPayload, At, Holding, Reading, bluez
<1>9. CASE ReadFails \/ ObserveAdvertisement
  BY <1>9, BareFields DEF ReadFails, ObserveAdvertisement, Holding, Reading, bluez
<1>10. CASE Tick
  BY <1>1, <1>10 DEF Tick, bluez
<1>11. CASE Client
  BY <1>1, <1>11
  DEF Client, Ask, Connected, Progress, TakeRequest, Answer, Settle, Expire, Finish, bluez
<1>12. CASE UNCHANGED vars
  BY <1>1, <1>12 DEF vars, bluez
<1>13. QED
  BY <1>2, <1>3, <1>4, <1>5, <1>6, <1>7, <1>8, <1>9, <1>10, <1>11, <1>12
  DEF Next, Radio, Scanner

\* The advertisement of one device is a reading of the whole fleet.
LEMMA AdvertisementReads ==
  ASSUME Holding, ObserveAdvertisement
  PROVE  Advertisement \in [Device -> F!Reading] /\ scan.rssi \in Rssi
  BY DEF Holding, ObserveAdvertisement, Advertisement, F!Reading

(***************************************************************************)
(* Every step of the daemon is a step of the fleet or leaves it alone.     *)
(***************************************************************************)
LEMMA FleetStep == Holding /\ [Next]_vars => [F!Next]_(F!vars)
<1> SUFFICES ASSUME Holding, [Next]_vars
             PROVE  [F!Next]_(F!vars)
  OBVIOUS
<1>1. CASE UNCHANGED fleetVars
  BY <1>1 DEF fleetVars, F!vars
<1>2. CASE Tick
  BY <1>2 DEF Tick, F!Next
<1>3. CASE Crash \/ Forget
  BY <1>3 DEF Crash, Forget, Forgotten, F!Next
<1>4. CASE ObserveAdvertisement
  <2>1. F!Advertise(Advertisement, scan.rssi)
    BY <1>4 DEF ObserveAdvertisement
  <2>2. QED BY <1>4, <2>1, AdvertisementReads DEF F!Next
<1>5. CASE Radio
  BY <1>1, <1>5 DEF Radio, Receive, Vanish
<1>6. CASE Start \/ OpenScan \/ LoseScan \/ TakeEvent \/ ReadRssi \/ ReadPayload
           \/ ReadFails
  BY <1>1, <1>6
  DEF Start, OpenScan, LoseScan, TakeEvent, ReadRssi, ReadPayload, ReadFails
<1>7. CASE Client
  BY <1>1, <1>7 DEF Client, Ask, Connected, Progress, TakeRequest, Answer, Settle, Expire, Finish
<1>8. CASE UNCHANGED vars
  BY <1>1, <1>8 DEF vars
<1>9. QED
  BY <1>2, <1>3, <1>4, <1>5, <1>6, <1>7, <1>8 DEF Next, Scanner

(***************************************************************************)
(* The running daemon implements the fleet (ImplementsFleet), so every     *)
(* theorem about Fleet holds of the daemon: an advertisement read in       *)
(* several calls is still folded in whole, at the moment it is folded in.  *)
(***************************************************************************)
THEOREM DaemonImplementsFleet == Spec => ImplementsFleet
<1>1. Init => F!Init
  BY DEF Init
<1>2. QED
  BY <1>1, HoldingInit, HoldingStep, FleetStep, PTL DEF Spec, ImplementsFleet, F!Spec

(***************************************************************************)
(* The evidence a lost scan or a dead process left behind is gone before   *)
(* the next scan opens (LostScanForgets).                                  *)
(***************************************************************************)
THEOREM NothingOutlivesAScan == Spec => []LostScanForgets
<1>1. Init => LostScanForgets
  BY DEF Init, F!Init, LostScanForgets
<1>2. Holding /\ LostScanForgets /\ [Next]_vars => LostScanForgets'
  <2> SUFFICES ASSUME Holding, LostScanForgets, [Next]_vars
               PROVE  LostScanForgets'
    OBVIOUS
  <2>1. CASE UNCHANGED <<evidence, scan>>
    BY <2>1 DEF LostScanForgets
  <2>2. CASE Start
    BY <2>2 DEF Start, fleetVars, LostScanForgets
  <2>3. CASE Crash \/ Forget
    BY <2>3 DEF Crash, Forget, Forgotten, F!Invalidate, LostScanForgets
  <2>4. CASE OpenScan \/ LoseScan \/ ReadFails \/ ObserveAdvertisement
    BY <2>4, BareFields
    DEF OpenScan, LoseScan, ReadFails, ObserveAdvertisement, LostScanForgets
  <2>5. CASE TakeEvent \/ ReadRssi \/ ReadPayload
    <3>1. scan.pc \notin {"down", "ready"} /\ evidence' = evidence
      BY <2>5 DEF TakeEvent, ReadRssi, ReadPayload, fleetVars
    <3>2. scan' = Bare("idle") \/ scan'.pc \in {"rssi", "payload", "observe"}
                               \/ scan'.pc = scan.pc
      BY <2>5, BareFields DEF TakeEvent, ReadRssi, ReadPayload, At, Bare, Holding
    <3>3. scan'.pc \notin {"down", "ready"}
      BY <3>1, <3>2, BareFields
    <3>4. QED BY <3>3 DEF LostScanForgets
  <2>6. CASE Radio
    BY <2>1, <2>6 DEF Radio, Receive, Vanish, fleetVars
  <2>7. CASE Tick
    BY <2>1, <2>7 DEF Tick, F!Tick
  <2>8. CASE Client
    BY <2>1, <2>8
    DEF Client, Ask, Connected, Progress, TakeRequest, Answer, Settle, Expire, Finish, fleetVars
  <2>9. CASE UNCHANGED vars
    BY <2>1, <2>9 DEF vars, fleetVars
  <2>10. QED
    BY <2>2, <2>3, <2>4, <2>5, <2>6, <2>7, <2>8, <2>9 DEF Next, Scanner
<1>3. QED BY <1>1, <1>2, HoldingInit, HoldingStep, PTL DEF Spec

(***************************************************************************)
(* GrantWasDue.  Beyond it the invariant says that a reply that grants is  *)
(* backed while it waits to be read, and that nothing is left of an        *)
(* exchange that is over.                                                  *)
(***************************************************************************)
ReplyBacked ==
  /\ request = [pc |-> request.pc, kind |-> request.kind,
                start |-> request.start, now |-> request.now,
                grant |-> request.grant, lines |-> request.lines,
                result |-> request.result]
  /\ request.pc = "none" => request.result = "none"
  /\ request.pc = "answered" /\ request.kind = "check" /\ request.grant
       => since.fleet
  /\ GrantWasDue

\* While the fleet and the clock stand still, so does what it would answer.
LEMMA SameAnswer ==
  ASSUME UNCHANGED fleetVars
  PROVE  F!FleetCheck(clock)' = F!FleetCheck(clock)
<1>1. clock' = clock /\ evidence' = evidence
  BY DEF fleetVars
<1>2. QED
  BY <1>1 DEF F!FleetCheck, F!Allowed, F!ClosestDeny, F!Decision, F!Required

\* What an exchange has been owed is not forgotten while it lasts.
LEMMA Remembered ==
  ASSUME Remember, request'.pc # "none"
  PROVE  /\ request.pc # "none" /\ since.fleet => since'.fleet
         /\ F!FleetCheck(clock)' = F!Allow => since'.fleet
  BY DEF Remember

LEMMA ReplyBackedStep == ReplyBacked /\ [Next]_vars => ReplyBacked'
<1> SUFFICES ASSUME ReplyBacked, [Next]_vars
             PROVE  ReplyBacked'
  OBVIOUS
<1>1. CASE Remember /\ UNCHANGED request
  BY <1>1, Remembered DEF ReplyBacked, GrantWasDue
<1>2. CASE Crash /\ Remember
  BY <1>1, <1>2, Remembered DEF Crash, Ended, NoRequest, ReplyBacked, GrantWasDue
<1>11. CASE (Connected \/ Progress) /\ Remember
  BY <1>11, Remembered DEF Connected, Progress, InFlight, ReplyBacked, GrantWasDue
<1>3. CASE (\E kind \in {"check", "status"} : Ask(kind)) /\ Remember
  BY <1>3 DEF Ask, NoRequest, ReplyBacked, GrantWasDue
<1>4. CASE TakeRequest /\ Remember
  BY <1>4, Remembered DEF TakeRequest, ReplyBacked, GrantWasDue
<1>5. CASE Answer /\ Remember
  <2>1. F!FleetCheck(clock)' = F!FleetCheck(clock)
    BY <1>5, SameAnswer DEF Answer
  <2>2. /\ request'.pc = "answered" /\ request'.kind = request.kind
        /\ request'.result = request.result
        /\ request.kind = "check" =>
             (request'.grant <=> F!FleetCheck(clock) = F!Allow)
    BY <1>5 DEF Answer, ReplyBacked
  <2>3. request' = [pc |-> request'.pc, kind |-> request'.kind,
                    start |-> request'.start, now |-> request'.now,
                    grant |-> request'.grant, lines |-> request'.lines,
                    result |-> request'.result]
    BY <1>5 DEF Answer, ReplyBacked
  <2>4. QED
    BY <1>5, <2>1, <2>2, <2>3, Remembered DEF Answer, ReplyBacked, GrantWasDue
<1>6. CASE (Settle \/ Expire) /\ Remember
  <2>1. request.pc # "none"
    BY <1>6 DEF Settle, Expire, InFlight
  <2>2. \E result :
          /\ request' = Ended(result)
          /\ result = "success" => request.pc = "answered" /\ request.grant
    BY <1>6 DEF Settle, Expire
  <2>3. /\ request'.pc = "done" /\ request'.kind = request.kind
        /\ request'.result = "success" =>
             request.pc = "answered" /\ request.grant
        /\ request' = [pc |-> request'.pc, kind |-> request'.kind,
                       start |-> request'.start, now |-> request'.now,
                       grant |-> request'.grant, lines |-> request'.lines,
                       result |-> request'.result]
    BY <2>2 DEF Ended, NoRequest
  <2>4. QED BY <1>6, <2>1, <2>3, Remembered DEF ReplyBacked, GrantWasDue
<1>7. CASE Finish /\ Remember
  BY <1>7 DEF Finish, NoRequest, ReplyBacked, GrantWasDue
<1>8. CASE (Tick \/ Radio \/ Start \/ Scanner) /\ Remember
  BY <1>1, <1>8
  DEF Tick, Radio, Receive, Vanish, Start, Scanner, OpenScan, LoseScan, Forget,
      TakeEvent, ReadRssi, ReadPayload, ReadFails, ObserveAdvertisement, bluez
<1>9. CASE UNCHANGED vars
  BY <1>9 DEF vars, ReplyBacked, GrantWasDue
<1>10. QED
  BY <1>2, <1>3, <1>4, <1>5, <1>6, <1>7, <1>8, <1>9, <1>11 DEF Next, Client

(***************************************************************************)
(* A client that is let in was owed it at a moment of its own exchange,    *)
(* however late the reply and whatever became of the daemon.               *)
(***************************************************************************)
THEOREM GrantsAreDue == Spec => []GrantWasDue
<1>1. Init => ReplyBacked
  BY DEF Init, NoRequest, ReplyBacked, GrantWasDue
<1>2. ReplyBacked => GrantWasDue
  BY DEF ReplyBacked
<1>3. QED BY <1>1, <1>2, ReplyBackedStep, PTL DEF Spec

-----------------------------------------------------------------------------
(***************************************************************************)
(* RevocationReachesPolicy. While the last advertisement of a device       *)
(* revoked, an event of it is still queued, or the scanner has yet to read *)
(* it, or the read of one failed, or the evidence is gone. A payload read  *)
(* before the revocation came is followed by the event that brings it:     *)
(* that is why the first conjunct does not exempt a missed device.         *)
(***************************************************************************)
Among(d) == \E i \in 1..Len(queue) : queue[i] = d
Revoking(d) == cache[d].rssi # NoRssi /\ cache[d].payload = "Revoke"

Caught(d) ==
  Revoking(d) =>
    /\ scan.pc = "observe" /\ scan.device = d => scan.payload = "Revoke" \/ Among(d)
    /\ scan.pc \in Scanning /\ d \notin missed =>
         \/ Among(d)
         \/ scan.device = d /\ scan.pc \in Reading
         \/ evidence[d].samples = {}

CaughtUp == \A d \in Device : Caught(d)

\* An advertisement is queued behind what was there.
LEMMA AmongAppended ==
  ASSUME NEW d \in Device, queue \in Seq(Device), queue' = queue \o <<d, d>>
  PROVE  /\ Among(d)'
         /\ \A o \in Device : Among(o) => Among(o)'
<1>1. <<d, d>> \in Seq(Device) /\ Len(<<d, d>>) = 2
  OBVIOUS
<1>2. /\ Len(queue') = Len(queue) + 2
      /\ \A i \in 1..Len(queue) : queue'[i] = queue[i]
      /\ queue'[Len(queue) + 1] = d
  BY <1>1
<1>3. Len(queue) \in Nat
  OBVIOUS
<1> QED
  BY <1>2, <1>3 DEF Among

\* Taking an event takes only its own device.
LEMMA AmongTaken ==
  ASSUME queue \in Seq(Device), queue # <<>>, queue' = Tail(queue)
  PROVE  \A d \in Device : Among(d) => Among(d)' \/ d = Head(queue)
<1> SUFFICES ASSUME NEW d \in Device, NEW i \in 1..Len(queue), queue[i] = d, d # Head(queue)
             PROVE  Among(d)'
  BY DEF Among
<1>1. i # 1 /\ Head(queue) = queue[1]
  OBVIOUS
<1>2. Len(queue') = Len(queue) - 1 /\ i - 1 \in 1..Len(queue')
  BY <1>1
<1>3. queue'[i - 1] = queue[i]
  BY <1>2
<1> QED
  BY <1>2, <1>3 DEF Among

\* No read, failure, event or fold of another device loses one.
LEMMA CaughtUpStep ==
  ASSUME Holding, LostScanForgets, CaughtUp, [Next]_vars PROVE CaughtUp'
<1> SUFFICES ASSUME NEW d \in Device PROVE Caught(d)'
  BY DEF CaughtUp
<1> USE DEF Caught, Revoking
<1>0. Caught(d)
  BY DEF CaughtUp
<1>1. CASE UNCHANGED <<cache, queue, scan, missed, evidence>>
  BY <1>0, <1>1 DEF Among
<1>2. ASSUME NEW o \in Device, NEW rssi \in Rssi, NEW payload \in F!Reading,
             Receive(o, rssi, payload)
      PROVE  Caught(d)'
  <2>1. UNCHANGED <<scan, missed, evidence>> /\ (d # o => cache'[d] = cache[d])
    BY <1>2 DEF Receive, fleetVars, Holding
  <2>2. CASE scan.pc \in Scanning
    <3>1. queue' = queue \o <<o, o>>
      BY <1>2, <2>2 DEF Receive
    <3>2. Among(o)' /\ (Among(d) => Among(d)')
      BY <3>1, AmongAppended DEF Holding
    <3> QED
      BY <1>0, <2>1, <3>2
  <2>3. CASE scan.pc \notin Scanning
    BY <2>1, <2>3 DEF Scanning, Reading
  <2> QED
    BY <2>2, <2>3
<1>3. ASSUME NEW o \in Device, Vanish(o)
      PROVE  Caught(d)'
  <2>1. UNCHANGED <<scan, missed, evidence, queue>> /\ (d # o => cache'[d] = cache[d])
    BY <1>3 DEF Vanish, fleetVars, Holding
  <2>2. d = o => cache'[d].rssi = NoRssi
    BY <1>3 DEF Vanish, Holding
  <2> QED
    BY <1>0, <2>1, <2>2 DEF Among
<1>4. CASE Start \/ Crash \/ LoseScan \/ Forget
  <2>1. scan' = Bare("ready") \/ scan' = Bare("down") \/ scan' = Bare("lost")
    BY <1>4 DEF Start, Crash, LoseScan, Forget
  <2>2. scan'.pc \notin Scanning
    BY <2>1, BareFields DEF Scanning, Reading
  <2> QED
    BY <2>2 DEF Scanning, Reading
<1>5. CASE OpenScan
  <2>1. evidence'[d].samples = {} /\ scan'.pc = "idle"
    BY <1>5, BareFields DEF OpenScan, LostScanForgets, F!NoEvidence, fleetVars
  <2> QED
    BY <2>1
<1>6. CASE TakeEvent
  <2>1. scan'.pc = "rssi" /\ scan'.device = Head(queue)
    BY <1>6 DEF TakeEvent, At, Holding
  <2>2. Among(d) => Among(d)' \/ d = Head(queue)
    BY <1>6, AmongTaken DEF TakeEvent, Holding
  <2>3. UNCHANGED <<cache, evidence, missed>> /\ scan.pc = "idle"
    BY <1>6 DEF TakeEvent, fleetVars
  <2> QED
    BY <1>0, <2>1, <2>2, <2>3 DEF Scanning, Reading
<1>7. CASE ReadRssi
  <2>1. UNCHANGED <<cache, evidence, missed, queue>> /\ scan.pc = "rssi"
    BY <1>7 DEF ReadRssi, fleetVars, bluez
  <2>2. CASE cache[scan.device].rssi = NoRssi
    <3>1. scan'.pc = "idle"
      BY <1>7, <2>2, BareFields DEF ReadRssi
    <3> QED
      BY <1>0, <2>1, <2>2, <3>1 DEF Among, Scanning, Reading
  <2>3. CASE cache[scan.device].rssi # NoRssi
    <3>1. scan'.pc = "payload" /\ scan'.device = scan.device
      BY <1>7, <2>3 DEF ReadRssi, At, Holding
    <3> QED
      BY <1>0, <2>1, <3>1 DEF Among, Scanning, Reading
  <2> QED
    BY <2>2, <2>3
<1>8. CASE ReadPayload
  <2>1. UNCHANGED <<cache, evidence, missed, queue>> /\ scan.pc = "payload"
    BY <1>8 DEF ReadPayload, fleetVars, bluez
  <2>2. scan'.pc = "observe" /\ scan'.device = scan.device
        /\ scan'.payload = cache[scan.device].payload
    BY <1>8 DEF ReadPayload, At, Holding
  <2> QED
    BY <1>0, <2>1, <2>2 DEF Among, Scanning, Reading
<1>9. CASE ReadFails
  <2>1. /\ UNCHANGED <<cache, evidence, queue>> /\ scan.pc \in {"rssi", "payload"}
        /\ missed' = missed \cup {scan.device} /\ scan'.pc = "idle"
    BY <1>9, BareFields DEF ReadFails, fleetVars, bluez
  <2> QED
    BY <1>0, <2>1 DEF Among, Scanning, Reading
<1>10. CASE ObserveAdvertisement
  <2>1. /\ UNCHANGED <<cache, queue>> /\ scan.pc = "observe"
        /\ missed' = missed \ {scan.device} /\ scan'.pc = "idle"
    BY <1>10, BareFields DEF ObserveAdvertisement, bluez
  <2>2. d # scan.device => evidence'[d] = evidence[d]
    BY <1>10 DEF ObserveAdvertisement, F!Advertise, Advertisement
  <2>3. d = scan.device /\ scan.payload = "Revoke" => evidence'[d].samples = {}
    BY <1>10 DEF ObserveAdvertisement, F!Advertise, Advertisement, F!Observe, F!Revoke
  <2>4. CASE d = scan.device
    BY <1>0, <2>1, <2>3, <2>4 DEF Among, Scanning, Reading
  <2>5. CASE d # scan.device
    BY <1>0, <2>1, <2>2, <2>5 DEF Among, Scanning, Reading
  <2> QED
    BY <2>4, <2>5
<1>11. CASE Tick
  BY <1>1, <1>11 DEF Tick, F!Tick, bluez
<1>12. CASE Client
  BY <1>1, <1>12
  DEF Client, Ask, Connected, Progress, TakeRequest, Answer, Settle, Expire, Finish, bluez, fleetVars
<1>13. CASE UNCHANGED vars
  BY <1>1, <1>13 DEF vars, bluez, fleetVars
<1> QED
  BY <1>2, <1>3, <1>4, <1>5, <1>6, <1>7, <1>8, <1>9, <1>10, <1>11, <1>12, <1>13
  DEF Next, Radio, Scanner

(***************************************************************************)
(* Once the scanner has caught up, a device whose last advertisement       *)
(* revoked has no evidence left, unless a read of it failed, however the   *)
(* reads and the advertisements interleaved (scan.rs:56-94).               *)
(***************************************************************************)
THEOREM RevocationsReachPolicy == Spec => []RevocationReachesPolicy
<1>1. Init => CaughtUp
  BY BareFields DEF Init, CaughtUp, Caught, Revoking, Scanning, Reading
<1>2. Holding /\ LostScanForgets /\ CaughtUp /\ [Next]_vars => CaughtUp'
  BY CaughtUpStep
<1>3. CaughtUp => RevocationReachesPolicy
  <2> SUFFICES ASSUME CaughtUp, NEW d \in Device, scan.pc = "idle", queue = <<>>,
                      cache[d].rssi # NoRssi, cache[d].payload = "Revoke", d \notin missed
               PROVE  evidence[d].samples = {}
    BY DEF RevocationReachesPolicy
  <2>1. ~Among(d)
    BY DEF Among
  <2> QED
    BY <2>1 DEF CaughtUp, Caught, Revoking, Scanning, Reading
<1> QED
  BY <1>1, <1>2, <1>3, HoldingInit, HoldingStep, NothingOutlivesAScan, PTL DEF Spec

-----------------------------------------------------------------------------
(***************************************************************************)
(* EvidenceIsLive. The RSSI the scanner holds is one that was there since  *)
(* the event was taken.                                                    *)
(***************************************************************************)
LiveRead == scan.pc \in {"payload", "observe"} => scan.rssi \in live

LEMMA LiveReadStep == Holding /\ LiveRead /\ [Next]_vars => LiveRead'
<1> SUFFICES ASSUME Holding, LiveRead, [Next]_vars PROVE LiveRead'
  OBVIOUS
<1>1. CASE UNCHANGED vars
  BY <1>1 DEF vars, LiveRead
<1>2. CASE Remember
  <2>1. scan.pc \in Reading /\ scan'.pc \in Reading => live \subseteq live'
    BY <1>2 DEF Remember
  <2>2. CASE UNCHANGED scan
    BY <2>1, <2>2 DEF LiveRead, Reading
  <2>3. CASE ReadRssi
    <3>1. CASE cache[scan.device].rssi = NoRssi
      BY <2>3, <3>1, BareFields DEF ReadRssi, LiveRead
    <3>2. CASE cache[scan.device].rssi # NoRssi
      <4>1. /\ scan'.pc = "payload" /\ scan'.device = scan.device
            /\ scan'.rssi = cache[scan.device].rssi /\ cache' = cache
        BY <2>3, <3>2 DEF ReadRssi, At, Holding, bluez
      <4> QED
        BY <1>2, <3>2, <4>1 DEF Remember, LiveRead, Reading
    <3> QED
      BY <3>1, <3>2
  <2>4. CASE ReadPayload
    <3>1. scan.pc = "payload" /\ scan'.pc = "observe" /\ scan'.rssi = scan.rssi
      BY <2>4 DEF ReadPayload, At, Holding
    <3> QED
      BY <2>1, <3>1 DEF LiveRead, Reading
  <2>5. CASE TakeEvent
    <3>1. scan'.pc = "rssi"
      BY <2>5 DEF TakeEvent, At, Holding
    <3> QED
      BY <3>1 DEF LiveRead
  <2>6. CASE Start \/ Crash \/ LoseScan \/ Forget \/ OpenScan \/ ReadFails
             \/ ObserveAdvertisement
    <3>1. \E pc \in {"ready", "down", "lost", "idle"} : scan' = Bare(pc)
      BY <2>6 DEF Start, Crash, LoseScan, Forget, OpenScan, ReadFails, ObserveAdvertisement
    <3> QED
      BY <3>1, BareFields DEF LiveRead
  <2>7. CASE Tick \/ Radio \/ Client
    BY <2>2, <2>7
    DEF Tick, Radio, Receive, Vanish, Client, Ask, Connected, Progress, TakeRequest, Answer,
        Settle, Expire, Finish
  <2> QED
    BY <1>1, <2>3, <2>4, <2>5, <2>6, <2>7 DEF Next, Scanner
<1> QED
  BY <1>1, <1>2 DEF Next

(***************************************************************************)
(* Whatever is withdrawn, or read late, only an RSSI that BlueZ had of the *)
(* device since its event was taken changes what the policy knows of it    *)
(* (scan.rs:64-94).                                                        *)
(***************************************************************************)
THEOREM OnlyLiveEvidence == Spec => EvidenceIsLive
<1> DEFINE Live == [\A d \in Device :
       evidence'[d] \notin {evidence[d], F!NoEvidence}
         => d = scan.device /\ scan.rssi \in live]_vars
<1>1. Init => LiveRead
  BY BareFields DEF Init, LiveRead
<1>2. Holding /\ LiveRead /\ [Next]_vars => Live
  <2> SUFFICES ASSUME Holding, LiveRead, [Next]_vars, NEW d \in Device,
                      evidence'[d] \notin {evidence[d], F!NoEvidence}
               PROVE  d = scan.device /\ scan.rssi \in live
    OBVIOUS
  <2>1. CASE ObserveAdvertisement
    <3>1. d = scan.device
      BY <2>1 DEF ObserveAdvertisement, F!Advertise, Advertisement
    <3> QED
      BY <2>1, <3>1 DEF ObserveAdvertisement, LiveRead
  <2>2. CASE Crash \/ Forget
    BY <2>2 DEF Crash, Forget, Forgotten, F!Invalidate
  <2>3. CASE UNCHANGED evidence
    BY <2>3
  <2> QED
    BY <2>1, <2>2, <2>3
    DEF Next, vars, fleetVars, Tick, F!Tick, Radio, Receive, Vanish, Start, Scanner, OpenScan,
        LoseScan, TakeEvent, ReadRssi, ReadPayload, ReadFails, Client, Ask, Connected,
        Progress, TakeRequest, Answer, Settle, Expire, Finish
<1> QED
  BY <1>1, <1>2, HoldingInit, HoldingStep, LiveReadStep, PTL DEF Spec, EvidenceIsLive

-----------------------------------------------------------------------------
(***************************************************************************)
(* Types: of the fleet, of the scan and of the exchange.                   *)
(***************************************************************************)
LEMMA FleetTypeStep ==
  ASSUME F!TypeOK, Holding, [Next]_vars PROVE F!TypeOK'
<1> USE ClockAssumption DEF F!TypeOK
<1>1. CASE UNCHANGED fleetVars
  BY <1>1 DEF fleetVars
<1>2. CASE Tick
  BY <1>2 DEF Tick, F!Tick
<1>3. CASE Crash \/ Forget
  <2>1. F!NoEvidence \in F!Evidence
    BY DEF F!NoEvidence, F!Evidence, F!Never
  <2> QED
    BY <1>3, <2>1 DEF Crash, Forget, Forgotten, F!Invalidate
<1>4. CASE ObserveAdvertisement
  <2> DEFINE e == evidence[scan.device]
             p == PolicyOf[scan.device]
             new == F!Observe(e, clock, scan.rssi, scan.payload, p)
  <2>1. scan.device \in Device /\ scan.payload \in F!Reading /\ clock \in Nat
    BY <1>4 DEF ObserveAdvertisement, Holding, Reading
  <2>2. e \in F!Evidence
    BY <2>1
  <2>3. scan.payload # "reject" => new \in F!Evidence
    <3>1. CASE scan.payload = "Revoke"
      BY <2>1, <3>1 DEF F!Observe, F!Revoke, F!Evidence, F!Never
    <3>2. CASE scan.payload = "Ignore"
      BY <2>2, <3>2 DEF F!Observe, F!Ignore, F!Evidence
    <3>3. CASE scan.payload = "Qualify"
      <4>1. new = F!Qualify(e, clock, scan.rssi, p)
        BY <3>3 DEF F!Observe
      <4>2. F!Within(clock, e.samples, p.window) \in SUBSET Nat
        BY <2>2 DEF F!Within, F!Evidence
      <4>3. F!Within(clock, e.samples, p.window) \cup {clock} \in SUBSET Nat
        BY <2>1, <4>2
      <4>4. e.last \in Nat \cup {F!Never}
        BY <2>2 DEF F!Evidence
      <4>5. CASE F!Countable(e, clock, scan.rssi, p)
        BY <2>1, <4>1, <4>3, <4>5 DEF F!Qualify, F!Evidence, F!Never
      <4>6. CASE ~F!Countable(e, clock, scan.rssi, p)
        BY <4>1, <4>2, <4>4, <4>6 DEF F!Qualify, F!Evidence, F!Never
      <4> QED
        BY <4>5, <4>6
    <3> QED
      BY <2>1, <3>1, <3>2, <3>3 DEF F!Reading, F!Observation
  <2>4. /\ clock' = clock
        /\ evidence' = [d \in Device |-> IF Advertisement[d] = "reject" THEN evidence[d]
             ELSE F!Observe(evidence[d], clock, scan.rssi, Advertisement[d], PolicyOf[d])]
    BY <1>4 DEF ObserveAdvertisement, F!Advertise
  <2>5. evidence' \in [Device -> F!Evidence]
    <3>1. ASSUME NEW d \in Device PROVE evidence'[d] \in F!Evidence
      BY <2>1, <2>2, <2>3, <2>4 DEF Advertisement
    <3> QED
      BY <2>4, <3>1
  <2>6. sightings' \in [Device -> SUBSET (0..MaxClock)]
    BY <1>4 DEF ObserveAdvertisement, F!Advertise
  <2> QED
    BY <2>4, <2>5, <2>6
<1>5. CASE Radio
  BY <1>1, <1>5 DEF Radio, Receive, Vanish
<1>6. CASE Start \/ OpenScan \/ LoseScan \/ TakeEvent \/ ReadRssi \/ ReadPayload
           \/ ReadFails
  BY <1>1, <1>6
  DEF Start, OpenScan, LoseScan, TakeEvent, ReadRssi, ReadPayload, ReadFails
<1>7. CASE Client
  BY <1>1, <1>7 DEF Client, Ask, Connected, Progress, TakeRequest, Answer, Settle, Expire, Finish
<1>8. CASE UNCHANGED vars
  BY <1>1, <1>8 DEF vars
<1> QED
  BY <1>2, <1>3, <1>4, <1>5, <1>6, <1>7, <1>8 DEF Next, Scanner

\* The events and the scan.
ScanTypes ==
  /\ queue \in Seq(Device) /\ Len(queue) <= MaxQueue
  /\ scan \in [pc : {"down", "ready", "lost"} \cup Scanning, device : Device,
               rssi : Rssi \cup {NoRssi}, payload : F!Reading]
  /\ scan.pc \in {"payload", "observe"} => scan.rssi # NoRssi
  /\ scan.pc \notin Scanning => queue = <<>>

\* A scan between two events, with a device that is there.
LEMMA BareType ==
  ASSUME NEW pc \in {"down", "ready", "lost"} \cup Scanning
  PROVE  Bare(pc) \in [pc : {"down", "ready", "lost"} \cup Scanning, device : Device,
                       rssi : Rssi \cup {NoRssi}, payload : F!Reading]
<1>1. (CHOOSE d \in Device : TRUE) \in Device
  BY DeviceAssumption
<1> QED
  BY <1>1 DEF Bare, F!Observation, F!Reading

\* The queue stays within its bound, and is empty when nothing scans.
LEMMA ScanTypesStep ==
  ASSUME ScanTypes, Holding, [Next]_vars PROVE ScanTypes'
<1> DEFINE Scan == [pc : {"down", "ready", "lost"} \cup Scanning, device : Device,
                    rssi : Rssi \cup {NoRssi}, payload : F!Reading]
<1> USE QueueAssumption DEF ScanTypes, Scanning, Reading
<1>1. CASE UNCHANGED <<queue, scan>>
  BY <1>1
<1>2. ASSUME NEW d \in Device, NEW rssi \in Rssi, NEW payload \in F!Reading,
             Receive(d, rssi, payload)
      PROVE  ScanTypes'
  <2>1. CASE scan.pc \in Scanning
    <3>1. queue' = queue \o <<d, d>> /\ Len(queue) + 2 <= MaxQueue /\ scan' = scan
      BY <1>2, <2>1 DEF Receive
    <3>2. <<d, d>> \in Seq(Device) /\ Len(<<d, d>>) = 2
      OBVIOUS
    <3>3. queue' \in Seq(Device) /\ Len(queue') = Len(queue) + 2
      BY <3>1, <3>2, ConcatProperties
    <3> QED
      BY <2>1, <3>1, <3>3
  <2>2. CASE scan.pc \notin Scanning
    BY <1>1, <1>2, <2>2 DEF Receive
  <2> QED
    BY <2>1, <2>2
<1>3. ASSUME NEW d \in Device, Vanish(d)
      PROVE  ScanTypes'
  BY <1>1, <1>3 DEF Vanish
<1>4. CASE Start \/ Crash \/ LoseScan \/ Forget
  <2>1. \E pc \in {"ready", "down", "lost"} : scan' = Bare(pc)
    BY <1>4 DEF Start, Crash, LoseScan, Forget
  <2>2. scan' \in Scan /\ scan'.pc \in {"ready", "down", "lost"}
    BY <2>1, BareType, BareFields
  <2>3. queue' = <<>>
    BY <1>4 DEF Start, Crash, LoseScan, Forget, bluez
  <2> QED
    BY <2>2, <2>3
<1>5. CASE OpenScan
  <2>1. PICK replay \in SetToSeqs(Device) : Len(replay) <= MaxQueue /\ queue' = replay
    BY <1>5 DEF OpenScan
  <2>2. queue' \in Seq(Device)
    <3>1. Cardinality(Device) \in Nat
      BY DeviceAssumption, FS_CardinalityType
    <3>2. queue' \in [1..Cardinality(Device) -> Device]
      BY <2>1 DEF SetToSeqs
    <3> QED
      BY <3>1, <3>2
  <2>3. scan' \in Scan /\ scan'.pc = "idle"
    BY <1>5, BareType, BareFields DEF OpenScan
  <2> QED
    BY <2>1, <2>2, <2>3
<1>6. CASE TakeEvent
  <2>1. Head(queue) \in Device /\ queue' \in Seq(Device) /\ Len(queue') <= MaxQueue
    BY <1>6 DEF TakeEvent
  <2>2. scan' \in Scan /\ scan'.pc = "rssi"
    BY <1>6, <2>1 DEF TakeEvent, At
  <2> QED
    BY <2>1, <2>2
<1>7. CASE ReadRssi
  <2>1. queue' = queue /\ scan.device \in Device
    BY <1>7 DEF ReadRssi, bluez
  <2>2. CASE cache[scan.device].rssi = NoRssi
    <3>1. scan' \in Scan /\ scan'.pc = "idle"
      BY <1>7, <2>2, BareType, BareFields DEF ReadRssi
    <3> QED
      BY <1>7, <2>1, <3>1
  <2>3. CASE cache[scan.device].rssi # NoRssi
    <3>1. cache[scan.device].rssi \in Rssi
      BY <2>1, <2>3, CacheFields
    <3>2. scan' \in Scan /\ scan'.pc = "payload" /\ scan'.rssi = cache[scan.device].rssi
      BY <1>7, <2>3, <3>1 DEF ReadRssi, At
    <3> QED
      BY <2>1, <2>3, <3>2
  <2> QED
    BY <2>2, <2>3
<1>8. CASE ReadPayload
  <2>1. queue' = queue /\ cache[scan.device].payload \in F!Reading
    BY <1>8, CacheFields DEF ReadPayload, bluez
  <2>2. scan' \in Scan /\ scan'.pc = "observe" /\ scan'.rssi = scan.rssi
    BY <1>8, <2>1 DEF ReadPayload, At
  <2> QED
    BY <1>8, <2>1, <2>2 DEF ReadPayload
<1>9. CASE ReadFails \/ ObserveAdvertisement
  <2>1. queue' = queue /\ scan' = Bare("idle")
    BY <1>9 DEF ReadFails, ObserveAdvertisement, bluez
  <2>2. scan' \in Scan /\ scan'.pc = "idle"
    BY <2>1, BareType, BareFields
  <2> QED
    BY <2>1, <2>2
<1>10. CASE Tick
  BY <1>1, <1>10 DEF Tick, bluez
<1>11. CASE Client
  BY <1>1, <1>11
  DEF Client, Ask, Connected, Progress, TakeRequest, Answer, Settle, Expire, Finish, bluez
<1>12. CASE UNCHANGED vars
  BY <1>1, <1>12 DEF vars, bluez
<1>13. QED
  BY <1>2, <1>3, <1>4, <1>5, <1>6, <1>7, <1>8, <1>9, <1>10, <1>11, <1>12
  DEF Next, Radio, Scanner

\* The exchange and the histories.
RequestTypes ==
  /\ request \in [pc : {"none", "done"} \cup InFlight,
                  kind : {"check", "status"}, start : 0..MaxClock,
                  now : 0..MaxClock, grant : BOOLEAN, lines : SUBSET Device,
                  result : {"none", "success", "denied", "unavailable"}]
  /\ since \in [fleet : BOOLEAN, devices : SUBSET Device]
  /\ received \in [Device -> 0..CountTo]
  /\ missed \in SUBSET Device
  /\ live \in SUBSET Rssi

\* Every reply is about enrolled devices.
LEMMA RequestTypesStep ==
  ASSUME RequestTypes, F!TypeOK, Holding, [Next]_vars PROVE RequestTypes'
<1> DEFINE Exchange == [pc : {"none", "done"} \cup InFlight,
                  kind : {"check", "status"}, start : 0..MaxClock,
                  now : 0..MaxClock, grant : BOOLEAN, lines : SUBSET Device,
                  result : {"none", "success", "denied", "unavailable"}]
<1>0. 0 \in 0..MaxClock /\ clock \in 0..MaxClock
  BY ClockAssumption DEF F!TypeOK
<1>1. request' \in Exchange
  <2> USE DEF RequestTypes, InFlight
  <2>1. CASE UNCHANGED request
    BY <2>1
  <2>2. ASSUME NEW result \in {"success", "denied", "unavailable"}, request' = Ended(result)
        PROVE  request' \in Exchange
    BY <1>0, <2>2 DEF Ended, NoRequest
  <2>3. CASE Crash
    BY <2>1, <2>2, <2>3 DEF Crash
  <2>4. CASE \E kind \in {"check", "status"} : Ask(kind)
    BY <1>0, <2>4 DEF Ask, NoRequest
  <2>5. CASE TakeRequest \/ Connected \/ Progress
    BY <1>0, <2>5 DEF TakeRequest, Connected, Progress
  <2>6. CASE Answer
    <3> DEFINE now == IF request.kind = "check" THEN clock ELSE request.now
               lines == IF request.kind = "status" THEN F!Allowed(now) ELSE {}
               grant == F!FleetCheck(now) = F!Allow
    <3>1. now \in 0..MaxClock /\ lines \in SUBSET Device /\ grant \in BOOLEAN
      BY <1>0 DEF F!Allowed
    <3>2. request' = [request EXCEPT !.pc = "answered", !.now = 0, !.grant = grant,
                                     !.lines = lines]
      BY <2>6 DEF Answer
    <3>3. 0 \in 0..MaxClock
      BY ClockAssumption
    <3> HIDE DEF now, lines, grant
    <3> QED
      BY <3>1, <3>2, <3>3
  <2>7. CASE Settle \/ Expire
    BY <2>2, <2>7 DEF Settle, Expire
  <2>8. CASE Finish
    BY <1>0, <2>8 DEF Finish, NoRequest
  <2>9. CASE Tick \/ Radio \/ Start \/ Scanner
    BY <2>1, <2>9
    DEF Tick, Radio, Receive, Vanish, Start, Scanner, OpenScan, LoseScan, Forget,
        TakeEvent, ReadRssi, ReadPayload, ReadFails, ObserveAdvertisement, bluez
  <2>10. CASE UNCHANGED vars
    BY <2>1, <2>10 DEF vars
  <2> QED
    BY <2>3, <2>4, <2>5, <2>6, <2>7, <2>8, <2>9, <2>10 DEF Next, Client
<1>2. since' \in [fleet : BOOLEAN, devices : SUBSET Device]
  <2>1. CASE Remember
    <3>1. F!Allowed(clock)' \subseteq Device
      BY DEF F!Allowed
    <3>2. since.devices \subseteq Device
      BY DEF RequestTypes
    <3> QED
      BY <2>1, <3>1, <3>2 DEF Remember
  <2>2. CASE UNCHANGED vars
    BY <2>2 DEF vars, RequestTypes
  <2> QED
    BY <2>1, <2>2 DEF Next
<1>3. received' \in [Device -> 0..CountTo]
  <2> USE CountAssumption DEF RequestTypes
  <2>1. CASE UNCHANGED received
    BY <2>1
  <2>2. ASSUME NEW d \in Device, NEW rssi \in Rssi, NEW payload \in F!Reading,
               Receive(d, rssi, payload)
        PROVE  received' \in [Device -> 0..CountTo]
    BY <2>2 DEF Receive
  <2>3. CASE Crash \/ Forget
    BY <2>3 DEF Crash, Forget, Forgotten
  <2> QED
    BY <2>1, <2>2, <2>3
    DEF Next, vars, Radio, Vanish, Tick, Start, Client, Ask, Connected, Progress, TakeRequest, Answer, Settle,
        Expire, Finish, Scanner, OpenScan, LoseScan, TakeEvent, ReadRssi, ReadPayload,
        ReadFails, ObserveAdvertisement, bluez
<1>4. missed' \in SUBSET Device
  BY DEF RequestTypes, Holding, Reading, Next, vars, Radio, Receive, Vanish, Tick, Start,
      Crash, Forgotten, Client, Ask, Connected, Progress, TakeRequest, Answer, Settle,
        Expire, Finish, Scanner, OpenScan, LoseScan, Forget, TakeEvent, ReadRssi, ReadPayload,
        ReadFails, ObserveAdvertisement
<1>5. live' \in SUBSET Rssi
  <2>1. CASE Remember
    <3>1. scan'.pc \in Reading => cache'[scan'.device].rssi \in Rssi \cup {NoRssi}
      BY HoldingStep DEF Holding
    <3> QED
      BY <2>1, <3>1 DEF Remember, RequestTypes
  <2>2. CASE UNCHANGED vars
    BY <2>2 DEF vars, RequestTypes
  <2> QED
    BY <2>1, <2>2 DEF Next
<1> QED
  BY <1>1, <1>2, <1>3, <1>4, <1>5 DEF RequestTypes

\* Every variable of the running daemon keeps its type.
THEOREM DaemonTypeCorrect == Spec => []TypeOK
<1> DEFINE Types == F!TypeOK /\ ScanTypes /\ RequestTypes
<1>1. Init => Types
  <2> SUFFICES ASSUME Init PROVE Types
    OBVIOUS
  <2>1. F!TypeOK
    BY ClockAssumption DEF Init, F!Init, F!TypeOK, F!NoEvidence, F!Evidence, F!Never
  <2>2. ScanTypes
    BY QueueAssumption, BareType, BareFields, EmptySeq
    DEF Init, ScanTypes, Scanning, Reading
  <2>3. RequestTypes
    BY ClockAssumption, CountAssumption DEF Init, RequestTypes, NoRequest
  <2> QED
    BY <2>1, <2>2, <2>3
<1>2. Types /\ Holding /\ [Next]_vars => Types'
  BY FleetTypeStep, ScanTypesStep, RequestTypesStep
<1>3. Types /\ Holding => TypeOK
  BY DEF ScanTypes, RequestTypes, Holding, TypeOK
<1> QED
  BY <1>1, <1>2, <1>3, HoldingInit, HoldingStep, PTL DEF Spec

-----------------------------------------------------------------------------
(***************************************************************************)
(* StatusNeverInvents. `status' judges the fleet by a clock it read before *)
(* it had the fleet. The invariant says that judging by that older clock   *)
(* allows no device that was not allowed at some moment since: a sighting  *)
(* counted later than the clock is read would have been allowed when it    *)
(* was counted, because what a count keeps is pruned to its own window.    *)
(***************************************************************************)
Timely ==
  /\ F!TypeOK
  /\ request.pc = "asked" => request.now \in Nat /\ request.now <= clock
  /\ \A d \in Device : IsFiniteSet(evidence[d].samples)

Foreseen ==
  /\ request.pc = "asked" => F!Allowed(request.now) \subseteq since.devices
  /\ StatusNeverInvents

\* What a device is allowed on.
LEMMA AllowIs ==
  ASSUME NEW e, NEW now, NEW p
  PROVE  F!DeviceCheck(e, now, p) = F!Allow <=>
           /\ e.last # F!Never
           /\ ~(F!Age(now, e.last) > p.freshness)
           /\ ~(F!Cardinality(F!Within(now, e.samples, p.window)) < p.min)
  BY DEF F!DeviceCheck, F!Allow

\* The instance counts as this module does.
LEMMA OneCardinality ==
  ASSUME NEW S
  PROVE  F!Cardinality(S) = Cardinality(S)
  BY DEF Cardinality, F!Cardinality, IsFiniteSet, F!IsFiniteSet

\* What is counted allows no less at the moment it is counted than earlier.
LEMMA QualifyForeseen ==
  ASSUME NEW e, IsFiniteSet(e.samples), NEW now \in Nat, NEW then \in Nat, then <= now,
         NEW rssi, NEW p \in F!Policy,
         F!DeviceCheck(F!Qualify(e, now, rssi, p), then, p) = F!Allow
  PROVE  \/ F!DeviceCheck(F!Qualify(e, now, rssi, p), now, p) = F!Allow
         \/ F!DeviceCheck(e, then, p) = F!Allow
<1> DEFINE q == F!Qualify(e, now, rssi, p)
           kept == F!Within(now, e.samples, p.window)
           W(s) == F!Within(then, s, p.window)
<1>1. p.window \in Nat /\ p.freshness \in Nat /\ p.min \in Nat
  BY DEF F!Policy
<1>2. kept \subseteq e.samples /\ IsFiniteSet(kept)
  BY FS_Subset DEF F!Within
<1>3. /\ q.last # F!Never
      /\ ~(F!Age(then, q.last) > p.freshness)
      /\ ~(Cardinality(W(q.samples)) < p.min)
  BY AllowIs, OneCardinality
<1>4. CASE F!Countable(e, now, rssi, p)
  <2>1. q.samples = kept \cup {now} /\ q.last = now
    BY <1>4 DEF F!Qualify
  <2>2. F!Age(now, now) = 0
    BY DEF F!Age
  <2>3. F!Within(now, q.samples, p.window) = q.samples
    BY <1>1, <2>1, <2>2 DEF F!Within
  <2>4. IsFiniteSet(q.samples) /\ W(q.samples) \subseteq q.samples
    BY <1>2, <2>1, FS_AddElement DEF F!Within
  <2>5. /\ Cardinality(W(q.samples)) <= Cardinality(q.samples)
        /\ Cardinality(W(q.samples)) \in Nat /\ Cardinality(q.samples) \in Nat
    BY <2>4, FS_Subset, FS_CardinalityType
  <2>6. ~(Cardinality(q.samples) < p.min)
    BY <1>1, <1>3, <2>5
  <2>7. now # F!Never
    BY DEF F!Never
  <2> QED
    BY <1>1, <2>1, <2>2, <2>3, <2>6, <2>7, AllowIs, OneCardinality
<1>5. CASE ~F!Countable(e, now, rssi, p)
  <2>1. q.samples = kept /\ q.last = e.last
    BY <1>5 DEF F!Qualify
  <2>2. W(kept) \subseteq W(e.samples) /\ W(e.samples) \subseteq e.samples
    BY <1>2 DEF F!Within
  <2>3. IsFiniteSet(W(e.samples))
    BY <2>2, FS_Subset
  <2>4. /\ Cardinality(W(kept)) <= Cardinality(W(e.samples))
        /\ Cardinality(W(kept)) \in Nat /\ Cardinality(W(e.samples)) \in Nat
    BY <2>2, <2>3, FS_Subset, FS_CardinalityType
  <2>5. ~(Cardinality(W(e.samples)) < p.min)
    BY <1>1, <1>3, <2>1, <2>4
  <2> QED
    BY <1>3, <2>1, <2>5, AllowIs, OneCardinality
<1> QED
  BY <1>4, <1>5

\* A record holds finitely many sightings.
LEMMA QualifiedFinite ==
  ASSUME NEW e, IsFiniteSet(e.samples), NEW now, NEW rssi, NEW p
  PROVE  IsFiniteSet(F!Qualify(e, now, rssi, p).samples)
<1>1. F!Within(now, e.samples, p.window) \subseteq e.samples
  BY DEF F!Within
<1>2. IsFiniteSet(F!Within(now, e.samples, p.window))
  BY <1>1, FS_Subset
<1>3. IsFiniteSet(F!Within(now, e.samples, p.window) \cup {now})
  BY <1>2, FS_AddElement
<1> QED
  BY <1>2, <1>3 DEF F!Qualify

\* One observation, on the device it is of and on the others.
LEMMA ObservedTimely ==
  ASSUME Timely, Holding, ObserveAdvertisement, NEW d \in Device,
         NEW then \in Nat, then <= clock
  PROVE  /\ IsFiniteSet(evidence'[d].samples)
         /\ F!Decision(d, then)' = F!Allow =>
              \/ F!Decision(d, clock)' = F!Allow
              \/ F!Decision(d, then) = F!Allow
<1> DEFINE e == evidence[d]
           p == PolicyOf[d]
<1>1. /\ IsFiniteSet(e.samples) /\ e \in F!Evidence /\ clock \in Nat /\ clock' = clock
      /\ p \in F!Policy
  BY ClockAssumption, PolicyAssumption
  DEF Timely, F!TypeOK, ObserveAdvertisement, F!Advertise
<1>2. CASE evidence'[d] = e
  BY <1>1, <1>2 DEF F!Decision
<1>3. CASE evidence'[d] # e
  <2>1. /\ d = scan.device
        /\ scan.payload \in F!Reading
        /\ evidence'[d] = F!Observe(e, clock, scan.rssi, scan.payload, p)
    BY <1>3 DEF ObserveAdvertisement, F!Advertise, Advertisement, Holding, F!Observation, F!Reading
  <2>2. CASE scan.payload = "Revoke"
    <3>1. evidence'[d] = F!Revoke(e, clock)
      BY <2>1, <2>2 DEF F!Observe
    <3>2. evidence'[d].samples = {} /\ evidence'[d].last = F!Never
      BY <3>1 DEF F!Revoke
    <3>3. F!Decision(d, then)' # F!Allow
      BY <3>2, AllowIs DEF F!Decision
    <3> QED
      BY <3>2, <3>3, FS_EmptySet
  <2>3. CASE scan.payload = "Ignore"
    <3>1. evidence'[d] = F!Ignore(e)
      BY <2>1, <2>3 DEF F!Observe
    <3>2. evidence'[d].samples = e.samples /\ evidence'[d].last = e.last
      BY <1>1, <3>1 DEF F!Ignore, F!Evidence
    <3>3. F!DeviceCheck(evidence'[d], then, p) = F!Allow
            => F!DeviceCheck(e, then, p) = F!Allow
      BY <3>2, AllowIs
    <3> QED
      BY <1>1, <3>2, <3>3 DEF F!Decision
  <2>5. scan.payload # "reject"
    BY <1>3, <2>1 DEF ObserveAdvertisement, F!Advertise, Advertisement
  <2>4. CASE scan.payload = "Qualify"
    <3>1. evidence'[d] = F!Qualify(e, clock, scan.rssi, p)
      BY <2>1, <2>4 DEF F!Observe
    <3>2. F!DeviceCheck(evidence'[d], then, p) = F!Allow =>
            \/ F!DeviceCheck(evidence'[d], clock, p) = F!Allow
            \/ F!DeviceCheck(e, then, p) = F!Allow
      BY <1>1, <3>1, QualifyForeseen
    <3> QED
      BY <1>1, <3>1, <3>2, QualifiedFinite DEF F!Decision
  <2> QED
    BY <1>3, <2>1, <2>2, <2>3, <2>4, <2>5 DEF F!Reading, F!Observation
<1> QED
  BY <1>2, <1>3

\* An exchange that ends, or begins, shows nothing.
LEMMA OverOrSent ==
  ASSUME Settle \/ Expire \/ Finish \/ \E kind \in {"check", "status"} : Ask(kind)
  PROVE  request'.pc \notin {"asked", "answered"}
<1>1. CASE Settle \/ Expire
  <2>1. \E result : request' = Ended(result)
    BY <1>1 DEF Settle, Expire
  <2> QED
    BY <2>1 DEF Ended, NoRequest
<1>2. CASE Finish
  BY <1>2 DEF Finish, NoRequest
<1>3. CASE \E kind \in {"check", "status"} : Ask(kind)
  BY <1>3 DEF Ask, NoRequest
<1> QED
  BY <1>1, <1>2, <1>3

\* The clock of a request is never ahead of the daemon's.
LEMMA TimelyStep ==
  ASSUME Timely, RequestTypes, Holding, [Next]_vars PROVE Timely'
<1>1. F!TypeOK'
  BY FleetTypeStep DEF Timely
<1>2. clock \in Nat /\ clock' \in Nat /\ clock <= clock'
  <2>1. clock' = clock \/ clock' = clock + 1
    BY DEF Next, vars, fleetVars, Tick, F!Tick, Radio, Receive, Vanish, Start, Crash, Scanner,
           OpenScan, LoseScan, Forget, Forgotten, F!Invalidate, TakeEvent, ReadRssi,
           ReadPayload, ReadFails, ObserveAdvertisement, F!Advertise, Client, Ask, Connected, Progress,
           TakeRequest, Answer, Settle, Expire, Finish
  <2> QED
    BY <2>1, ClockAssumption DEF Timely, F!TypeOK
<1>3. request'.pc = "asked" => request'.now \in Nat /\ request'.now <= clock'
  <2>1. CASE UNCHANGED request
    BY <1>2, <2>1 DEF Timely
  <2>2. CASE TakeRequest
    BY <1>2, <2>2 DEF TakeRequest, fleetVars
  <2>3. CASE Crash
    BY <2>1, <2>3 DEF Crash, Ended, NoRequest
  <2>4. CASE Settle \/ Expire \/ Finish \/ \E kind \in {"check", "status"} : Ask(kind)
    BY <2>4, OverOrSent
  <2>5. CASE Answer \/ Connected
    BY <2>5 DEF Answer, Connected, RequestTypes
  <2>6. CASE Progress
    <3>1. request'.pc = request.pc /\ request'.now = request.now
      BY <2>6 DEF Progress, RequestTypes
    <3> QED
      BY <1>2, <3>1 DEF Timely
  <2> QED
    BY <2>1, <2>2, <2>3, <2>4, <2>5, <2>6
    DEF Next, vars, Tick, Radio, Receive, Vanish, Start, Scanner, OpenScan, LoseScan, Forget,
        TakeEvent, ReadRssi, ReadPayload, ReadFails, ObserveAdvertisement, Client, bluez
<1>4. ASSUME NEW d \in Device PROVE IsFiniteSet(evidence'[d].samples)
  <2>1. CASE evidence' = evidence
    BY <2>1 DEF Timely
  <2>2. CASE Crash \/ Forget
    <3>1. evidence'[d] = F!NoEvidence
      BY <2>2 DEF Crash, Forget, Forgotten, F!Invalidate
    <3> QED
      BY <3>1, FS_EmptySet DEF F!NoEvidence
  <2>3. CASE ObserveAdvertisement
    BY <1>2, <2>3, ObservedTimely
  <2> QED
    BY <2>1, <2>2, <2>3
    DEF Next, vars, fleetVars, Tick, F!Tick, Radio, Receive, Vanish, Start, Scanner, OpenScan,
        LoseScan, TakeEvent, ReadRssi, ReadPayload, ReadFails, Client, Ask, Connected, Progress,
        TakeRequest, Answer, Settle, Expire, Finish
<1> QED
  BY <1>1, <1>3, <1>4 DEF Timely

\* No step between the clock read and the answer breaks it.
LEMMA ForeseenStep ==
  ASSUME Foreseen, Timely, RequestTypes, Holding, [Next]_vars PROVE Foreseen'
<1>0. Remember /\ request'.pc # "none" =>
        /\ request.pc # "none" => since.devices \subseteq since'.devices
        /\ F!Allowed(clock)' \subseteq since'.devices
  BY DEF Remember
<1>1. CASE Remember /\ UNCHANGED <<clock, evidence>> /\ UNCHANGED request
  <2>1. F!Allowed(request.now)' = F!Allowed(request.now)
    BY <1>1 DEF F!Allowed, F!Decision
  <2> QED
    BY <1>0, <1>1, <2>1 DEF Foreseen, StatusNeverInvents
<1>2. CASE Remember /\ Tick
  <2>1. evidence' = evidence /\ request' = request
    BY <1>2 DEF Tick, F!Tick
  <2>2. F!Allowed(request.now)' = F!Allowed(request.now)
    BY <2>1 DEF F!Allowed, F!Decision
  <2> QED
    BY <1>0, <1>2, <2>1, <2>2 DEF Foreseen, StatusNeverInvents
<1>3. CASE Remember /\ Crash
  <2>1. CASE request.pc \in InFlight \ {"answered"}
    BY <1>3, <2>1 DEF Crash, Ended, NoRequest, Foreseen, StatusNeverInvents
  <2>2. CASE request.pc \notin InFlight \ {"answered"}
    BY <1>0, <1>3, <2>2 DEF InFlight, Crash, Foreseen, StatusNeverInvents
  <2> QED
    BY <2>1, <2>2
<1>4. CASE Remember /\ Forget
  <2>1. request' = request /\ \A d \in Device : evidence'[d].last = F!Never
    BY <1>4 DEF Forget, Forgotten, F!Invalidate, F!NoEvidence
  <2>2. F!Allowed(request.now)' = {}
    BY <2>1, AllowIs DEF F!Allowed, F!Decision
  <2> QED
    BY <1>0, <1>4, <2>1, <2>2 DEF Foreseen, StatusNeverInvents
<1>5. CASE Remember /\ ObserveAdvertisement
  <2>1. request' = request /\ clock' = clock
    BY <1>5 DEF ObserveAdvertisement, F!Advertise
  <2>2. ASSUME request.pc = "asked"
        PROVE  F!Allowed(request.now)' \subseteq since'.devices
    <3>1. request.now \in Nat /\ request.now <= clock
      BY <2>2 DEF Timely
    <3>2. ASSUME NEW d \in Device, F!Decision(d, request.now)' = F!Allow
          PROVE  d \in since'.devices
      <4>1. F!Decision(d, clock)' = F!Allow \/ F!Decision(d, request.now) = F!Allow
        BY <1>5, <2>1, <3>1, <3>2, ObservedTimely DEF F!Decision
      <4>2. F!Decision(d, clock)' = F!Allow => d \in F!Allowed(clock)'
        BY DEF F!Allowed
      <4>3. F!Decision(d, request.now) = F!Allow => d \in since.devices
        BY <2>2 DEF F!Allowed, Foreseen
      <4> QED
        BY <1>0, <1>5, <2>1, <2>2, <4>1, <4>2, <4>3
    <3> QED
      BY <3>2 DEF F!Allowed
  <2> QED
    BY <1>0, <1>5, <2>1, <2>2 DEF Foreseen, StatusNeverInvents
<1>6. CASE Remember /\ TakeRequest
  <2>1. /\ request'.pc = "asked" /\ request'.now = clock /\ UNCHANGED <<clock, evidence>>
    BY <1>6 DEF TakeRequest, RequestTypes, fleetVars
  <2>2. F!Allowed(request.now)' = F!Allowed(clock)'
    BY <2>1 DEF F!Allowed, F!Decision
  <2> QED
    BY <1>0, <1>6, <2>1, <2>2 DEF Foreseen, StatusNeverInvents
<1>7. CASE Remember /\ Answer
  <2>1. /\ request.pc = "asked" /\ request'.pc = "answered"
        /\ request'.lines = {} \/ request'.lines = F!Allowed(request.now)
    BY <1>7 DEF Answer, RequestTypes
  <2> QED
    BY <1>0, <1>7, <2>1 DEF Foreseen, StatusNeverInvents
<1>11. CASE Remember /\ Connected
  BY <1>11 DEF Connected, RequestTypes, Foreseen, StatusNeverInvents
<1>12. CASE Remember /\ Progress
  <2>1. /\ request'.pc = request.pc /\ request'.now = request.now
        /\ request'.lines = request.lines /\ UNCHANGED <<clock, evidence>>
    BY <1>12 DEF Progress, RequestTypes, fleetVars
  <2>2. F!Allowed(request.now)' = F!Allowed(request.now)
    BY <2>1 DEF F!Allowed, F!Decision
  <2> QED
    BY <1>0, <1>12, <2>1, <2>2 DEF Foreseen, StatusNeverInvents
<1>8. CASE Remember /\ (Settle \/ Expire \/ Finish
             \/ \E kind \in {"check", "status"} : Ask(kind))
  <2>1. request'.pc \notin {"asked", "answered"}
    BY <1>8, OverOrSent
  <2> QED
    BY <2>1 DEF Foreseen, StatusNeverInvents
<1>9. CASE UNCHANGED vars
  <2>1. UNCHANGED <<clock, evidence, request, since>>
    BY <1>9 DEF vars, fleetVars
  <2>2. F!Allowed(request.now)' = F!Allowed(request.now)
    BY <2>1 DEF F!Allowed, F!Decision
  <2> QED
    BY <2>1, <2>2 DEF Foreseen, StatusNeverInvents
<1>10. CASE Remember /\ (Radio \/ Start \/ OpenScan \/ LoseScan \/ TakeEvent \/ ReadRssi
               \/ ReadPayload \/ ReadFails)
  BY <1>1, <1>10
  DEF Radio, Receive, Vanish, Start, OpenScan, LoseScan, TakeEvent, ReadRssi, ReadPayload,
      ReadFails, bluez, fleetVars
<1> QED
  BY <1>2, <1>3, <1>4, <1>5, <1>6, <1>7, <1>8, <1>9, <1>10, <1>11, <1>12
  DEF Next, Scanner, Client

(***************************************************************************)
(* A device that `status' shows as allowed was allowed at a moment of that *)
(* very request, though the clock is older than the evidence it judges     *)
(* (control.rs:172-173).                                                   *)
(***************************************************************************)
THEOREM StatusIsTrue == Spec => []StatusNeverInvents
<1>1. Init => Timely /\ Foreseen
  <2> SUFFICES ASSUME Init PROVE Timely /\ Foreseen
    OBVIOUS
  <2>1. F!TypeOK /\ \A d \in Device : evidence[d].samples = {}
    BY ClockAssumption DEF Init, F!Init, F!TypeOK, F!NoEvidence, F!Evidence, F!Never
  <2> QED
    BY <2>1, FS_EmptySet DEF Init, NoRequest, Timely, Foreseen, StatusNeverInvents
<1>2. TypeOK => RequestTypes
  BY DEF TypeOK, RequestTypes
<1>3. Timely /\ Foreseen /\ RequestTypes /\ Holding /\ [Next]_vars => Timely' /\ Foreseen'
  BY TimelyStep, ForeseenStep
<1>4. Foreseen => StatusNeverInvents
  BY DEF Foreseen
<1> QED
  BY <1>1, <1>2, <1>3, <1>4, DaemonTypeCorrect, HoldingInit, HoldingStep, PTL DEF Spec
=============================================================================
