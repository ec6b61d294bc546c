------------------------------- MODULE Daemon -------------------------------
(***************************************************************************)
(* The running daemon: the scanner task that turns BlueZ events into       *)
(* advertisements (crates/daemon/src/scan.rs), the loop around it that     *)
(* forgets everything when the scan is lost (main.rs:40-63), and the       *)
(* control-socket tasks that answer a client (control.rs:137-190) while    *)
(* the scanner waits on D-Bus.  They share one Fleet behind a mutex; every *)
(* critical section is a single call, so each is one step here, and what   *)
(* interleaves is everything between them: the property reads on the       *)
(* scanner's side, the clock and the lock on the client's.                 *)
(*                                                                         *)
(* The radio and BlueZ are the environment.  BlueZ caches the properties   *)
(* of a device as they were last received; an event says only that         *)
(* something about a device changed, and the properties are read later.    *)
(***************************************************************************)
EXTENDS Integers, FiniteSets, SequencesExt

CONSTANTS
  Device, PolicyOf, Rule, Rssi, Spacing, MaxClock,    \* see Fleet
  Timeout,      \* what PAM waits for an exchange, and `status' for a read of it
  MaxQueue,     \* bound: events BlueZ may have outstanding
  CountTo       \* bound: how far the history `received' counts

\* A configuration without devices is refused (config.rs:169-171).
ASSUME DeviceAssumption == IsFiniteSet(Device) /\ Device # {}
ASSUME ClockAssumption == MaxClock \in Nat
ASSUME TimeoutAssumption == Timeout \in Nat
ASSUME QueueAssumption == MaxQueue \in Nat
ASSUME CountAssumption == CountTo \in Nat

VARIABLES
  clock, evidence, sightings,   \* the fleet, see Fleet
  cache,        \* BlueZ: [Device -> [rssi, payload]] as last received
  queue,        \* BlueZ: events delivered to the stream, not yet taken
  scan,         \* the scanner task: where it is, the device and what it read
  request,      \* the client exchange in flight
  since,        \* history: what was allowed at some moment of the exchange
  received,     \* history: advertisements received since the fleet was empty
  missed,       \* history: devices an event of which was dropped unread
  live          \* history: RSSIs of the device at hand since its event was taken

fleetVars == <<clock, evidence, sightings>>
bluez == <<cache, queue, received>>
vars == <<fleetVars, bluez, scan, request, since, missed, live>>

F == INSTANCE Fleet

ASSUME PolicyAssumption ==
  PolicyOf \in [Device -> {p \in F!Policy : F!ValidPolicy(p)}]

NoRssi == -128          \* BlueZ has no RSSI for the device

(***************************************************************************)
(* Scanner positions.  "down": no process.  "ready": about to call scan(). *)
(* "lost": scan() has returned, the fleet is not yet cleared.  "idle":     *)
(* waiting for an event.  "rssi", "payload", "observe": about to read that *)
(* property, or to hand the result to the fleet.                           *)
(***************************************************************************)
Reading == {"rssi", "payload", "observe"}
Scanning == {"idle"} \cup Reading

At(pc) == [scan EXCEPT !.pc = pc]

\* Between two events a scan holds nothing.
Bare(pc) == [pc |-> pc, device |-> CHOOSE d \in Device : TRUE,
             rssi |-> NoRssi, payload |-> "Ignore"]

\* One exchange: a PAM check, or the status a user asks for.  "calling": the
\* client waits for the daemon's socket to take the connection.
InFlight == {"calling", "sent", "asked", "answered"}

NoRequest == [pc |-> "none", kind |-> "check", start |-> 0, now |-> 0,
              grant |-> FALSE, lines |-> {}, result |-> "none"]

Ended(result) == [NoRequest EXCEPT !.pc = "done", !.kind = request.kind,
                                   !.result = result]

TypeOK ==
  /\ F!TypeOK
  /\ cache \in [Device -> [rssi : Rssi \cup {NoRssi}, payload : F!Reading]]
  /\ queue \in Seq(Device) /\ Len(queue) <= MaxQueue
  /\ scan \in [pc : {"down", "ready", "lost"} \cup Scanning, device : Device,
               rssi : Rssi \cup {NoRssi}, payload : F!Reading]
  /\ scan.pc \in {"payload", "observe"} => scan.rssi # NoRssi
  /\ scan.pc \notin Scanning => queue = <<>>
  /\ request \in [pc : {"none", "done"} \cup InFlight,
                  kind : {"check", "status"}, start : 0..MaxClock,
                  now : 0..MaxClock, grant : BOOLEAN, lines : SUBSET Device,
                  result : {"none", "success", "denied", "unavailable"}]
  /\ since \in [fleet : BOOLEAN, devices : SUBSET Device]
  /\ received \in [Device -> 0..CountTo]
  /\ missed \in SUBSET Device
  /\ live \in SUBSET Rssi

Init ==
  /\ F!Init
  /\ cache = [d \in Device |-> [rssi |-> NoRssi, payload |-> "Ignore"]]
  /\ queue = <<>>
  /\ scan = Bare("down")
  /\ request = NoRequest
  /\ since = [fleet |-> FALSE, devices |-> {}]
  /\ received = [d \in Device |-> 0]
  /\ missed = {}
  /\ live = {}

-----------------------------------------------------------------------------
(***************************************************************************)
(* The environment: time, the radio and BlueZ.                             *)
(***************************************************************************)
Tick == F!Tick /\ UNCHANGED <<bluez, scan, request, missed>>

(***************************************************************************)
(* A device is received.  Its RSSI and its payload each raise a property   *)
(* change, so one advertisement is delivered twice (presence.rs:123-127).  *)
(***************************************************************************)
Receive(d, rssi, payload) ==
  /\ cache' = [cache EXCEPT ![d] = [rssi |-> rssi, payload |-> payload]]
  /\ received' = [received EXCEPT ![d] = IF @ < CountTo THEN @ + 1 ELSE @]
  /\ IF scan.pc \in Scanning
       THEN /\ Len(queue) + 2 <= MaxQueue
            /\ queue' = queue \o <<d, d>>
       ELSE UNCHANGED queue
  /\ UNCHANGED <<fleetVars, scan, request, missed>>

\* BlueZ gives a device up: its RSSI is withdrawn.
Vanish(d) ==
  /\ cache[d].rssi # NoRssi
  /\ cache' = [cache EXCEPT ![d].rssi = NoRssi]
  /\ UNCHANGED <<fleetVars, queue, received, scan, request, missed>>

-----------------------------------------------------------------------------
(***************************************************************************)
(* The process.  systemd starts it, and restarts it after a failure; its   *)
(* memory is empty then.  A client of a dead daemon reads end-of-file,     *)
(* unless the reply is already in the socket.                              *)
(***************************************************************************)
Forgotten ==
  /\ F!Invalidate
  /\ received' = [d \in Device |-> 0]
  /\ missed' = {}

Start ==
  /\ scan.pc = "down"
  /\ scan' = Bare("ready")
  /\ UNCHANGED <<fleetVars, bluez, request, missed>>

Crash ==
  /\ scan.pc # "down"
  /\ Forgotten
  /\ scan' = Bare("down")
  /\ queue' = <<>>
  /\ request' = IF request.pc \in InFlight \ {"answered"}
                  THEN Ended("unavailable") ELSE request
  /\ UNCHANGED cache

-----------------------------------------------------------------------------
(***************************************************************************)
(* The scanner task: scan() and the loop that calls it.                    *)
(***************************************************************************)

\* The stream replays every device BlueZ knows before it reports changes.
OpenScan ==
  /\ scan.pc = "ready"
  /\ \E replay \in SetToSeqs(Device) :
       /\ Len(replay) <= MaxQueue
       /\ queue' = replay
  /\ scan' = Bare("idle")
  /\ UNCHANGED <<fleetVars, cache, received, request, missed>>

\* No session, no adapter, not powered; or the stream ends.
LoseScan ==
  /\ scan.pc \in {"ready", "idle"}
  /\ scan' = Bare("lost")
  /\ queue' = <<>>
  /\ UNCHANGED <<fleetVars, cache, received, request, missed>>

\* Mutant: only an error clears the fleet, not the end of the stream.
ForgetNothing ==
  /\ scan.pc = "lost"
  /\ scan' = Bare("ready")
  /\ UNCHANGED <<fleetVars, bluez, request, missed>>

\* A scan that died saw nothing; everything it accumulated is unverifiable.
Forget ==
  /\ scan.pc = "lost"
  /\ Forgotten
  /\ scan' = Bare("ready")
  /\ UNCHANGED <<cache, queue, request>>

TakeEvent ==
  /\ scan.pc = "idle" /\ queue # <<>>
  /\ scan' = [At("rssi") EXCEPT !.device = Head(queue)]
  /\ queue' = Tail(queue)
  /\ UNCHANGED <<fleetVars, cache, received, request, missed>>

\* Mutant: an absent RSSI taken for a weak one.
ReadRssiAbsent ==
  /\ scan.pc = "rssi"
  /\ scan' = [At("payload") EXCEPT !.rssi = cache[scan.device].rssi]
  /\ UNCHANGED <<fleetVars, bluez, request, missed>>

\* No RSSI means that there is no live advertisement to count.
ReadRssi ==
  /\ scan.pc = "rssi"
  /\ scan' = IF cache[scan.device].rssi = NoRssi THEN Bare("idle")
             ELSE [At("payload") EXCEPT !.rssi = cache[scan.device].rssi]
  /\ UNCHANGED <<fleetVars, bluez, request, missed>>

(***************************************************************************)
(* The code awaits one read per property some policy needs.  The model is  *)
(* of devices known by their address or key, whose one needed property,    *)
(* the manufacturer data, holds the reading: one read.  What the identity  *)
(* does not match reads as "reject".                                       *)
(***************************************************************************)
ReadPayload ==
  /\ scan.pc = "payload"
  /\ scan' = [At("observe") EXCEPT !.payload = cache[scan.device].payload]
  /\ UNCHANGED <<fleetVars, bluez, request, missed>>

\* A property read fails: the advertisement is skipped.
ReadFails ==
  /\ scan.pc \in {"rssi", "payload"}
  /\ scan' = Bare("idle")
  /\ missed' = missed \cup {scan.device}
  /\ UNCHANGED <<fleetVars, bluez, request>>

Advertisement ==
  [d \in Device |-> IF d = scan.device THEN scan.payload ELSE "reject"]

\* Mutants: the moment the event was taken; a payload that says nothing new.
ObserveBackdated ==
  /\ scan.pc = "observe"
  /\ evidence' = [evidence EXCEPT ![scan.device] =
       F!Observe(@, IF clock > 0 THEN clock - 1 ELSE 0, scan.rssi, scan.payload,
                 PolicyOf[scan.device])]
  /\ sightings' = [sightings EXCEPT ![scan.device] = @ \cup {clock}]
  /\ scan' = Bare("idle")
  /\ missed' = missed \ {scan.device}
  /\ UNCHANGED <<clock, bluez, request>>
ObserveOnlyQualifying ==
  /\ scan.pc = "observe"
  /\ IF scan.payload = "Qualify" THEN F!Advertise(Advertisement, scan.rssi)
     ELSE UNCHANGED fleetVars
  /\ scan' = Bare("idle")
  /\ missed' = missed \ {scan.device}
  /\ UNCHANGED <<bluez, request>>

\* The clock is read with the fleet already locked.
ObserveAdvertisement ==
  /\ scan.pc = "observe"
  /\ F!Advertise(Advertisement, scan.rssi)
  /\ scan' = Bare("idle")
  /\ missed' = missed \ {scan.device}
  /\ UNCHANGED <<bluez, request>>

-----------------------------------------------------------------------------
(***************************************************************************)
(* One exchange with a client; the daemon reads the request, locks the     *)
(* fleet and answers.  PAM bounds all of it, the connection included, by   *)
(* one deadline.  The command line connects without a bound, and bounds    *)
(* each write and each read of its own by a wait that starts afresh.       *)
(***************************************************************************)
Ask(kind) ==
  /\ request.pc = "none" /\ scan.pc # "down"
  /\ clock + Timeout <= MaxClock
  /\ request' = [NoRequest EXCEPT !.pc = "calling", !.kind = kind, !.start = clock]
  /\ UNCHANGED <<fleetVars, bluez, scan, missed>>

\* `start' is PAM's start of the exchange, and the start of `status's last wait.
Connected ==
  /\ request.pc = "calling"
  /\ request' = [request EXCEPT
       !.pc = "sent", !.start = IF request.kind = "status" THEN clock ELSE @]
  /\ UNCHANGED <<fleetVars, bluez, scan, missed>>

\* `status' wrote its request, or read a part of the reply: a new wait begins.
Progress ==
  /\ request.kind = "status" /\ request.pc \in InFlight \ {"calling"}
  /\ request.start # clock
  /\ request' = [request EXCEPT !.start = clock]
  /\ UNCHANGED <<fleetVars, bluez, scan, missed>>

\* `status' reads its clock here, before it waits for the fleet.
TakeRequest ==
  /\ request.pc = "sent"
  /\ request' = [request EXCEPT !.pc = "asked", !.now = clock]
  /\ UNCHANGED <<fleetVars, bluez, scan, missed>>

\* Mutants: a check that grants on anything heard; a status that lists it.
AnswerOnContact ==
  /\ request.pc = "asked"
  /\ request' = [request EXCEPT
       !.pc = "answered",
       !.grant = \A d \in Device : evidence[d].last # F!Never]
  /\ UNCHANGED <<fleetVars, bluez, scan, missed>>
AnswerHeard ==
  /\ request.pc = "asked"
  /\ request' = [request EXCEPT
       !.pc = "answered",
       !.lines = {d \in Device : evidence[d].last # F!Never}]
  /\ UNCHANGED <<fleetVars, bluez, scan, missed>>

\* `check' reads the clock with the fleet locked; `status' uses its own.
Answer ==
  LET now == IF request.kind = "check" THEN clock ELSE request.now
  IN  /\ request.pc = "asked"
      /\ request' = [request EXCEPT
           !.pc = "answered", !.now = 0,
           !.grant = F!FleetCheck(now) = F!Allow,
           !.lines = IF request.kind = "status" THEN F!Allowed(now) ELSE {}]
      /\ UNCHANGED <<fleetVars, bluez, scan, missed>>

\* The reply is read before the deadline, or within the last wait of `status'.
Settle ==
  /\ request.pc = "answered" /\ clock - request.start <= Timeout
  /\ request' = Ended(IF request.grant THEN "success" ELSE "denied")
  /\ UNCHANGED <<fleetVars, bluez, scan, missed>>

\* Mutant: a client that waits for the daemon however long it takes.
ExpireNever == FALSE /\ UNCHANGED vars

\* The deadline, or one wait of `status', passes first.
Expire ==
  /\ request.pc \in InFlight
  /\ request.kind = "status" => request.pc # "calling"
  /\ clock - request.start >= Timeout
  /\ request' = Ended("unavailable")
  /\ UNCHANGED <<fleetVars, bluez, scan, missed>>

Finish ==
  /\ request.pc = "done"
  /\ request' = NoRequest
  /\ UNCHANGED <<fleetVars, bluez, scan, missed>>

-----------------------------------------------------------------------------
Scanner ==
  \/ OpenScan \/ LoseScan \/ Forget \/ TakeEvent \/ ReadRssi \/ ReadPayload
  \/ ReadFails \/ ObserveAdvertisement

Client ==
  \/ \E kind \in {"check", "status"} : Ask(kind)
  \/ Connected \/ Progress \/ TakeRequest \/ Answer \/ Settle \/ Expire \/ Finish

Radio ==
  \E d \in Device :
    \/ \E rssi \in Rssi, payload \in F!Reading : Receive(d, rssi, payload)
    \/ Vanish(d)

\* What the fleet allowed at some moment since the client asked, and the RSSIs
\* BlueZ has had of the device whose event the scanner is about.
Remember ==
  LET begun == request'.pc # "none"
      kept == IF request.pc = "none" THEN [fleet |-> FALSE, devices |-> {}]
              ELSE since
  IN  /\ since' =
           [fleet   |-> begun /\ (kept.fleet \/ F!FleetCheck(clock)' = F!Allow),
            devices |-> IF begun THEN kept.devices \cup F!Allowed(clock)' ELSE {}]
      /\ live' = IF scan'.pc \notin Reading THEN {}
                 ELSE (IF scan.pc \in Reading THEN live ELSE {})
                        \cup ({cache'[scan'.device].rssi} \ {NoRssi})

Next ==
  /\ \/ Tick \/ Radio \/ Start \/ Crash \/ Scanner \/ Client
  /\ Remember

(***************************************************************************)
(* Fairness.  Time passes; a wait that is over ends, by the client's own   *)
(* kernel; and the scanner's loop clears the fleet after a lost scan       *)
(* whatever BlueZ does.  Nothing is assumed of BlueZ, of the radio, or of  *)
(* the daemon's answering.                                                 *)
(***************************************************************************)
Fairness ==
  /\ WF_clock(Tick)
  /\ WF_request(Expire)
  /\ WF_scan(Forget)

Spec == Init /\ [][Next]_vars
FairSpec == Spec /\ Fairness

-----------------------------------------------------------------------------
(***************************************************************************)
(* Properties.                                                             *)
(***************************************************************************)

(***************************************************************************)
(* Whatever the scanner, the loop and the clients do between them, the     *)
(* fleet only ever steps as Fleet does, so what is shown of Fleet is shown *)
(* of the daemon: in particular an advertisement is judged at the moment   *)
(* it is folded in, not when its event was raised (scan.rs:89-93).         *)
(***************************************************************************)
ImplementsFleet == F!Spec

(***************************************************************************)
(* An exchange ends in success only if the fleet would have granted an     *)
(* unlock at some moment between the client's request and its result,      *)
(* however the reply was delayed and whatever happened to the daemon       *)
(* meanwhile (control.rs:155-161, crates/pam/src/lib.rs:146-201).          *)
(***************************************************************************)
GrantWasDue ==
  request.result = "success" /\ request.kind = "check" => since.fleet

(***************************************************************************)
(* `status' reads its clock before it waits for the fleet (control.rs:     *)
(* 172-173), so evidence may be newer than its clock.  Even so it never    *)
(* shows a device as allowed that was not, at some moment of the request.  *)
(***************************************************************************)
StatusNeverInvents ==
  request.pc = "answered" => request.lines \subseteq since.devices

(***************************************************************************)
(* A revocation on the air reaches the policy: once the scanner has caught *)
(* up, a device whose last advertisement revoked has no evidence left,     *)
(* unless the read of one of its events failed.  The payload and the RSSI  *)
(* are read in separate calls, after the event (scan.rs:56-94).            *)
(***************************************************************************)
RevocationReachesPolicy ==
  \A d \in Device :
    /\ scan.pc = "idle" /\ queue = <<>>
    /\ cache[d].rssi # NoRssi /\ cache[d].payload = "Revoke"
    /\ d \notin missed
    => evidence[d].samples = {}

(***************************************************************************)
(* Nothing heard before a scan was lost, or by a process that died, can    *)
(* count for a later one (main.rs:54-61).                                  *)
(***************************************************************************)
LostScanForgets ==
  scan.pc \in {"down", "ready"} => \A d \in Device : evidence[d] = F!NoEvidence

(***************************************************************************)
(* A check always ends: a daemon that stalls, before or after it accepts   *)
(* the connection, cannot wedge PAM (crates/pam/src/lib.rs:23-25).  Only   *)
(* PAM has this: `status' has no bound on the connection, and a bound on   *)
(* each read but none on their number (crates/cli/src/client.rs:10-43).    *)
(***************************************************************************)
ExchangeEnds ==
  request.pc \in InFlight /\ request.kind = "check"
    ~> request.pc \in {"done", "none"}

(***************************************************************************)
(* What the policy learns of a device, it learns with an RSSI that BlueZ   *)
(* had of it at some moment since the event was taken: nothing is folded   *)
(* in for a device that was withdrawn before it could be read, whatever    *)
(* BlueZ still has of its payload (scan.rs:64-94).                         *)
(***************************************************************************)
EvidenceIsLive ==
  [][\A d \in Device :
       evidence'[d] \notin {evidence[d], F!NoEvidence}
         => d = scan.device /\ scan.rssi \in live]_vars

(***************************************************************************)
(* What the comment on the duplicate filter says of it: it keeps a single  *)
(* advertisement from satisfying minimum_samples (presence.rs:123-127).    *)
(***************************************************************************)
OneAdvertisementIsOneSample ==
  \A d \in F!Allowed(clock) : received[d] >= PolicyOf[d].min
=============================================================================
