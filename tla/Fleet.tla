------------------------------- MODULE Fleet -------------------------------
(***************************************************************************)
(* The fleet of enrolled devices the daemon keeps behind its mutex         *)
(* (struct Fleet, crates/protocol/src/presence.rs): every advertisement is *)
(* folded into every device it matches, the loss of the scan empties all   *)
(* of them, and the decision is read off the state at a moment the boot    *)
(* clock gives.                                                            *)
(*                                                                         *)
(* The clock is monotone and read under the lock (crates/daemon/src/       *)
(* scan.rs:89-93, control.rs:158), so one variable stands for it.          *)
(*                                                                         *)
(* `sightings' is a history variable: the moments at which each device was *)
(* heard, matched, qualifying and strong enough, since it last revoked or  *)
(* the scan was last lost.  It never influences a step; the properties     *)
(* below judge the bounded state the code keeps by it.                     *)
(***************************************************************************)
EXTENDS Eligibility

CONSTANTS
  Device,       \* enrolled devices
  PolicyOf,     \* their resolved policies
  Rule,         \* multi_device_auth: [kind |-> ..., n |-> ...]
  Rssi,         \* signal strengths an advertisement may arrive with
  MaxClock      \* bound: how long the model runs

RuleKind == {"any", "all", "at-least"}

ASSUME DeviceAssumption == IsFiniteSet(Device)
ASSUME PolicyAssumption ==
  PolicyOf \in [Device -> {p \in Policy : p.min <= MaxSamples(p.window)}]
ASSUME RuleAssumption == Rule \in [kind : RuleKind, n : Nat]
ASSUME RssiAssumption == Rssi \subseteq Int
ASSUME ClockAssumption == MaxClock \in Nat

VARIABLES
  clock,        \* boottime_ms()
  evidence,     \* Fleet.devices[..].eligibility
  sightings     \* history, see above

vars == <<clock, evidence, sightings>>

(***************************************************************************)
(* Decisions.                                                              *)
(***************************************************************************)

\* Device::check at a moment.
Decision(d, now) == DeviceCheck(evidence[d], now, PolicyOf[d])

\* MultiDeviceAuth::required.
Required ==
  CASE Rule.kind = "any"      -> 1
    [] Rule.kind = "all"      -> Cardinality(Device)
    [] Rule.kind = "at-least" -> IF Rule.n > 1 THEN Rule.n ELSE 1

Allowed(now) == {d \in Device : Decision(d, now) = Allow}

\* Mutant: a locked device outranks a live sighting.
RankLockedFirst(decision) ==
  CASE decision = Allow -> 0
    [] decision = "device-locked" -> 1
    [] decision = "insufficient-samples" -> 2
    [] decision = "stale" -> 3
    [] OTHER -> 4

\* Decision::rank: how near a device is to authorising.
Rank(decision) ==
  CASE decision = Allow -> 0
    [] decision = "insufficient-samples" -> 1
    [] decision = "stale" -> 2
    [] decision = "device-locked" -> 3
    [] OTHER -> 4

\* With no device allowed, the fleet names its closest device's reason.
ClosestDeny(now) ==
  Decision(CHOOSE d \in Device :
             \A o \in Device : Rank(Decision(d, now)) <= Rank(Decision(o, now)),
           now)

\* Mutant: counts the devices that were heard, not those that authorise.
FleetCheckHeard(now) ==
  IF Cardinality({d \in Device : evidence[d].last # Never}) >= Required
    THEN Allow
    ELSE "no-device"

\* Fleet::check.
FleetCheck(now) ==
  IF Device = {} THEN "no-device"
  ELSE IF Cardinality(Allowed(now)) >= Required THEN Allow
  ELSE IF Allowed(now) # {} THEN "multi-device-auth"
  ELSE ClosestDeny(now)

(***************************************************************************)
(* Advertisements.  What identity matching and the profiles make of one is *)
(* a reading per device: "reject" where the identity does not match.       *)
(***************************************************************************)
Reading == Observation \cup {"reject"}

Strong(d, reading, rssi) ==
  reading[d] = "Qualify" /\ rssi >= PolicyOf[d].threshold

TypeOK ==
  /\ clock \in 0..MaxClock
  /\ evidence \in [Device -> Evidence]
  /\ sightings \in [Device -> SUBSET (0..MaxClock)]

Init ==
  /\ clock = 0
  /\ evidence = [d \in Device |-> NoEvidence]
  /\ sightings = [d \in Device |-> {}]

Tick ==
  /\ clock < MaxClock
  /\ clock' = clock + 1
  /\ UNCHANGED <<evidence, sightings>>

\* Fleet::observe: one advertisement, every matching device.
Advertise(reading, rssi) ==
  /\ evidence' = [d \in Device |->
       IF reading[d] = "reject" THEN evidence[d]
       ELSE Observe(evidence[d], clock, rssi, reading[d], PolicyOf[d])]
  /\ sightings' = [d \in Device |->
       IF reading[d] = "Revoke" THEN {}
       ELSE IF Strong(d, reading, rssi) THEN sightings[d] \cup {clock}
       ELSE sightings[d]]
  /\ UNCHANGED clock

\* Fleet::invalidate: the scan was lost, nothing heard before it counts.
Invalidate ==
  /\ evidence' = [d \in Device |-> NoEvidence]
  /\ sightings' = [d \in Device |-> {}]
  /\ UNCHANGED clock

Next ==
  \/ Tick
  \/ \E reading \in [Device -> Reading], rssi \in Rssi : Advertise(reading, rssi)
  \/ Invalidate

Spec == Init /\ [][Next]_vars

-----------------------------------------------------------------------------
(***************************************************************************)
(* Properties.                                                             *)
(***************************************************************************)

Authority == INSTANCE PresenceAuthority WITH
               granted <- FleetCheck(clock) = Allow

(***************************************************************************)
(* The record kept of a device is an honest digest of what was heard: it   *)
(* counts only real sightings, never two of one advertisement, its newest  *)
(* is the newest counted, and evidence and a remembered revocation exclude *)
(* each other (observe and invalidate, presence.rs:81-136).                *)
(***************************************************************************)
Digest(e, heard, now) ==
  /\ heard \subseteq 0..now
  /\ e.samples \subseteq heard
  /\ Authority!Spaced(e.samples)
  /\ e.revoked <= now
  /\ e.revoked # Never => e.heard
  /\ e.last = Never => heard = {}
  /\ e.last # Never =>
       /\ e.last \in heard
       /\ e.revoked = Never
       /\ e.heard
       /\ \A s \in e.samples : s <= e.last
       /\ e.samples # {} => e.last \in e.samples
       /\ \A s \in heard : s < e.last + Spacing

HonestEvidence == \A d \in Device : Digest(evidence[d], sightings[d], clock)

(***************************************************************************)
(* A device authorises only on enough separate, strong, recent sightings   *)
(* since it last revoked or the scan was lost, the newest of them fresh    *)
(* (check, presence.rs:146-168), whatever was pruned or collapsed.         *)
(***************************************************************************)
AllowIsJustified ==
  \A d \in Allowed(clock) :
    Authority!Justified(sightings[d], clock, PolicyOf[d])

(***************************************************************************)
(* The reason a denial reports is the obstacle that is really there        *)
(* (Fleet::check, presence.rs:304-333): nothing heard from anyone behind   *)
(* "no-device" and "device-locked", a revocation that has not expired      *)
(* behind "device-locked", a live sighting behind "insufficient-samples",  *)
(* no fresh pair anywhere behind "stale", and one present device of        *)
(* several needed behind "multi-device-auth".                              *)
(***************************************************************************)
DenialNamesObstacle ==
  LET reason == FleetCheck(clock)
      Fresh(d) == {t \in sightings[d] : Age(clock, t) <= PolicyOf[d].freshness}
  IN  /\ reason \in {"no-device", "device-locked"} =>
           \A d \in Device : sightings[d] = {}
      /\ reason = "device-locked" =>
           \E d \in Device : /\ evidence[d].revoked # Never
                             /\ Age(clock, evidence[d].revoked)
                                  <= PolicyOf[d].freshness
      /\ reason = "insufficient-samples" => \E d \in Device : Fresh(d) # {}
      /\ reason = "stale" =>
           /\ \E d \in Device : sightings[d] # {}
           /\ \A d \in Device : \A s, t \in Fresh(d) : t - s < Spacing
      /\ reason = "multi-device-auth" =>
           /\ Required > 1
           /\ Authority!JustifiedDevices(clock, sightings) # {}

(***************************************************************************)
(* RF fading is not absence: an advertisement that is weak, ignored or     *)
(* someone else's never ends an authorisation.  Only the device's own      *)
(* revocation or the loss of the scan does (presence.rs:98-106).           *)
(***************************************************************************)
FadingNeverDenies ==
  [][\A d \in Device :
       /\ clock' = clock
       /\ sightings[d] \subseteq sightings'[d]
       /\ d \in Allowed(clock)
       => d \in Allowed(clock)']_vars

\* The fleet implements the promise of module PresenceAuthority.
KeepsPromise == Authority!ASpec
=============================================================================
