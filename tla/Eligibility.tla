---------------------------- MODULE Eligibility ----------------------------
(***************************************************************************)
(* The per-device presence policy of crates/protocol/src/presence.rs: what *)
(* one device has said about itself (struct Eligibility), how an           *)
(* advertisement changes it (observe) and when it authorises (check).      *)
(* Everything here is a pure operator on a record; module Fleet keeps one  *)
(* record per enrolled device.                                             *)
(*                                                                         *)
(* Times are boot-clock milliseconds, modelled as naturals in any unit.    *)
(*                                                                         *)
(* The code keeps the counted sightings in a Vec; only their number        *)
(* matters, and two of them are never equal because they are at least      *)
(* Spacing > 0 apart, so a set of times stands for the vector.             *)
(***************************************************************************)
EXTENDS Integers, FiniteSets

CONSTANT Spacing        \* MIN_SAMPLE_SPACING_MS

ASSUME SpacingAssumption == Spacing \in Nat \ {0}

(***************************************************************************)
(* Policy.  A threshold in dBm, the sightings needed, the window they must *)
(* fall in and the age the newest may reach.  A configuration is refused   *)
(* unless the window can hold that many sightings (DeviceEntry::           *)
(* validate_policy), so a device's own policy never makes it useless.      *)
(***************************************************************************)
Policy == [threshold : Int, min : Nat \ {0}, window : Nat \ {0},
           freshness : Nat \ {0}]

MaxSamples(window) == window \div Spacing + 1

ValidPolicy(p) == p \in Policy /\ p.min <= MaxSamples(p.window)

(***************************************************************************)
(* Evidence.  Never stands for None.  last_rssi is shown by `status' only, *)
(* so it is kept as whether there is a reading.                            *)
(***************************************************************************)
Never == -1

Evidence == [samples : SUBSET Nat,              \* qualifying_samples
             last    : Nat \cup {Never},        \* last_qualifying_ms
             revoked : Nat \cup {Never},        \* last_revocation_ms
             heard   : BOOLEAN]                 \* last_rssi.is_some()

\* Eligibility::default(), and what `invalidate' leaves behind.
NoEvidence == [samples |-> {}, last |-> Never, revoked |-> Never,
               heard |-> FALSE]

\* u64::saturating_sub: an evidence time after `now' has age 0.
Age(now, t) == IF t <= now THEN now - t ELSE 0

Within(now, times, span) == {t \in times : Age(now, t) <= span}

\* What a profile makes of an advertisement that matched (enum Observation).
Observation == {"Qualify", "Revoke", "Ignore"}

(***************************************************************************)
(* Eligibility::observe, one operator per reading of the advertisement.    *)
(***************************************************************************)

\* Mutant: a revocation that keeps the count.
RevokeKeepsCount(e, now) ==
  [samples |-> e.samples, last |-> e.last, revoked |-> Never, heard |-> TRUE]

Revoke(e, now) ==
  [samples |-> {}, last |-> Never, revoked |-> now, heard |-> TRUE]

Ignore(e) == [e EXCEPT !.heard = TRUE]

Countable(e, now, rssi, p) ==
  /\ rssi >= p.threshold
  /\ e.last = Never \/ Age(now, e.last) >= Spacing

\* Mutants: every delivery counts; a weak signal revokes.
QualifyEveryDelivery(e, now, rssi, p) ==
  IF rssi >= p.threshold
    THEN [samples |-> Within(now, e.samples, p.window) \cup {now}, last |-> now,
          revoked |-> Never, heard |-> TRUE]
    ELSE [e EXCEPT !.revoked = Never, !.heard = TRUE]
QualifyWeakRevokes(e, now, rssi, p) ==
  IF rssi < p.threshold THEN [NoEvidence EXCEPT !.heard = TRUE]
  ELSE QualifyEveryDelivery(e, now, rssi, p)

Qualify(e, now, rssi, p) ==
  LET kept == Within(now, e.samples, p.window)
  IN  IF Countable(e, now, rssi, p)
        THEN [samples |-> kept \cup {now}, last |-> now,
              revoked |-> Never, heard |-> TRUE]
        ELSE [samples |-> kept, last |-> e.last,
              revoked |-> Never, heard |-> TRUE]

Observe(e, now, rssi, obs, p) ==
  CASE obs = "Revoke"  -> Revoke(e, now)
    [] obs = "Ignore"  -> Ignore(e)
    [] obs = "Qualify" -> Qualify(e, now, rssi, p)

(***************************************************************************)
(* Eligibility::check.  Every expiry is decided here, on a filtered view:  *)
(* a silent device never calls `observe' again.                            *)
(***************************************************************************)
Allow == "ALLOW"

DeviceCheck(e, now, p) ==
  IF e.last = Never
    THEN IF e.revoked # Never /\ Age(now, e.revoked) <= p.freshness
           THEN "device-locked"
           ELSE "no-device"
  ELSE IF Age(now, e.last) > p.freshness
    THEN "stale"
  ELSE IF Cardinality(Within(now, e.samples, p.window)) < p.min
    THEN "insufficient-samples"
  ELSE Allow
=============================================================================
