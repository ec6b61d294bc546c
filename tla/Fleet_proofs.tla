---------------------------- MODULE Fleet_proofs ----------------------------
(***************************************************************************)
(* Proofs about module Fleet, for every fleet of devices, every policy a   *)
(* configuration may resolve to and every multi-device rule.               *)
(*                                                                         *)
(* The invariant is about one device at a time, so the work is done by     *)
(* lemmas on the record of a device: each operation of Eligibility keeps   *)
(* Digest, the relation of the record to what was really heard.            *)
(***************************************************************************)
EXTENDS Fleet, FiniteSetTheorems, TLAPS

Inv == TypeOK /\ HonestEvidence

\* A resolved policy has the fields the operators read, with their types.
LEMMA PolicyFields ==
  ASSUME NEW d \in Device
  PROVE  /\ PolicyOf[d] \in Policy
         /\ PolicyOf[d].threshold \in Int
         /\ PolicyOf[d].min \in Nat \ {0}
         /\ PolicyOf[d].window \in Nat \ {0}
         /\ PolicyOf[d].freshness \in Nat \ {0}
  BY PolicyAssumption DEF Policy

(***************************************************************************)
(* The operations on one device's record keep its type.                    *)
(***************************************************************************)
LEMMA NoEvidenceType == NoEvidence \in Evidence
  BY DEF NoEvidence, Evidence, Never

LEMMA RevokeType ==
  ASSUME NEW e \in Evidence, NEW now \in Nat
  PROVE  Revoke(e, now) \in Evidence
  BY DEF Revoke, Evidence, Never

LEMMA IgnoreType ==
  ASSUME NEW e \in Evidence
  PROVE  Ignore(e) \in Evidence
  BY DEF Ignore, Evidence

LEMMA QualifyType ==
  ASSUME NEW e \in Evidence, NEW now \in Nat, NEW rssi \in Int, NEW p \in Policy
  PROVE  Qualify(e, now, rssi, p) \in Evidence
<1>1. e.samples \in SUBSET Nat /\ e.last \in Nat \cup {Never}
  BY DEF Evidence
<1>2. Within(now, e.samples, p.window) \in SUBSET Nat
  BY <1>1 DEF Within
<1>3. Within(now, e.samples, p.window) \cup {now} \in SUBSET Nat
  BY <1>2
<1>4. CASE Countable(e, now, rssi, p)
  BY <1>3, <1>4 DEF Qualify, Evidence, Never
<1>5. CASE ~Countable(e, now, rssi, p)
  BY <1>1, <1>2, <1>5 DEF Qualify, Evidence, Never
<1>6. QED BY <1>4, <1>5

\* What `observe' makes of each reading.
LEMMA ObserveReadings ==
  ASSUME NEW e, NEW now, NEW rssi, NEW p
  PROVE  /\ Observe(e, now, rssi, "Revoke", p) = Revoke(e, now)
         /\ Observe(e, now, rssi, "Ignore", p) = Ignore(e)
         /\ Observe(e, now, rssi, "Qualify", p) = Qualify(e, now, rssi, p)
  BY DEF Observe

LEMMA ObserveType ==
  ASSUME NEW e \in Evidence, NEW now \in Nat, NEW rssi \in Int, NEW p \in Policy,
         NEW obs \in Observation
  PROVE  Observe(e, now, rssi, obs, p) \in Evidence
<1>1. CASE obs = "Revoke"
  BY <1>1, RevokeType DEF Observe
<1>2. CASE obs = "Ignore"
  BY <1>2, IgnoreType DEF Observe
<1>3. CASE obs = "Qualify"
  BY <1>3, QualifyType DEF Observe
<1>4. QED BY <1>1, <1>2, <1>3 DEF Observation

(***************************************************************************)
(* The operations on one device's record keep it an honest digest.         *)
(***************************************************************************)
LEMMA FreshDigest ==
  ASSUME NEW now \in Nat
  PROVE  Digest(NoEvidence, {}, now)
  BY SpacingAssumption DEF Digest, NoEvidence, Never, Authority!Spaced

LEMMA TickDigest ==
  ASSUME NEW e \in Evidence, NEW heard, NEW now \in Nat, Digest(e, heard, now)
  PROVE  Digest(e, heard, now + 1)
<1>1. 0..now \subseteq 0..(now + 1)
  OBVIOUS
<1>2. e.revoked <= now + 1
  BY DEF Digest, Evidence, Never
<1>3. QED BY <1>1, <1>2 DEF Digest

LEMMA RevokeDigest ==
  ASSUME NEW e \in Evidence, NEW now \in Nat
  PROVE  Digest(Revoke(e, now), {}, now)
  BY SpacingAssumption DEF Digest, Revoke, Never, Authority!Spaced

LEMMA IgnoreDigest ==
  ASSUME NEW e \in Evidence, NEW heard, NEW now \in Nat, Digest(e, heard, now)
  PROVE  Digest(Ignore(e), heard, now)
<1>1. /\ Ignore(e).samples = e.samples
      /\ Ignore(e).last = e.last
      /\ Ignore(e).revoked = e.revoked
      /\ Ignore(e).heard
  BY DEF Ignore, Evidence
<1>2. QED BY <1>1 DEF Digest

\* Pruning keeps the newest sample if it keeps any.
LEMMA PruneKeepsLast ==
  ASSUME NEW e \in Evidence, NEW heard, NEW now \in Nat, Digest(e, heard, now),
         NEW span \in Nat, e.last # Never
  PROVE  LET kept == Within(now, e.samples, span)
         IN  /\ kept \subseteq e.samples
             /\ kept # {} => e.last \in kept
<1> DEFINE kept == Within(now, e.samples, span)
<1>1. kept \subseteq e.samples
  BY DEF Within
<1>2. ASSUME NEW s \in kept
      PROVE  e.last \in kept
  <2>1. /\ s \in e.samples /\ s \in 0..now
        /\ e.last \in e.samples /\ e.last \in 0..now
        /\ s <= e.last
    BY <1>1 DEF Digest
  <2>2. Age(now, s) <= span
    BY DEF Within
  <2>3. Age(now, e.last) <= span
    BY <2>1, <2>2 DEF Age
  <2>4. QED BY <2>1, <2>3 DEF Within
<1>3. QED BY <1>1, <1>2

\* What is counted is the sighting itself, at least Spacing after the last.
LEMMA CountedDigest ==
  ASSUME NEW e \in Evidence, NEW heard, NEW now \in Nat, Digest(e, heard, now),
         NEW rssi \in Int, NEW p \in Policy, Countable(e, now, rssi, p)
  PROVE  Digest(Qualify(e, now, rssi, p), heard \cup {now}, now)
<1> DEFINE kept == Within(now, e.samples, p.window)
           q == Qualify(e, now, rssi, p)
<1>1. /\ q.samples = kept \cup {now}
      /\ q.last = now
      /\ q.revoked = Never
      /\ q.heard = TRUE
  BY DEF Qualify
<1>2. kept \subseteq e.samples
  BY DEF Within
<1>3. heard \subseteq 0..now /\ e.samples \subseteq heard
  BY DEF Digest
<1>4. ASSUME NEW s \in kept
      PROVE  now - s >= Spacing
  <2>1. e.last # Never
    BY <1>2, <1>3 DEF Digest
  <2>2. /\ s \in 0..now /\ s <= e.last
        /\ e.last \in 0..now
    BY <1>2, <1>3, <2>1 DEF Digest
  <2>3. now - e.last >= Spacing
    BY <2>1, <2>2, SpacingAssumption DEF Countable, Age
  <2>4. QED BY <2>2, <2>3, SpacingAssumption
<1>5. Authority!Spaced(kept \cup {now})
  <2>1. SUFFICES ASSUME NEW s \in kept \cup {now}, NEW t \in kept \cup {now}, s < t
                 PROVE  t - s >= Spacing
    BY DEF Authority!Spaced
  <2>2. s \in 0..now /\ t \in 0..now
    <3>1. now \in 0..now
      OBVIOUS
    <3>2. kept \subseteq 0..now
      BY <1>2, <1>3, Zenon
    <3>3. QED BY <3>1, <3>2
  <2>3. s \in kept
    BY <2>1, <2>2
  <2>4. CASE t = now
    BY <1>4, <2>3, <2>4
  <2>5. CASE t \in kept
    <3>1. Authority!Spaced(e.samples)
      BY DEF Digest
    <3>2. s \in e.samples /\ t \in e.samples
      BY <1>2, <2>3, <2>5
    <3>3. QED BY <2>1, <3>1, <3>2 DEF Authority!Spaced
  <2>6. QED BY <2>4, <2>5
<1>6. heard \cup {now} \subseteq 0..now
  BY <1>3
<1>7. kept \cup {now} \subseteq heard \cup {now}
  BY <1>2, <1>3
<1>8. /\ \A s \in kept \cup {now} : s <= now
      /\ \A s \in heard \cup {now} : s < now + Spacing
  BY <1>6, <1>7, SpacingAssumption
<1>9. now # Never /\ Never <= now
  BY DEF Never
<1>10. QED BY <1>1, <1>5, <1>6, <1>7, <1>8, <1>9 DEF Digest

\* What is not counted, weak or collapsed, only prunes.
LEMMA PrunedDigest ==
  ASSUME NEW e \in Evidence, NEW heard, NEW now \in Nat, Digest(e, heard, now),
         NEW rssi \in Int, NEW p \in Policy, ~Countable(e, now, rssi, p)
  PROVE  Digest(Qualify(e, now, rssi, p),
                IF rssi >= p.threshold THEN heard \cup {now} ELSE heard, now)
<1> DEFINE kept == Within(now, e.samples, p.window)
           q == Qualify(e, now, rssi, p)
           heard2 == IF rssi >= p.threshold THEN heard \cup {now} ELSE heard
<1>1. /\ q.samples = kept
      /\ q.last = e.last
      /\ q.revoked = Never
      /\ q.heard = TRUE
  BY DEF Qualify
<1>2. kept \subseteq e.samples
  BY DEF Within
<1>3. heard \subseteq 0..now /\ e.samples \subseteq heard
  BY DEF Digest
<1>4. heard2 \subseteq 0..now /\ kept \subseteq heard2
  BY <1>2, <1>3
<1>5. Authority!Spaced(kept)
  BY <1>2 DEF Digest, Authority!Spaced
<1>6. e.last = Never => heard2 = {}
  <2>1. e.last = Never => ~(rssi >= p.threshold)
    BY DEF Countable
  <2>2. QED BY <2>1 DEF Digest
<1>7. ASSUME e.last # Never
      PROVE  /\ e.last \in heard2
             /\ \A s \in kept : s <= e.last
             /\ kept # {} => e.last \in kept
             /\ \A s \in heard2 : s < e.last + Spacing
  <2>1. p.window \in Nat
    BY DEF Policy
  <2>2. e.last \in heard /\ \A s \in e.samples : s <= e.last
    BY <1>7 DEF Digest
  <2>3. kept # {} => e.last \in kept
    BY <1>7, <2>1, PruneKeepsLast
  <2>4. rssi >= p.threshold => now < e.last + Spacing
    <3>1. e.last \in 0..now
      BY <1>3, <2>2
    <3>2. rssi >= p.threshold => ~(Age(now, e.last) >= Spacing)
      BY <1>7 DEF Countable
    <3>3. QED BY <3>1, <3>2, SpacingAssumption DEF Age
  <2>5. \A s \in heard : s < e.last + Spacing
    BY <1>7 DEF Digest
  <2>6. QED BY <1>2, <2>2, <2>3, <2>4, <2>5
<1>8. Never <= now
  BY DEF Never
<1>9. QED BY <1>1, <1>4, <1>5, <1>6, <1>7, <1>8 DEF Digest

\* A qualifying advertisement, strong or weak.
LEMMA QualifyDigest ==
  ASSUME NEW e \in Evidence, NEW heard, NEW now \in Nat, Digest(e, heard, now),
         NEW rssi \in Int, NEW p \in Policy
  PROVE  Digest(Qualify(e, now, rssi, p),
                IF rssi >= p.threshold THEN heard \cup {now} ELSE heard, now)
<1>1. CASE Countable(e, now, rssi, p)
  <2>1. rssi >= p.threshold
    BY <1>1 DEF Countable
  <2>2. QED BY <1>1, <2>1, CountedDigest
<1>2. CASE ~Countable(e, now, rssi, p)
  BY <1>2, PrunedDigest
<1>3. QED BY <1>1, <1>2

(***************************************************************************)
(* The inductive invariant.                                                *)
(***************************************************************************)
LEMMA InvInit == Init => Inv
<1> SUFFICES ASSUME Init PROVE Inv
  OBVIOUS
<1>1. TypeOK
  BY ClockAssumption, NoEvidenceType DEF Init, TypeOK
<1>2. HonestEvidence
  BY FreshDigest DEF Init, HonestEvidence
<1>3. QED BY <1>1, <1>2 DEF Inv

LEMMA AdvertiseInv ==
  ASSUME Inv, NEW reading \in [Device -> Reading], NEW rssi \in Rssi,
         Advertise(reading, rssi)
  PROVE  Inv'
<1>1. clock \in Nat /\ clock \in 0..MaxClock /\ rssi \in Int /\ clock' = clock
  BY ClockAssumption, RssiAssumption DEF Inv, TypeOK, Advertise
<1>2. ASSUME NEW d \in Device
      PROVE  /\ evidence'[d] \in Evidence
             /\ sightings'[d] \subseteq 0..MaxClock
             /\ Digest(evidence'[d], sightings'[d], clock)
  <2> DEFINE e == evidence[d]
             p == PolicyOf[d]
  <2>1. /\ e \in Evidence
        /\ sightings[d] \subseteq 0..MaxClock
        /\ Digest(e, sightings[d], clock)
        /\ reading[d] \in Observation \cup {"reject"}
    BY DEF Inv, TypeOK, HonestEvidence, Reading
  <2>2. p \in Policy
    BY PolicyFields
  <2>3. /\ evidence'[d] = IF reading[d] = "reject" THEN e
                          ELSE Observe(e, clock, rssi, reading[d], p)
        /\ sightings'[d] = IF reading[d] = "Revoke" THEN {}
                           ELSE IF Strong(d, reading, rssi)
                             THEN sightings[d] \cup {clock}
                           ELSE sightings[d]
    BY DEF Advertise
  <2>4. evidence'[d] \in Evidence
    BY <1>1, <2>1, <2>2, <2>3, ObserveType
  <2>5. sightings'[d] \subseteq 0..MaxClock
    BY <1>1, <2>1, <2>3
  <2>6. Digest(evidence'[d], sightings'[d], clock)
    <3>1. CASE reading[d] = "reject"
      BY <2>1, <2>3, <3>1 DEF Strong
    <3>2. CASE reading[d] = "Revoke"
      <4>1. evidence'[d] = Revoke(e, clock) /\ sightings'[d] = {}
        BY <2>3, <3>2, ObserveReadings
      <4>2. QED BY <1>1, <2>1, <4>1, RevokeDigest
    <3>3. CASE reading[d] = "Ignore"
      <4>1. evidence'[d] = Ignore(e) /\ sightings'[d] = sightings[d]
        BY <2>3, <3>3, ObserveReadings DEF Strong
      <4>2. QED BY <1>1, <2>1, <4>1, IgnoreDigest
    <3>4. CASE reading[d] = "Qualify"
      <4>1. /\ evidence'[d] = Qualify(e, clock, rssi, p)
            /\ sightings'[d] = IF rssi >= p.threshold
                 THEN sightings[d] \cup {clock} ELSE sightings[d]
        BY <2>3, <3>4, ObserveReadings DEF Strong
      <4>2. Digest(Qualify(e, clock, rssi, p),
                   IF rssi >= p.threshold THEN sightings[d] \cup {clock}
                   ELSE sightings[d], clock)
        BY <1>1, <2>1, <2>2, QualifyDigest
      <4>3. QED BY <4>1, <4>2
    <3>5. QED BY <2>1, <3>1, <3>2, <3>3, <3>4 DEF Observation
  <2>7. QED BY <2>4, <2>5, <2>6
<1>3. /\ evidence' = [d \in Device |-> evidence'[d]]
      /\ sightings' = [d \in Device |-> sightings'[d]]
  BY DEF Advertise
<1>4. TypeOK'
  BY <1>1, <1>2, <1>3 DEF TypeOK
<1>5. HonestEvidence'
  BY <1>1, <1>2 DEF HonestEvidence
<1>6. QED BY <1>4, <1>5 DEF Inv

LEMMA InvStep == Inv /\ [Next]_vars => Inv'
<1> SUFFICES ASSUME Inv, [Next]_vars PROVE Inv'
  OBVIOUS
<1>1. CASE Tick
  <2>1. TypeOK'
    BY <1>1, ClockAssumption DEF Inv, TypeOK, Tick
  <2>2. HonestEvidence'
    <3>1. SUFFICES ASSUME NEW d \in Device
                   PROVE  Digest(evidence[d], sightings[d], clock + 1)
      BY <1>1 DEF Tick, HonestEvidence
    <3>2. clock \in Nat /\ evidence[d] \in Evidence
          /\ Digest(evidence[d], sightings[d], clock)
      BY ClockAssumption DEF Inv, TypeOK, HonestEvidence
    <3>3. QED BY <3>2, TickDigest
  <2>3. QED BY <2>1, <2>2 DEF Inv
<1>2. ASSUME NEW reading \in [Device -> Reading], NEW rssi \in Rssi,
             Advertise(reading, rssi)
      PROVE  Inv'
  BY <1>2, AdvertiseInv
<1>3. CASE Invalidate
  <2>1. TypeOK'
    BY <1>3, NoEvidenceType DEF Inv, TypeOK, Invalidate
  <2>2. HonestEvidence'
    <3>1. clock \in Nat
      BY ClockAssumption DEF Inv, TypeOK
    <3>2. QED BY <1>3, <3>1, FreshDigest DEF Invalidate, HonestEvidence
  <2>3. QED BY <2>1, <2>2 DEF Inv
<1>4. CASE UNCHANGED vars
  BY <1>4 DEF Inv, TypeOK, HonestEvidence, vars
<1>5. QED BY <1>1, <1>2, <1>3, <1>4 DEF Next

(***************************************************************************)
(* Whatever is advertised, fetched, lost or left unheard, each record keeps *)
(* its type ...                                                            *)
(***************************************************************************)
THEOREM TypeCorrect == Spec => []TypeOK
<1>1. Inv => TypeOK
  BY DEF Inv
<1>2. QED BY InvInit, InvStep, <1>1, PTL DEF Spec

(***************************************************************************)
(* ... and is an honest digest of what was heard of its device.            *)
(***************************************************************************)
THEOREM EvidenceIsHonest == Spec => []HonestEvidence
<1>1. Inv => HonestEvidence
  BY DEF Inv
<1>2. QED BY InvInit, InvStep, <1>1, PTL DEF Spec

(***************************************************************************)
(* A device authorises only on sightings that justify it.  The witness is  *)
(* the very set `check' counts; what makes its newest member fresh is that *)
(* the newest counted sighting is never pruned before an older one.        *)
(***************************************************************************)
LEMMA AllowMeans ==
  ASSUME NEW e, NEW now, NEW p
  PROVE  DeviceCheck(e, now, p) = Allow <=>
           /\ e.last # Never
           /\ ~(Age(now, e.last) > p.freshness)
           /\ ~(Cardinality(Within(now, e.samples, p.window)) < p.min)
  BY DEF DeviceCheck, Allow

\* The instance counts as this module does.
LEMMA SameCardinality ==
  ASSUME NEW S
  PROVE  Authority!Cardinality(S) = Cardinality(S)
  BY DEF Cardinality, Authority!Cardinality, IsFiniteSet, Authority!IsFiniteSet

LEMMA AllowJustified ==
  ASSUME NEW e \in Evidence, NEW heard, NEW now \in Nat, Digest(e, heard, now),
         NEW p \in Policy, DeviceCheck(e, now, p) = Allow
  PROVE  Authority!Justified(heard, now, p)
<1> DEFINE S == Within(now, e.samples, p.window)
<1>1. /\ e.last # Never
      /\ ~(Age(now, e.last) > p.freshness)
      /\ ~(Cardinality(S) < p.min)
  BY AllowMeans
<1>2. p.window \in Nat /\ p.min \in Nat \ {0} /\ p.freshness \in Nat
  BY DEF Policy
<1>3. heard \subseteq 0..now /\ e.samples \subseteq heard
  BY DEF Digest
<1>4. S \subseteq e.samples
  BY DEF Within
<1>5. IsFiniteSet(S) /\ Cardinality(S) \in Nat
  <2>1. S \subseteq 0..now
    BY <1>3, <1>4, Zenon
  <2>2. IsFiniteSet(0..now)
    BY FS_Interval
  <2>3. QED BY <2>1, <2>2, FS_Subset, FS_CardinalityType
<1>6. S # {}
  BY <1>1, <1>2, FS_EmptySet
<1>7. e.last \in S
  BY <1>1, <1>2, <1>6, PruneKeepsLast
<1>8. now - e.last <= p.freshness
  <2>1. e.last \in 0..now
    BY <1>3, <1>4, <1>7, Zenon
  <2>2. QED BY <1>1, <1>2, <2>1 DEF Age
<1>9. S \in Authority!Backing(heard, now, p.window)
  <2>1. ASSUME NEW s \in S
        PROVE  s \in heard /\ now - s <= p.window
    <3>1. s \in heard /\ s \in 0..now
      BY <1>3, <1>4, Zenon
    <3>2. Age(now, s) <= p.window
      BY DEF Within
    <3>3. QED BY <3>1, <3>2 DEF Age
  <2>2. Authority!Spaced(S)
    BY <1>4 DEF Digest, Authority!Spaced
  <2>3. QED BY <2>1, <2>2 DEF Authority!Backing
<1>10. Cardinality(S) >= p.min
  BY <1>1, <1>2, <1>5
<1>11. QED BY <1>7, <1>8, <1>9, <1>10, SameCardinality DEF Authority!Justified

(***************************************************************************)
(* No device authorises on anything but enough separate, strong, recent    *)
(* sightings since it last revoked: AllowIsJustified for every fleet.      *)
(***************************************************************************)
THEOREM AllowAlwaysJustified == Spec => []AllowIsJustified
<1>1. Inv => AllowIsJustified
  <2>1. SUFFICES ASSUME Inv, NEW d \in Device,
                        DeviceCheck(evidence[d], clock, PolicyOf[d]) = Allow
                 PROVE  Authority!Justified(sightings[d], clock, PolicyOf[d])
    BY DEF AllowIsJustified, Allowed, Decision
  <2>2. /\ clock \in Nat
        /\ evidence[d] \in Evidence
        /\ Digest(evidence[d], sightings[d], clock)
    BY <2>1, ClockAssumption DEF Inv, TypeOK, HonestEvidence
  <2>3. QED BY <2>1, <2>2, PolicyFields, AllowJustified
<1>2. QED BY InvInit, InvStep, <1>1, PTL DEF Spec

-----------------------------------------------------------------------------
\* What a device's decision says of its record.
LEMMA DecisionMeans ==
  ASSUME NEW e, NEW now, NEW p
  PROVE  LET decision == DeviceCheck(e, now, p)
         IN  /\ decision \in {"device-locked", "no-device", "stale", "insufficient-samples",
                              Allow}
             /\ decision \in {"device-locked", "no-device"} <=> e.last = Never
             /\ decision = "device-locked" =>
                  e.revoked # Never /\ Age(now, e.revoked) <= p.freshness
             /\ decision = "stale" => Age(now, e.last) > p.freshness
             /\ decision = "insufficient-samples" => ~(Age(now, e.last) > p.freshness)
  BY DEF DeviceCheck, Allow

\* The closest device is one that no other outranks.
LEMMA ClosestRanks ==
  ASSUME NEW now, Device # {}
  PROVE  \E d \in Device :
           /\ ClosestDeny(now) = Decision(d, now)
           /\ \A o \in Device : Rank(Decision(d, now)) <= Rank(Decision(o, now))
<1> DEFINE R(d) == Rank(Decision(d, now))
           First(d) == \A o \in Device : R(d) <= R(o)
<1>1. \A d \in Device : R(d) \in 0..4
  BY DEF Rank
<1>2. \E d \in Device : First(d)
  <2>1. CASE \E d \in Device : R(d) = 0
    BY <1>1, <2>1
  <2>2. CASE (\A d \in Device : R(d) > 0) /\ \E d \in Device : R(d) = 1
    BY <1>1, <2>2
  <2>3. CASE (\A d \in Device : R(d) > 1) /\ \E d \in Device : R(d) = 2
    BY <1>1, <2>3
  <2>4. CASE (\A d \in Device : R(d) > 2) /\ \E d \in Device : R(d) = 3
    BY <1>1, <2>4
  <2>5. CASE \A d \in Device : R(d) > 3
    BY <1>1, <2>5
  <2> HIDE DEF R
  <2> QED
    BY <1>1, <2>1, <2>2, <2>3, <2>4, <2>5
<1>3. ClosestDeny(now) = Decision(CHOOSE d \in Device : First(d), now)
  BY DEF ClosestDeny
<1> HIDE DEF R, First
<1>4. /\ (CHOOSE d \in Device : First(d)) \in Device
      /\ First(CHOOSE d \in Device : First(d))
  BY <1>2
<1> QED
  BY <1>3, <1>4 DEF First, R

\* Each reason, from the record of the device it names.
LEMMA InvObstacle == Inv => DenialNamesObstacle
<1> SUFFICES ASSUME Inv PROVE DenialNamesObstacle
  OBVIOUS
<1> DEFINE reason == FleetCheck(clock)
           D(d) == Decision(d, clock)
           Fresh(d) == {t \in sightings[d] : Age(clock, t) <= PolicyOf[d].freshness}
<1>1. clock \in Nat
  BY ClockAssumption DEF Inv, TypeOK
<1>2. ASSUME NEW d \in Device
      PROVE  /\ evidence[d] \in Evidence
             /\ Digest(evidence[d], sightings[d], clock)
             /\ PolicyOf[d].freshness \in Nat
             /\ sightings[d] \subseteq 0..clock
             /\ evidence[d].last = Never => sightings[d] = {}
             /\ evidence[d].last # Never =>
                  /\ evidence[d].last \in sightings[d]
                  /\ \A s \in sightings[d] : s < evidence[d].last + Spacing
             /\ D(d) \in {"device-locked", "no-device", "stale", "insufficient-samples", Allow}
             /\ D(d) \in {"device-locked", "no-device"} <=> evidence[d].last = Never
             /\ D(d) = "device-locked" =>
                  /\ evidence[d].revoked # Never
                  /\ Age(clock, evidence[d].revoked) <= PolicyOf[d].freshness
             /\ D(d) = "stale" => Age(clock, evidence[d].last) > PolicyOf[d].freshness
             /\ D(d) = "insufficient-samples" =>
                  ~(Age(clock, evidence[d].last) > PolicyOf[d].freshness)
  <2>1. Digest(evidence[d], sightings[d], clock) /\ evidence[d] \in Evidence
    BY DEF Inv, TypeOK, HonestEvidence
  <2>2. PolicyOf[d].freshness \in Nat
    BY PolicyFields
  <2> QED
    BY <2>1, <2>2, DecisionMeans DEF Digest, Decision
<1>3. CASE reason = Allow
  BY <1>3 DEF DenialNamesObstacle, Allow
<1>4. CASE reason = "multi-device-auth"
  <2>1. Allowed(clock) # {} /\ ~(Cardinality(Allowed(clock)) >= Required)
    <3>1. \A d \in Device : D(d) # "multi-device-auth"
      BY <1>2 DEF Allow
    <3>2. Device # {} => ClosestDeny(clock) # "multi-device-auth"
      BY <3>1, ClosestRanks
    <3> QED
      BY <1>4, <3>2 DEF FleetCheck, Allow
  <2>2. PICK d \in Device : d \in Allowed(clock)
    BY <2>1 DEF Allowed
  <2>3. Cardinality(Allowed(clock)) >= 1
    <3>1. IsFiniteSet(Allowed(clock))
      BY DeviceAssumption, FS_Subset DEF Allowed
    <3>2. Cardinality(Allowed(clock)) \in Nat /\ Cardinality(Allowed(clock)) # 0
      BY <2>1, <3>1, FS_CardinalityType, FS_EmptySet
    <3> QED
      BY <3>2
  <2>4. Required \in Nat /\ Cardinality(Allowed(clock)) \in Nat
    <3>1. IsFiniteSet(Allowed(clock))
      BY DeviceAssumption, FS_Subset DEF Allowed
    <3> QED
      BY <3>1, DeviceAssumption, RuleAssumption, FS_CardinalityType DEF Required, RuleKind
  <2>5. Required > 1
    BY <2>1, <2>3, <2>4
  <2>6. DeviceCheck(evidence[d], clock, PolicyOf[d]) = Allow
    BY <2>2 DEF Allowed, Decision
  <2>7. Authority!Justified(sightings[d], clock, PolicyOf[d])
    BY <1>1, <1>2, <2>6, PolicyFields, AllowJustified
  <2>8. Authority!JustifiedDevices(clock, sightings) # {}
    BY <2>7 DEF Authority!JustifiedDevices
  <2> QED
    BY <1>4, <2>5, <2>8 DEF DenialNamesObstacle
<1>5. CASE Device = {}
  <2>1. reason = "no-device"
    BY <1>5 DEF FleetCheck
  <2> QED
    BY <1>5, <2>1 DEF DenialNamesObstacle
<1>6. CASE Device # {} /\ reason \notin {Allow, "multi-device-auth"}
  <2>1. reason = ClosestDeny(clock) /\ Allowed(clock) = {}
    BY <1>6 DEF FleetCheck
  <2>2. PICK n \in Device :
          /\ reason = D(n)
          /\ \A o \in Device : Rank(D(n)) <= Rank(D(o))
    BY <1>6, <2>1, ClosestRanks
  <2>3. \A o \in Device : D(o) # Allow
    BY <2>1 DEF Allowed
  <2>4. CASE D(n) \in {"no-device", "device-locked"}
    <3>1. \A o \in Device : D(o) \in {"no-device", "device-locked"}
      BY <1>2, <2>2, <2>3, <2>4 DEF Rank, Allow
    <3>2. \A o \in Device : sightings[o] = {}
      BY <1>2, <3>1
    <3> QED
      BY <1>2, <2>2, <2>4, <3>2 DEF DenialNamesObstacle
  <2>5. CASE D(n) = "insufficient-samples"
    <3>1. evidence[n].last \in sightings[n] /\ Age(clock, evidence[n].last) \in Nat
      BY <1>1, <1>2, <2>5 DEF Age
    <3>2. evidence[n].last \in Fresh(n)
      BY <1>2, <2>5, <3>1
    <3> QED
      BY <2>2, <2>5, <3>2 DEF DenialNamesObstacle
  <2>6. CASE D(n) = "stale"
    <3>1. sightings[n] # {}
      BY <1>2, <2>6
    <3>2. ASSUME NEW o \in Device, NEW s \in Fresh(o), NEW t \in Fresh(o)
          PROVE  t - s < Spacing
      <4>1. D(o) \in {"no-device", "device-locked", "stale"}
        BY <1>2, <2>2, <2>3, <2>6 DEF Rank, Allow
      <4>2. D(o) = "stale"
        BY <1>2, <4>1
      <4>3. /\ evidence[o].last \in 0..clock /\ s \in 0..clock /\ t \in 0..clock
            /\ t < evidence[o].last + Spacing
            /\ Age(clock, s) <= PolicyOf[o].freshness
            /\ Age(clock, evidence[o].last) > PolicyOf[o].freshness
        BY <1>2, <4>2
      <4> QED
        BY <1>1, <1>2, <4>3, SpacingAssumption DEF Age
    <3> QED
      BY <2>2, <2>6, <3>1, <3>2 DEF DenialNamesObstacle
  <2> QED
    BY <1>2, <2>3, <2>4, <2>5, <2>6
<1> QED
  BY <1>3, <1>4, <1>5, <1>6

(***************************************************************************)
(* The reason of a denial is the obstacle that is there, for every fleet   *)
(* and rule (Fleet::check, presence.rs:304-333).                           *)
(***************************************************************************)
THEOREM DenialsNameObstacles == Spec => []DenialNamesObstacle
  BY InvInit, InvStep, InvObstacle, PTL DEF Spec

-----------------------------------------------------------------------------
\* The samples in a window are finitely many.
LEMMA WithinFinite ==
  ASSUME NEW e \in Evidence, NEW heard, NEW now \in Nat, Digest(e, heard, now),
         NEW later, NEW span
  PROVE  /\ Within(later, e.samples, span) \subseteq e.samples
         /\ e.samples \subseteq 0..now
         /\ IsFiniteSet(e.samples)
         /\ IsFiniteSet(Within(later, e.samples, span))
         /\ Cardinality(Within(later, e.samples, span)) \in Nat
<1>1. Within(later, e.samples, span) \subseteq e.samples
  BY DEF Within
<1>2. e.samples \subseteq 0..now
  BY DEF Digest
<1>3. IsFiniteSet(0..now)
  BY FS_Interval
<1>4. IsFiniteSet(e.samples)
  BY <1>2, <1>3, FS_Subset
<1> QED
  BY <1>1, <1>2, <1>4, FS_Subset, FS_CardinalityType

\* A sighting, strong or weak, keeps what is allowed.
LEMMA QualifyKeeps ==
  ASSUME NEW e \in Evidence, NEW heard, NEW now \in Nat, Digest(e, heard, now),
         NEW rssi, NEW p \in Policy, DeviceCheck(e, now, p) = Allow
  PROVE  DeviceCheck(Qualify(e, now, rssi, p), now, p) = Allow
<1> DEFINE kept == Within(now, e.samples, p.window)
           q == Qualify(e, now, rssi, p)
<1>1. p.window \in Nat /\ p.freshness \in Nat /\ p.min \in Nat
  BY DEF Policy
<1>2. /\ e.last # Never
      /\ ~(Age(now, e.last) > p.freshness)
      /\ ~(Cardinality(kept) < p.min)
  BY AllowMeans
<1>3. IsFiniteSet(kept) /\ Cardinality(kept) \in Nat
  BY WithinFinite
<1>4. CASE Countable(e, now, rssi, p)
  <2>1. q.samples = kept \cup {now} /\ q.last = now
    BY <1>4 DEF Qualify
  <2>2. Age(now, now) = 0 /\ now # Never
    BY DEF Age, Never
  <2>3. Within(now, q.samples, p.window) = kept \cup {now}
    BY <1>1, <2>1, <2>2 DEF Within
  <2>4. IsFiniteSet(kept \cup {now})
    BY <1>3, FS_AddElement
  <2>5. /\ Cardinality(kept) <= Cardinality(kept \cup {now})
        /\ Cardinality(kept \cup {now}) \in Nat
    BY <2>4, FS_Subset, FS_CardinalityType
  <2>6. ~(Cardinality(kept \cup {now}) < p.min)
    BY <1>1, <1>2, <1>3, <2>5
  <2>7. ~(Age(now, q.last) > p.freshness)
    BY <1>1, <2>1, <2>2
  <2> QED
    BY <2>1, <2>2, <2>3, <2>6, <2>7, AllowMeans
<1>5. CASE ~Countable(e, now, rssi, p)
  <2>1. q.samples = kept /\ q.last = e.last
    BY <1>5 DEF Qualify
  <2>2. Within(now, q.samples, p.window) = kept
    BY <2>1 DEF Within
  <2> QED
    BY <1>2, <2>1, <2>2, AllowMeans
<1> QED
  BY <1>4, <1>5

\* Only a device's own revocation ends what it is allowed.
LEMMA AdvertiseKeeps ==
  ASSUME Inv, NEW reading \in [Device -> Reading], NEW rssi \in Rssi,
         Advertise(reading, rssi), NEW d \in Allowed(clock), reading[d] # "Revoke"
  PROVE  d \in Allowed(clock)'
<1> DEFINE e == evidence[d]
           p == PolicyOf[d]
<1>1. d \in Device /\ clock' = clock /\ clock \in Nat
  BY ClockAssumption DEF Allowed, Advertise, Inv, TypeOK
<1>2. e \in Evidence /\ Digest(e, sightings[d], clock) /\ p \in Policy
  BY <1>1, PolicyFields DEF Inv, TypeOK, HonestEvidence
<1>3. DeviceCheck(e, clock, p) = Allow
  BY DEF Allowed, Decision
<1>4. DeviceCheck(evidence'[d], clock, p) = Allow
  <2>1. CASE reading[d] = "reject"
    BY <1>1, <1>3, <2>1 DEF Advertise
  <2>2. CASE reading[d] = "Ignore"
    <3>1. evidence'[d] = Ignore(e)
      BY <1>1, <2>2, ObserveReadings DEF Advertise
    <3>2. Ignore(e).samples = e.samples /\ Ignore(e).last = e.last
      BY <1>2 DEF Ignore, Evidence
    <3> QED
      BY <1>3, <3>1, <3>2, AllowMeans
  <2>3. CASE reading[d] = "Qualify"
    <3>1. evidence'[d] = Qualify(e, clock, rssi, p)
      BY <1>1, <2>3, ObserveReadings DEF Advertise
    <3> QED
      BY <1>1, <1>2, <1>3, <3>1, QualifyKeeps
  <2> QED
    BY <1>1, <2>1, <2>2, <2>3 DEF Reading, Observation
<1> QED
  BY <1>1, <1>4 DEF Allowed, Decision

\* An allowed device was sighted.
LEMMA AllowedSighted ==
  ASSUME Inv, NEW d \in Allowed(clock)
  PROVE  sightings[d] # {}
<1>1. d \in Device /\ evidence[d].last # Never
  BY AllowMeans DEF Allowed, Decision
<1> QED
  BY <1>1 DEF Inv, HonestEvidence, Digest

(***************************************************************************)
(* A weak, ignored or foreign advertisement never ends an authorisation:   *)
(* FadingNeverDenies for every fleet (presence.rs:98-106).                 *)
(***************************************************************************)
THEOREM FadingIsNoDenial == Spec => FadingNeverDenies
<1> DEFINE Kept == \A d \in Device :
             /\ clock' = clock
             /\ sightings[d] \subseteq sightings'[d]
             /\ d \in Allowed(clock)
             => d \in Allowed(clock)'
<1>1. Inv /\ [Next]_vars => Kept
  <2> SUFFICES ASSUME Inv, [Next]_vars, NEW d \in Device, clock' = clock,
                      sightings[d] \subseteq sightings'[d], d \in Allowed(clock)
               PROVE  d \in Allowed(clock)'
    OBVIOUS
  <2>1. clock \in Nat /\ sightings[d] # {}
    BY ClockAssumption, AllowedSighted DEF Inv, TypeOK
  <2>2. CASE Tick
    BY <2>1, <2>2 DEF Tick
  <2>3. ASSUME NEW reading \in [Device -> Reading], NEW rssi \in Rssi,
               Advertise(reading, rssi)
        PROVE  d \in Allowed(clock)'
    <3>1. reading[d] # "Revoke"
      BY <2>1, <2>3 DEF Advertise
    <3> QED
      BY <2>3, <3>1, AdvertiseKeeps
  <2>4. CASE Invalidate
    BY <2>1, <2>4 DEF Invalidate
  <2>5. CASE UNCHANGED vars
    BY <2>5 DEF vars, Allowed, Decision
  <2> QED
    BY <2>2, <2>3, <2>4, <2>5 DEF Next
<1>2. Inv /\ [Next]_vars => [Kept]_vars
  BY <1>1
<1> QED
  BY InvInit, InvStep, <1>2, PTL DEF Spec, FadingNeverDenies

-----------------------------------------------------------------------------
(***************************************************************************)
(* The promise. To keep it the record must not lose too much: every        *)
(* sighting still has its sample, less than Spacing before it, unless that *)
(* sample is too old for the window (Covered). Then of sightings that are  *)
(* Spacing apart all but one have samples of their own inside the window,  *)
(* and what PresenceAuthority calls certain is allowed.                    *)
(***************************************************************************)
Covered(e, heard, now, p) ==
  /\ e.last # Never => e.last \in e.samples \/ e.last + p.window < now
  /\ \A t \in heard :
       \/ \E c \in e.samples : c <= t /\ t < c + Spacing
       \/ t + p.window < now + Spacing

Coverage == \A d \in Device : Covered(evidence[d], sightings[d], clock, PolicyOf[d])

\* What is collapsed lies just after the newest sample; what is pruned is old.
LEMMA QualifyCovered ==
  ASSUME NEW e \in Evidence, NEW heard, NEW now \in Nat, Digest(e, heard, now),
         NEW rssi \in Int, NEW p \in Policy, Covered(e, heard, now, p)
  PROVE  Covered(Qualify(e, now, rssi, p),
                 IF rssi >= p.threshold THEN heard \cup {now} ELSE heard, now, p)
<1> DEFINE kept == Within(now, e.samples, p.window)
           q == Qualify(e, now, rssi, p)
<1>1. /\ p.window \in Nat /\ heard \subseteq 0..now /\ e.samples \subseteq heard
      /\ Spacing \in Nat \ {0}
  BY SpacingAssumption DEF Policy, Digest
<1>2. ASSUME NEW c \in e.samples, c \notin kept
      PROVE  c + p.window < now
  <2>1. c \in 0..now /\ ~(Age(now, c) <= p.window)
    BY <1>1, <1>2 DEF Within
  <2> QED
    BY <1>1, <2>1 DEF Age
<1>3. ASSUME NEW t \in heard
      PROVE  \/ \E c \in kept : c <= t /\ t < c + Spacing
             \/ t + p.window < now + Spacing
  <2>1. CASE t + p.window < now + Spacing
    BY <2>1
  <2>2. CASE \E c \in e.samples : c <= t /\ t < c + Spacing
    <3>1. PICK c \in e.samples : c <= t /\ t < c + Spacing
      BY <2>2
    <3>2. c \in 0..now /\ t \in 0..now
      BY <1>1
    <3>3. c \notin kept => t + p.window < now + Spacing
      BY <1>1, <1>2, <3>1, <3>2
    <3> QED
      BY <3>1, <3>3
  <2> QED
    BY <2>1, <2>2 DEF Covered
<1>4. CASE Countable(e, now, rssi, p)
  <2>1. q.samples = kept \cup {now} /\ q.last = now /\ now < now + Spacing
    BY <1>1, <1>4 DEF Qualify
  <2> QED
    BY <1>3, <2>1 DEF Covered
<1>5. CASE ~Countable(e, now, rssi, p)
  <2>1. q.samples = kept /\ q.last = e.last
    BY <1>5 DEF Qualify
  <2>2. e.last # Never => e.last \in kept \/ e.last + p.window < now
    BY <1>2 DEF Covered
  <2>3. ASSUME rssi >= p.threshold
        PROVE  \/ \E c \in kept : c <= now /\ now < c + Spacing
               \/ now + p.window < now + Spacing
    <3>1. e.last # Never /\ ~(Age(now, e.last) >= Spacing)
      BY <1>5, <2>3 DEF Countable
    <3>2. e.last \in 0..now
      BY <1>1, <3>1 DEF Digest
    <3>3. now < e.last + Spacing
      BY <1>1, <3>1, <3>2 DEF Age
    <3> QED
      BY <1>1, <2>2, <3>1, <3>2, <3>3
  <2> QED
    BY <1>3, <2>1, <2>2, <2>3 DEF Covered
<1> QED
  BY <1>4, <1>5

\* Time only makes samples older.
LEMMA TickCovered ==
  ASSUME NEW e \in Evidence, NEW heard, NEW now \in Nat, Digest(e, heard, now),
         NEW p \in Policy, Covered(e, heard, now, p)
  PROVE  Covered(e, heard, now + 1, p)
<1>1. /\ p.window \in Nat /\ heard \subseteq 0..now /\ Spacing \in Nat
      /\ e.last # Never => e.last \in 0..now
  BY SpacingAssumption DEF Policy, Digest
<1> QED
  BY <1>1 DEF Covered

\* Every device's record stays covered.
LEMMA CoverageStep == Inv /\ Coverage /\ [Next]_vars => Coverage'
<1> SUFFICES ASSUME Inv, Coverage, [Next]_vars, NEW d \in Device
             PROVE  Covered(evidence'[d], sightings'[d], clock', PolicyOf[d])
  BY DEF Coverage
<1> DEFINE e == evidence[d]
           p == PolicyOf[d]
<1>1. /\ clock \in Nat /\ e \in Evidence /\ p \in Policy
      /\ Digest(e, sightings[d], clock)
      /\ Covered(e, sightings[d], clock, p)
  BY ClockAssumption, PolicyFields DEF Inv, TypeOK, HonestEvidence, Coverage
<1>2. CASE Tick
  BY <1>1, <1>2, TickCovered DEF Tick
<1>3. ASSUME NEW reading \in [Device -> Reading], NEW rssi \in Rssi,
             Advertise(reading, rssi)
      PROVE  Covered(evidence'[d], sightings'[d], clock', p)
  <2>1. rssi \in Int /\ clock' = clock
    BY <1>3, RssiAssumption DEF Advertise
  <2>2. CASE reading[d] = "reject"
    BY <1>1, <1>3, <2>1, <2>2 DEF Advertise, Strong
  <2>3. CASE reading[d] = "Revoke"
    <3>1. evidence'[d] = Revoke(e, clock) /\ sightings'[d] = {}
      BY <1>3, <2>3, ObserveReadings DEF Advertise
    <3> QED
      BY <3>1 DEF Revoke, Covered
  <2>4. CASE reading[d] = "Ignore"
    <3>1. evidence'[d] = Ignore(e) /\ sightings'[d] = sightings[d]
      BY <1>3, <2>4, ObserveReadings DEF Advertise, Strong
    <3>2. Ignore(e).samples = e.samples /\ Ignore(e).last = e.last
      BY <1>1 DEF Ignore, Evidence
    <3> QED
      BY <1>1, <2>1, <3>1, <3>2 DEF Covered
  <2>5. CASE reading[d] = "Qualify"
    <3>1. /\ evidence'[d] = Qualify(e, clock, rssi, p)
          /\ sightings'[d] = IF rssi >= p.threshold
               THEN sightings[d] \cup {clock} ELSE sightings[d]
      BY <1>3, <2>5, ObserveReadings DEF Advertise, Strong
    <3>2. Covered(Qualify(e, clock, rssi, p), IF rssi >= p.threshold
               THEN sightings[d] \cup {clock} ELSE sightings[d], clock, p)
      BY <1>1, <2>1, QualifyCovered
    <3> QED
      BY <2>1, <3>1, <3>2
  <2> QED
    BY <2>2, <2>3, <2>4, <2>5 DEF Reading, Observation
<1>4. CASE Invalidate
  BY <1>4 DEF Invalidate, NoEvidence, Covered
<1>5. CASE UNCHANGED vars
  BY <1>1, <1>5 DEF vars
<1> QED
  BY <1>2, <1>3, <1>4, <1>5 DEF Next

\* Of spaced sightings, all but one have a sample of their own in the window.
LEMMA SpacedCounted ==
  ASSUME NEW e \in Evidence, NEW heard, NEW now \in Nat, Digest(e, heard, now),
         NEW p \in Policy, Covered(e, heard, now, p),
         NEW S \in Authority!Backing(heard, now, p.window)
  PROVE  Cardinality(S) <= Cardinality(Within(now, e.samples, p.window)) + 1
<1> DEFINE W == Within(now, e.samples, p.window)
           Has(t) == \E c \in W : c <= t /\ t < c + Spacing
           A == {t \in S : Has(t)}
<1>1. /\ p.window \in Nat /\ Spacing \in Nat \ {0}
      /\ S \subseteq heard /\ heard \subseteq 0..now
      /\ \A t \in S : now - t <= p.window
      /\ \A s, t \in S : s < t => t - s >= Spacing
  BY SpacingAssumption DEF Policy, Digest, Authority!Backing, Authority!Spaced
<1>2. /\ W \subseteq e.samples /\ e.samples \subseteq 0..now
      /\ IsFiniteSet(W) /\ Cardinality(W) \in Nat
  BY WithinFinite
<1>3. IsFiniteSet(S)
  <2>1. S \subseteq 0..now
    BY <1>1
  <2>2. IsFiniteSet(0..now)
    BY FS_Interval
  <2> QED
    BY <2>1, <2>2, FS_Subset
<1>4. ASSUME NEW s \in S, NEW t \in S, s < t
      PROVE  Has(t)
  <2>1. s \in 0..now /\ t \in 0..now /\ now - s <= p.window /\ t >= s + Spacing
    BY <1>1, <1>4
  <2>2. ~(t + p.window < now + Spacing)
    BY <1>1, <2>1
  <2>3. t \in heard
    BY <1>1
  <2>4. PICK c \in e.samples : c <= t /\ t < c + Spacing
    BY <2>2, <2>3 DEF Covered
  <2>5. c \in 0..now /\ Age(now, c) <= p.window
    BY <1>1, <1>2, <2>1, <2>4 DEF Age
  <2>6. c \in W
    BY <2>5 DEF Within
  <2> QED
    BY <2>4, <2>6
<1>5. Cardinality(A) <= Cardinality(W) /\ IsFiniteSet(A)
  <2> DEFINE f == [t \in A |-> CHOOSE c \in W : c <= t /\ t < c + Spacing]
  <2>1. \A t \in A : f[t] \in W /\ f[t] <= t /\ t < f[t] + Spacing
    OBVIOUS
  <2>2. ASSUME NEW s \in A, NEW t \in A, s < t
        PROVE  f[s] # f[t]
    <3>1. s \in 0..now /\ t \in 0..now /\ t - s >= Spacing
      BY <1>1, <2>2
    <3>2. f[s] \in 0..now /\ f[t] \in 0..now /\ f[s] <= s /\ t < f[t] + Spacing
      BY <1>2, <2>1
    <3> QED
      BY <1>1, <3>1, <3>2
  <2>3. \A s, t \in A : s # t => s < t \/ t < s
    BY <1>1
  <2>4. f \in [A -> W]
    BY <2>1
  <2>5. \A s, t \in A : f[s] = f[t] => s = t
    BY <2>2, <2>3
  <2> HIDE DEF f, A
  <2>6. f \in Injection(A, W)
    BY <2>4, <2>5 DEF Injection, IsInjective
  <2> QED
    BY <1>2, <2>6, FS_Injection
<1>6. CASE S = A
  <2>1. Cardinality(A) \in Nat
    BY <1>5, FS_CardinalityType
  <2>2. Cardinality(A) <= Cardinality(W) + 1
    BY <1>2, <1>5, <2>1
  <2> HIDE DEF A
  <2> QED
    BY <1>6, <2>2
<1>7. CASE S # A
  <2>1. PICK b \in S : ~Has(b)
    BY <1>7
  <2>2. \A t \in S : t # b => Has(t)
    <3>1. ASSUME NEW t \in S, t # b, ~Has(t)
          PROVE  FALSE
      <4>1. t < b \/ b < t
        BY <1>1, <3>1
      <4> QED
        BY <1>4, <2>1, <3>1, <4>1
    <3> QED
      BY <3>1
  <2>3. A = S \ {b}
    BY <2>1, <2>2
  <2>4. Cardinality(A) = Cardinality(S) - 1
    BY <1>3, <2>3, FS_RemoveElement
  <2> QED
    BY <1>2, <1>3, <1>5, <2>4, FS_CardinalityType
<1> QED
  BY <1>6, <1>7

\* So plenty of sightings are never denied.
LEMMA CertainAllowed ==
  ASSUME NEW e \in Evidence, NEW heard, NEW now \in Nat, Digest(e, heard, now),
         NEW p \in Policy, Covered(e, heard, now, p), Authority!Certain(heard, now, p)
  PROVE  DeviceCheck(e, now, p) = Allow
<1>1. /\ p.window \in Nat /\ p.freshness \in Nat /\ p.min \in Nat /\ Spacing \in Nat \ {0}
      /\ heard \subseteq 0..now
  BY SpacingAssumption DEF Policy, Digest
<1>2. PICK S \in Authority!Backing(heard, now, p.window) : Cardinality(S) > p.min
  BY SameCardinality DEF Authority!Certain
<1>3. PICK R \in Authority!Backing(heard, now, p.freshness) : Cardinality(R) > 1
  BY SameCardinality DEF Authority!Certain
<1>4. /\ R \subseteq heard
      /\ \A t \in R : now - t <= p.freshness
      /\ \A s, t \in R : s < t => t - s >= Spacing
  BY DEF Authority!Backing, Authority!Spaced
<1>5. \E s, t \in R : s < t
  <2>1. R # {}
    BY <1>3, FS_EmptySet
  <2>2. PICK s \in R : TRUE
    BY <2>1
  <2>3. R # {s}
    <3>1. Cardinality({s}) = 1
      BY FS_Singleton
    <3> QED
      BY <1>3, <3>1
  <2>4. PICK t \in R : t # s
    BY <2>2, <2>3
  <2>5. s \in 0..now /\ t \in 0..now
    BY <1>1, <1>4
  <2> QED
    BY <2>4, <2>5
<1>6. PICK s \in R, t \in R : s < t
  BY <1>5
<1>7. e.last # Never /\ e.last \in 0..now /\ t < e.last + Spacing
  <2>1. heard # {}
    BY <1>4
  <2> QED
    BY <1>1, <1>4, <2>1 DEF Digest
<1>8. ~(Age(now, e.last) > p.freshness)
  <2>1. s \in 0..now /\ t \in 0..now /\ now - s <= p.freshness /\ t - s >= Spacing
    BY <1>1, <1>4, <1>6
  <2> QED
    BY <1>1, <1>7, <2>1 DEF Age
<1>9. ~(Cardinality(Within(now, e.samples, p.window)) < p.min)
  <2>1. Cardinality(S) \in Nat
    <3>1. S \subseteq 0..now
      BY <1>1 DEF Authority!Backing
    <3>2. IsFiniteSet(0..now)
      BY FS_Interval
    <3> QED
      BY <3>1, <3>2, FS_Subset, FS_CardinalityType
  <2>2. Cardinality(Within(now, e.samples, p.window)) \in Nat
    BY WithinFinite
  <2> QED
    BY <1>1, <1>2, <2>1, <2>2, SpacedCounted
<1> QED
  BY <1>7, <1>8, <1>9, AllowMeans

\* When the fleet grants.
LEMMA GrantIs ==
  ASSUME NEW now
  PROVE  /\ FleetCheck(now) = Allow <=>
              Device # {} /\ Cardinality(Allowed(now)) >= Required
         /\ IsFiniteSet(Allowed(now)) /\ Cardinality(Allowed(now)) \in Nat
         /\ Required \in Nat
<1>1. IsFiniteSet(Allowed(now)) /\ Cardinality(Allowed(now)) \in Nat
  BY DeviceAssumption, FS_Subset, FS_CardinalityType DEF Allowed
<1>2. Required \in Nat
  BY DeviceAssumption, RuleAssumption, FS_CardinalityType DEF Required, RuleKind
<1>3. Device # {} /\ Allowed(now) = {} => ClosestDeny(now) # Allow
  BY ClosestRanks DEF Allowed
<1>4. FleetCheck(now) = Allow <=> Device # {} /\ Cardinality(Allowed(now)) >= Required
  BY <1>3 DEF FleetCheck, Allow
<1> QED
  BY <1>1, <1>2, <1>4

\* The grant that would be given now is one the promise allows.
Right == Authority!GrantAllowed(FleetCheck(clock) = Allow, clock, sightings)

LEMMA GrantRight == Inv /\ Coverage => Right
<1> SUFFICES ASSUME Inv, Coverage PROVE Right
  OBVIOUS
<1> DEFINE J == Authority!JustifiedDevices(clock, sightings)
           C == Authority!CertainDevices(clock, sightings)
           A == Allowed(clock)
<1>1. ASSUME NEW d \in Device
      PROVE  /\ d \in A => d \in J
             /\ d \in C => d \in A
  <2>1. /\ clock \in Nat /\ evidence[d] \in Evidence /\ PolicyOf[d] \in Policy
        /\ Digest(evidence[d], sightings[d], clock)
        /\ Covered(evidence[d], sightings[d], clock, PolicyOf[d])
    BY ClockAssumption, PolicyFields DEF Inv, TypeOK, HonestEvidence, Coverage
  <2>2. d \in A => d \in J
    BY <2>1, AllowJustified DEF Allowed, Decision, Authority!JustifiedDevices
  <2>3. d \in C => d \in A
    BY <2>1, CertainAllowed DEF Allowed, Decision, Authority!CertainDevices
  <2> QED
    BY <2>2, <2>3
<1>2. A \subseteq J /\ C \subseteq A /\ J \subseteq Device
  BY <1>1 DEF Allowed, Authority!JustifiedDevices, Authority!CertainDevices
<1>3. /\ Cardinality(A) <= Cardinality(J) /\ Cardinality(C) <= Cardinality(A)
      /\ Cardinality(J) \in Nat /\ Cardinality(A) \in Nat /\ Cardinality(C) \in Nat
  <2>1. IsFiniteSet(J)
    BY <1>2, DeviceAssumption, FS_Subset
  <2>2. IsFiniteSet(A)
    BY <1>2, <2>1, FS_Subset
  <2>3. IsFiniteSet(C)
    BY <1>2, <2>2, FS_Subset
  <2> QED
    BY <1>2, <2>1, <2>2, <2>3, FS_Subset, FS_CardinalityType
<1>4. /\ Authority!Cardinality(J) = Cardinality(J)
      /\ Authority!Cardinality(C) = Cardinality(C)
  BY SameCardinality
<1>5. /\ FleetCheck(clock) = Allow => Device # {} /\ Cardinality(J) >= Required
      /\ FleetCheck(clock) # Allow => Device = {} \/ Cardinality(C) < Required
  BY <1>3, GrantIs
<1> QED
  BY <1>4, <1>5 DEF Right, Authority!GrantAllowed

\* Time passing never begins a grant.
LEMMA TickGrants ==
  ASSUME Inv, Tick PROVE (FleetCheck(clock) = Allow)' => FleetCheck(clock) = Allow
<1>1. ASSUME NEW d \in Device, DeviceCheck(evidence[d], clock + 1, PolicyOf[d]) = Allow
      PROVE  DeviceCheck(evidence[d], clock, PolicyOf[d]) = Allow
  <2> DEFINE e == evidence[d]
             p == PolicyOf[d]
             now == Within(clock, e.samples, p.window)
             later == Within(clock + 1, e.samples, p.window)
  <2>1. /\ clock \in Nat /\ e \in Evidence /\ Digest(e, sightings[d], clock)
        /\ p.window \in Nat /\ p.freshness \in Nat /\ p.min \in Nat
    BY ClockAssumption, PolicyFields DEF Inv, TypeOK, HonestEvidence
  <2>2. /\ e.last # Never
        /\ ~(Age(clock + 1, e.last) > p.freshness)
        /\ ~(Cardinality(later) < p.min)
    BY <1>1, AllowMeans
  <2>3. e.last \in 0..clock /\ e.samples \subseteq 0..clock
    BY <2>1, <2>2 DEF Digest
  <2>4. ~(Age(clock, e.last) > p.freshness)
    BY <2>1, <2>2, <2>3 DEF Age
  <2>5. later \subseteq now
    <3>1. ASSUME NEW s \in later
          PROVE  s \in now
      <4>1. s \in e.samples /\ s \in 0..clock /\ Age(clock + 1, s) <= p.window
        BY <2>3 DEF Within
      <4>2. Age(clock, s) <= p.window
        BY <2>1, <4>1 DEF Age
      <4> QED
        BY <4>1, <4>2 DEF Within
    <3> QED
      BY <3>1
  <2>6. IsFiniteSet(now) /\ Cardinality(now) \in Nat /\ Cardinality(later) \in Nat
    BY <2>1, WithinFinite
  <2>7. Cardinality(later) <= Cardinality(now)
    BY <2>5, <2>6, FS_Subset
  <2>8. ~(Cardinality(now) < p.min)
    BY <2>1, <2>2, <2>6, <2>7
  <2> QED
    BY <2>2, <2>4, <2>8, AllowMeans
<1>2. Allowed(clock + 1) \subseteq Allowed(clock)
  BY <1>1 DEF Allowed, Decision
<1>3. FleetCheck(clock)' = FleetCheck(clock + 1)
  BY DEF Tick, FleetCheck, Allowed, ClosestDeny, Decision, Required
<1>4. Cardinality(Allowed(clock + 1)) <= Cardinality(Allowed(clock))
  BY <1>2, GrantIs, FS_Subset
<1>5. /\ Cardinality(Allowed(clock + 1)) \in Nat /\ Cardinality(Allowed(clock)) \in Nat
      /\ Required \in Nat
      /\ FleetCheck(clock + 1) = Allow =>
           Device # {} /\ Cardinality(Allowed(clock + 1)) >= Required
      /\ Device # {} /\ Cardinality(Allowed(clock)) >= Required => FleetCheck(clock) = Allow
  BY GrantIs
<1> QED
  BY <1>3, <1>4, <1>5

\* A sighting never ends one.
LEMMA AdvertiseGrants ==
  ASSUME Inv, NEW reading \in [Device -> Reading], NEW rssi \in Rssi,
         Advertise(reading, rssi), \A d \in Device : reading[d] # "Revoke",
         FleetCheck(clock) = Allow
  PROVE  (FleetCheck(clock) = Allow)'
<1>1. Allowed(clock) \subseteq Allowed(clock)'
  BY AdvertiseKeeps DEF Allowed
<1>2. IsFiniteSet(Allowed(clock)') /\ Cardinality(Allowed(clock)') \in Nat
  <2>1. Allowed(clock)' \subseteq Device
    BY DEF Allowed
  <2> QED
    BY <2>1, DeviceAssumption, FS_Subset, FS_CardinalityType
<1>3. Cardinality(Allowed(clock)) <= Cardinality(Allowed(clock)')
  BY <1>1, <1>2, FS_Subset
<1>4. /\ Device # {} /\ Cardinality(Allowed(clock)) >= Required
      /\ Cardinality(Allowed(clock)) \in Nat /\ Required \in Nat
  BY GrantIs
<1>5. Cardinality(Allowed(clock)') >= Required
  BY <1>2, <1>3, <1>4
<1> QED
  BY <1>4, <1>5 DEF FleetCheck

\* Each step is one of the promise, or leaves it alone.
LEMMA PromiseStep == Inv /\ Right' /\ [Next]_vars => [Authority!ANext]_(Authority!avars)
<1> SUFFICES ASSUME Inv, Right', [Next]_vars
             PROVE  [Authority!ANext]_(Authority!avars)
  OBVIOUS
<1> DEFINE granted == FleetCheck(clock) = Allow
<1>1. /\ granted' \in BOOLEAN
      /\ Authority!GrantAllowed(granted', clock', sightings')
  BY DEF Right
<1>2. CASE Tick
  <2>1. granted' => granted
    BY <1>2, TickGrants
  <2>2. Authority!Pass
    BY <1>1, <1>2, <2>1 DEF Tick, Authority!Pass
  <2> QED
    BY <2>2 DEF Authority!ANext
<1>3. ASSUME NEW reading \in [Device -> Reading], NEW rssi \in Rssi,
             Advertise(reading, rssi)
      PROVE  Authority!ANext
  <2> DEFINE seen == {d \in Device : Strong(d, reading, rssi)}
             withdrawn == {d \in Device : reading[d] = "Revoke"}
  <2>1. withdrawn = {} /\ granted => granted'
    BY <1>3, AdvertiseGrants
  <2>2. /\ clock' = clock
        /\ sightings' = [d \in Device |->
             IF d \in withdrawn THEN {}
             ELSE IF d \in seen THEN sightings[d] \cup {clock}
             ELSE sightings[d]]
    BY <1>3 DEF Advertise
  <2> HIDE DEF seen, withdrawn
  <2>3. Authority!Hear(seen, withdrawn)
    BY <1>1, <2>1, <2>2 DEF Authority!Hear
  <2>4. seen \in SUBSET Device /\ withdrawn \in SUBSET Device
    BY DEF seen, withdrawn
  <2> QED
    BY <2>3, <2>4 DEF Authority!ANext
<1>4. CASE Invalidate
  <2>1. Device = {} => ~granted
    BY DEF FleetCheck, Allow
  <2>2. clock' = clock /\ sightings' = [d \in Device |-> {}]
    BY <1>4 DEF Invalidate
  <2>3. Authority!Hear({}, Device)
    BY <1>1, <2>1, <2>2 DEF Authority!Hear
  <2> QED
    BY <2>3 DEF Authority!ANext
<1>5. CASE UNCHANGED vars
  BY <1>5
  DEF vars, Authority!avars, FleetCheck, Allowed, ClosestDeny, Decision, Required
<1> QED
  BY <1>2, <1>3, <1>4, <1>5 DEF Next

(***************************************************************************)
(* The fleet, with its pruned and collapsed records, implements what       *)
(* PresenceAuthority promises of the full history of sightings: it grants  *)
(* on enough recent ones only, denies only while they are not plentiful,   *)
(* and neither silence begins a grant nor a sighting ends one.             *)
(***************************************************************************)
THEOREM FleetKeepsPromise == Spec => KeepsPromise
<1>1. Init => Coverage /\ Authority!AInit
  <2> SUFFICES ASSUME Init PROVE Coverage /\ Authority!AInit
    OBVIOUS
  <2>1. Coverage
    BY DEF Init, Coverage, Covered, NoEvidence
  <2>2. \A d \in Device : d \notin Allowed(clock)
    BY AllowMeans DEF Init, NoEvidence, Allowed, Decision
  <2>3. FleetCheck(clock) # Allow
    <3>1. Device = {} => FleetCheck(clock) # Allow
      BY DEF FleetCheck, Allow
    <3>2. Allowed(clock) = {}
      BY <2>2 DEF Allowed
    <3>3. Device # {} => Required > 0
      <4>1. Device # {} => Cardinality(Device) \in Nat /\ Cardinality(Device) # 0
        BY DeviceAssumption, FS_CardinalityType, FS_EmptySet
      <4> QED
        BY <4>1, RuleAssumption DEF Required, RuleKind
    <3>4. Cardinality(Allowed(clock)) = 0
      BY <3>2, FS_EmptySet
    <3> QED
      BY <3>1, <3>3, <3>4, GrantIs
  <2> QED
    BY <2>1, <2>3 DEF Init, Authority!AInit
<1> QED
  BY <1>1, InvInit, InvStep, CoverageStep, GrantRight, PromiseStep, PTL
  DEF Spec, KeepsPromise, Authority!ASpec

=============================================================================
