------------------------- MODULE PresenceAuthority -------------------------
(***************************************************************************)
(* What the presence policy promises, with none of how it keeps it: an     *)
(* unlock is granted on sightings of enough devices, heard recently and    *)
(* since they last revoked, and on nothing else.  Module Fleet, which      *)
(* keeps a pruned and collapsed record of the sightings, implements this   *)
(* specification.                                                          *)
(*                                                                         *)
(* A grant needs every sighting that backs it; a denial is allowed only    *)
(* while the sightings are not plentiful.  Between the two bounds the      *)
(* implementation is free: collapsing the duplicates of one advertisement  *)
(* may cost it one sighting at the edge of the window.                     *)
(***************************************************************************)
EXTENDS Integers, FiniteSets

CONSTANTS
  Device,       \* enrolled devices
  PolicyOf,     \* [Device -> a record with min, window and freshness]
  Required,     \* devices that must be present together
  Spacing,      \* sightings closer than this are one advertisement
  MaxClock      \* bound on the clock

VARIABLES
  clock,
  sightings,    \* [Device -> the moments it was heard since it last revoked]
  granted       \* would an unlock be granted now?

avars == <<clock, sightings, granted>>

Spaced(times) ==
  \A s, t \in times : s < t => t - s >= Spacing

Backing(times, now, span) ==
  {S \in SUBSET {t \in times : now - t <= span} : Spaced(S)}

\* Enough distinct advertisements inside the window, the newest fresh.
Justified(times, now, p) ==
  \E S \in Backing(times, now, p.window) :
    /\ Cardinality(S) >= p.min
    /\ \E s \in S : now - s <= p.freshness

\* So many that collapsing duplicates cannot lose them.
Certain(times, now, p) ==
  /\ \E S \in Backing(times, now, p.window) : Cardinality(S) > p.min
  /\ \E S \in Backing(times, now, p.freshness) : Cardinality(S) > 1

JustifiedDevices(now, heard) ==
  {d \in Device : Justified(heard[d], now, PolicyOf[d])}

CertainDevices(now, heard) ==
  {d \in Device : Certain(heard[d], now, PolicyOf[d])}

\* The grants that are right at a moment, given what was heard.
GrantAllowed(grant, now, heard) ==
  /\ grant =>
       /\ Device # {}
       /\ Cardinality(JustifiedDevices(now, heard)) >= Required
  /\ ~grant =>
       \/ Device = {}
       \/ Cardinality(CertainDevices(now, heard)) < Required

AInit ==
  /\ clock = 0
  /\ sightings = [d \in Device |-> {}]
  /\ granted = FALSE

\* Silence can only end a grant, never begin one.
Pass ==
  /\ clock < MaxClock
  /\ clock' = clock + 1
  /\ UNCHANGED sightings
  /\ granted' \in {g \in BOOLEAN : g => granted}
  /\ GrantAllowed(granted', clock', sightings')

\* Devices are sighted, or withdraw.  A grant ends only if one withdraws.
Hear(seen, withdrawn) ==
  /\ sightings' = [d \in Device |->
       IF d \in withdrawn THEN {}
       ELSE IF d \in seen THEN sightings[d] \cup {clock}
       ELSE sightings[d]]
  /\ UNCHANGED clock
  /\ granted' \in {g \in BOOLEAN : withdrawn = {} /\ granted => g}
  /\ GrantAllowed(granted', clock', sightings')

ANext ==
  \/ Pass
  \/ \E seen, withdrawn \in SUBSET Device : Hear(seen, withdrawn)

ASpec == AInit /\ [][ANext]_avars
=============================================================================
