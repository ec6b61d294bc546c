------------------------ MODULE DeviceConfig_proofs ------------------------
(***************************************************************************)
(* Proofs about module DeviceConfig, for any number of commands, names and *)
(* keys, wherever the commands die and whatever an editor does.            *)
(***************************************************************************)
EXTENDS DeviceConfig, FiniteSetTheorems, WellFoundedInduction, TLAPS

\* How many keys there are is a number above zero.
LEMMA KeyCount == Cardinality(Key) \in Nat \ {0}
  BY KeyAssumption, FS_CardinalityType, FS_EmptySet

-----------------------------------------------------------------------------
(***************************************************************************)
(* The id of a new device.  In a file whose devices have a key and an id   *)
(* each, one of as many suffixes as there are keys, and one more, is free. *)
(***************************************************************************)
Distinct(config) ==
  \A d, e \in config.devices : d # e => d.id # e.id /\ d.key # e.key

LEMMA SomeSuffixIsFree ==
  ASSUME NEW config \in Config, Distinct(config), NEW name \in Name
  PROVE  \E n \in 1..(Cardinality(Key) + 1) : <<name, n>> \notin Ids(config)
<1> DEFINE N == 1..(Cardinality(Key) + 1)
           Holder(n) == CHOOSE d \in config.devices : d.id = <<name, n>>
           f == [n \in N |-> Holder(n).key]
<1>1. SUFFICES ASSUME \A n \in N : <<name, n>> \in Ids(config) PROVE FALSE
  OBVIOUS
<1>2. \A n \in N : Holder(n) \in config.devices /\ Holder(n).id = <<name, n>>
  BY <1>1 DEF Ids
<1> HIDE DEF Holder
<1>3. \A d \in config.devices : d.key \in Key
  BY DEF Config, Device
<1>4. f \in [N -> Key]
  BY <1>2, <1>3
<1>5. \A m, n \in N : f[m] = f[n] => m = n
  <2>1. SUFFICES ASSUME NEW m \in N, NEW n \in N, f[m] = f[n] PROVE m = n
    OBVIOUS
  <2>2. Holder(m).key = Holder(n).key
    BY <2>1
  <2>3. Holder(m) = Holder(n)
    BY <2>2, <1>2 DEF Distinct
  <2>4. <<name, m>> = <<name, n>>
    BY <2>3, <1>2
  <2> QED
    BY <2>4
<1>6. IsFiniteSet(N)
  BY KeyCount, FS_Interval
<1>7. Cardinality(N) = Cardinality(Key) + 1
  BY KeyCount, FS_Interval
<1> HIDE DEF f, N
<1>8. Cardinality(Key) < Cardinality(N)
  BY <1>7, KeyCount
<1> QED
  BY <1>4, <1>5, <1>6, <1>8, KeyAssumption, FS_PigeonHole

LEMMA DerivedIdType ==
  ASSUME NEW config \in Config, Distinct(config), NEW name \in Name
  PROVE  DerivedId(config, name) \in Id
<1> DEFINE N == 1..(Cardinality(Key) + 1)
           T == {n \in N : <<name, n>> \notin Ids(config)}
<1>1. T \subseteq Nat /\ T # {}
  <2>1. PICK n \in N : <<name, n>> \notin Ids(config)
    BY SomeSuffixIsFree
  <2>2. n \in T
    BY <2>1
  <2>3. N \subseteq Nat
    BY KeyCount
  <2> QED
    BY <2>2, <2>3
<1>2. \E n \in T : \A m \in T : ~(m < n)
  <2>1. \E n \in T : \A m \in T : <<m, n>> \notin OpToRel(<, Nat)
    BY <1>1, NatLessThanWellFounded, WFMin
  <2> QED
    BY <2>1, <1>1 DEF OpToRel
<1>3. \E n \in N : /\ <<name, n>> \notin Ids(config)
                   /\ \A m \in 1..(n - 1) : ~(<<name, m>> \notin Ids(config))
  BY <1>2, KeyCount
<1> QED
  BY <1>3 DEF DerivedId, Id

-----------------------------------------------------------------------------
(***************************************************************************)
(* Edits.  What an edit makes of a configuration is refused, or it is a    *)
(* configuration that enrolls nobody or that the daemon can run on.        *)
(***************************************************************************)
Usable(config) == config.devices = {} \/ Resolves(config)

\* The fields an operation has, by its kind.
LEMMA OpFields ==
  ASSUME NEW o \in Op
  PROVE  /\ o.kind \in {"enroll", "add", "remove", "tune", "rule"}
         /\ o.kind = "enroll" => o.name \in Name /\ o.key \in Key
         /\ o.kind = "add" => o.id \in Id /\ o.key \in Key
         /\ o.kind \in {"remove", "tune"} => o.id \in Id
         /\ o.kind = "rule" => o.required \in 1..Cardinality(Key)
  BY DEF Op

LEMMA RefusedIsNone == Refused \notin Config
  BY KeyCount DEF Refused, Config

LEMMA WithoutType ==
  ASSUME NEW config \in Config, NEW i
  PROVE  /\ Without(config, i) \in Config
         /\ Distinct(config) => Distinct(Without(config, i))
  BY DEF Without, Config, Distinct

LEMMA CheckedOutcome ==
  ASSUME NEW config \in Config
  PROVE  LET e == Checked(config)
         IN  e = Refused \/ (e \in Config /\ Resolves(e))
  BY DEF Checked

LEMMA EditedOutcome ==
  ASSUME NEW config \in Config, NEW o \in Op, NEW i \in Id
  PROVE  LET e == Edited(config, o, i)
         IN  e = Refused \/ (e \in Config /\ Usable(e))
<1>1. CASE o.kind \in {"enroll", "add"}
  <2>1. Enrolled(config, i, o.key) \in Config
    <3>1. [id |-> i, key |-> o.key, tuned |-> FALSE] \in Device
      BY <1>1, OpFields DEF Device
    <3> QED
      BY <3>1 DEF Enrolled, Config
  <2>2. Edited(config, o, i) = Checked(Enrolled(config, i, o.key))
    BY <1>1 DEF Edited
  <2> QED
    BY <2>1, <2>2, CheckedOutcome DEF Usable
<1>2. CASE o.kind = "tune" /\ o.id \in Ids(config)
  <2>1. Tuned(config, o.id) \in Config
    <3>1. \A d \in Device : [d EXCEPT !.tuned = TRUE] \in Device
      BY DEF Device
    <3> QED
      BY <3>1 DEF Tuned, Config
  <2>2. Edited(config, o, i) = Checked(Tuned(config, o.id))
    BY <1>2 DEF Edited
  <2> QED
    BY <2>1, <2>2, CheckedOutcome DEF Usable
<1>3. CASE o.kind = "rule"
  <2>1. [config EXCEPT !.required = o.required] \in Config
    BY <1>3, OpFields DEF Config
  <2>2. Edited(config, o, i) = Checked([config EXCEPT !.required = o.required])
    BY <1>3 DEF Edited
  <2> QED
    BY <2>1, <2>2, CheckedOutcome DEF Usable
<1>4. CASE o.kind = "remove" /\ o.id \in Ids(config)
  <2>1. Without(config, o.id) \in Config
    BY WithoutType
  <2>2. Edited(config, o, i) =
          IF Without(config, o.id).devices = {} THEN Without(config, o.id)
          ELSE Checked(Without(config, o.id))
    BY <1>4 DEF Edited
  <2> QED
    BY <2>1, <2>2, CheckedOutcome DEF Usable
<1>5. CASE o.kind \in {"tune", "remove"} /\ o.id \notin Ids(config)
  <2>1. Edited(config, o, i) = Refused
    BY <1>5 DEF Edited
  <2> QED
    BY <2>1
<1> QED
  BY <1>1, <1>2, <1>3, <1>4, <1>5, OpFields

LEMMA UsableIsDistinct == ASSUME NEW config, Usable(config) PROVE Distinct(config)
  BY DEF Usable, Resolves, Distinct

-----------------------------------------------------------------------------
(***************************************************************************)
(* The bound on files: those that exist and those under way.               *)
(***************************************************************************)
UnderWay == {w \in Writer : pc[w] \in Unsaved}

LEMMA Recount ==
  ASSUME NEW w \in Writer, NEW label, pc \in [Writer -> {"idle"} \cup Busy],
         pc' = [pc EXCEPT ![w] = label]
  PROVE  /\ Cardinality(UnderWay) \in Nat /\ Cardinality(UnderWay') \in Nat
         /\ label \in Unsaved /\ pc[w] \notin Unsaved
              => Cardinality(UnderWay') = Cardinality(UnderWay) + 1
         /\ label \in Unsaved /\ pc[w] \in Unsaved
              => Cardinality(UnderWay') = Cardinality(UnderWay)
         /\ label \notin Unsaved /\ pc[w] \in Unsaved
              => Cardinality(UnderWay') = Cardinality(UnderWay) - 1
         /\ label \notin Unsaved /\ pc[w] \notin Unsaved
              => Cardinality(UnderWay') = Cardinality(UnderWay)
<1>1. IsFiniteSet(UnderWay)
  BY WriterAssumption, FS_Subset DEF UnderWay
<1>2. UnderWay' = IF label \in Unsaved THEN UnderWay \cup {w} ELSE UnderWay \ {w}
  BY DEF UnderWay
<1>3. w \in UnderWay <=> pc[w] \in Unsaved
  BY DEF UnderWay
<1> QED
  BY <1>1, <1>2, <1>3, FS_CardinalityType, FS_AddElement, FS_RemoveElement

-----------------------------------------------------------------------------
(***************************************************************************)
(* The inductive invariant.  Beyond the types: there is room for what is   *)
(* under way; the file's devices differ; what a writer will write is its   *)
(* edit of what it read, and what it read is still there when it renames,  *)
(* unless an editor came between; nothing is ahead of the file; and a      *)
(* command reports when it is over.                                        *)
(***************************************************************************)
Bounded == file.version + Cardinality(UnderWay) <= MaxFiles

Planned(w) ==
  /\ pc[w] \in {"identify", "derive"} => op[w].kind = "enroll"
  /\ pc[w] \in {"verify", "rename"} =>
       /\ rendered[w] = Edited(before[w].config, op[w], id[w])
       /\ Usable(rendered[w])
  /\ pc[w] = "rename" /\ ~raced => before[w] = file
  /\ pc[w] # "idle" => result[w] = "none"
  /\ written[w] <= file.version

Inv ==
  /\ TypeOK
  /\ Bounded
  /\ Distinct(file.config)
  /\ daemon.version <= file.version
  /\ \A w \in Writer : Planned(w)

\* What an idle writer holds, and a stopped daemon.
LEMMA Idle ==
  /\ SomeId \in Id
  /\ [kind |-> "remove", id |-> SomeId] \in Op
  /\ Empty \in Config
  /\ Missing \in [version : 0..MaxFiles, config : Config]
  /\ Stopped \in [version : -1..MaxFiles, config : Config]
<1>1. SomeId \in Id
  <2>1. PICK n \in Name : TRUE
    BY NameAssumption
  <2>2. <<n, 1>> \in Id
    BY <2>1, KeyCount DEF Id
  <2> QED
    BY <2>2 DEF SomeId
<1>2. Empty \in Config
  BY KeyCount DEF Empty, Config
<1> QED
  BY <1>1, <1>2, BoundAssumption DEF Op, Missing, Stopped

LEMMA LoadedType ==
  ASSUME TypeOK
  PROVE  /\ Loaded \in [version : -1..MaxFiles, config : Config]
         /\ Loaded = file \/ Loaded = Stopped
  BY Idle, BoundAssumption DEF Loaded, TypeOK

(***************************************************************************)
(* A command that is over leaves the types, the lock to others, and the    *)
(* plans of others as they are.                                            *)
(***************************************************************************)
LEMMA ReportType ==
  ASSUME TypeOK, NEW w \in Writer, NEW outcome \in {"saved", "ok", "error"},
         Report(w, outcome)
  PROVE  /\ lock' \in Writer \cup {Nobody}
         /\ pc' \in [Writer -> {"idle"} \cup Busy]
         /\ \A x \in Writer : lock' = x <=> pc'[x] \in Locked
         /\ op' \in [Writer -> Op]
         /\ id' \in [Writer -> Id]
         /\ before' \in [Writer -> [version : 0..MaxFiles, config : Config]]
         /\ rendered' \in [Writer -> Config]
         /\ result' \in [Writer -> {"none", "saved", "ok", "error"}]
<1> USE DEF TypeOK, Report, Goto
<1>1. pc' \in [Writer -> {"idle"} \cup Busy]
  OBVIOUS
<1>2. \A x \in Writer : lock' = x <=> pc'[x] \in Locked
  BY NobodyAssumption DEF Locked
<1>3. /\ op' \in [Writer -> Op] /\ id' \in [Writer -> Id]
      /\ before' \in [Writer -> [version : 0..MaxFiles, config : Config]]
      /\ rendered' \in [Writer -> Config]
  BY Idle
<1> QED
  BY <1>1, <1>2, <1>3

LEMMA ReportPlans ==
  ASSUME Inv, NEW w \in Writer, NEW outcome \in {"saved", "ok", "error"},
         Report(w, outcome),
         file'.version >= file.version,
         written' \in [Writer -> 0..MaxFiles], written'[w] <= file'.version,
         \A x \in Writer \ {w} : written'[x] = written[x],
         file'.version \in Nat,
         \A x \in Writer \ {w} : pc[x] = "rename" /\ ~raced' => ~raced /\ file' = file
  PROVE  \A x \in Writer : Planned(x)'
<1>1. SUFFICES ASSUME NEW x \in Writer PROVE Planned(x)'
  OBVIOUS
<1>2. CASE x = w
  <2>1. pc'[x] = "idle"
    BY <1>2 DEF Report, Goto, Inv, TypeOK
  <2> QED
    BY <1>2, <2>1 DEF Planned
<1>3. CASE x # w
  <2>1. /\ pc'[x] = pc[x] /\ result'[x] = result[x] /\ rendered'[x] = rendered[x]
        /\ before'[x] = before[x] /\ op'[x] = op[x] /\ id'[x] = id[x]
        /\ written'[x] = written[x]
    BY <1>3 DEF Report, Goto, Inv, TypeOK
  <2>2. written[x] \in Nat /\ file.version \in Nat
    BY DEF Inv, TypeOK
  <2> QED
    BY <1>3, <2>1, <2>2 DEF Planned, Inv
<1> QED
  BY <1>2, <1>3

LEMMA ReportBounded ==
  ASSUME Inv, NEW w \in Writer, NEW outcome, Report(w, outcome), UNCHANGED file
  PROVE  Bounded'
<1>1. pc \in [Writer -> {"idle"} \cup Busy] /\ pc' = [pc EXCEPT ![w] = "idle"]
  BY DEF Inv, TypeOK, Report, Goto
<1>2. "idle" \notin Unsaved
  BY DEF Unsaved
<1>3. /\ Cardinality(UnderWay) \in Nat /\ Cardinality(UnderWay') \in Nat
      /\ \/ Cardinality(UnderWay') = Cardinality(UnderWay)
         \/ Cardinality(UnderWay') = Cardinality(UnderWay) - 1
  BY <1>1, <1>2, Recount
<1> QED
  BY <1>3, BoundAssumption DEF Inv, TypeOK, Bounded

(***************************************************************************)
(* A step of one command that does not end it and leaves the file alone.   *)
(***************************************************************************)
LEMMA GotoBounded ==
  ASSUME Inv, NEW w \in Writer, NEW label, Goto(w, label), UNCHANGED file,
         pc[w] \in Unsaved \/ label \notin Unsaved
  PROVE  Bounded'
<1>1. pc \in [Writer -> {"idle"} \cup Busy] /\ pc' = [pc EXCEPT ![w] = label]
  BY DEF Inv, TypeOK, Goto
<1>2. /\ Cardinality(UnderWay) \in Nat /\ Cardinality(UnderWay') \in Nat
      /\ \/ Cardinality(UnderWay') = Cardinality(UnderWay)
         \/ Cardinality(UnderWay') = Cardinality(UnderWay) - 1
  BY <1>1, Recount
<1> QED
  BY <1>2, BoundAssumption DEF Inv, TypeOK, Bounded

LEMMA NextBegin ==
  ASSUME Inv, NEW w \in Writer, NEW o \in Op, Begin(w, o)
  PROVE  Inv'
<1>1. TypeOK'
  <2>1. (IF o.kind \in {"add", "remove", "tune"} THEN o.id ELSE SomeId) \in Id
    BY OpFields, Idle
  <2>2. \A x \in Writer : lock' = x <=> pc'[x] \in Locked
    BY DEF Begin, Goto, Inv, TypeOK, Locked, Busy, Unsaved
  <2> QED
    BY <2>1, <2>2, BoundAssumption
    DEF Begin, Goto, history, Inv, TypeOK, Busy, Unsaved
<1>2. Bounded'
  <2>1. /\ pc \in [Writer -> {"idle"} \cup Busy] /\ pc[w] \notin Unsaved
        /\ \E label \in Unsaved : pc' = [pc EXCEPT ![w] = label]
    BY DEF Begin, Goto, Inv, TypeOK, Unsaved
  <2>2. /\ Cardinality(UnderWay) \in Nat
        /\ Cardinality(UnderWay') = Cardinality(UnderWay) + 1
    BY <2>1, Recount
  <2>3. file.version + Cardinality(UnderWay) < MaxFiles
    BY DEF Begin, Room, UnderWay
  <2> QED
    BY <2>2, <2>3, BoundAssumption DEF Begin, Bounded, Inv, TypeOK
<1>3. Distinct(file.config)' /\ (daemon.version <= file.version)'
  BY DEF Begin, Inv, Distinct
<1>4. \A x \in Writer : Planned(x)'
  BY DEF Begin, Goto, history, Inv, TypeOK, Planned
<1> QED
  BY <1>1, <1>2, <1>3, <1>4 DEF Inv

LEMMA NextIdentify ==
  ASSUME Inv, NEW w \in Writer, Identify(w) \/ Derive(w)
  PROVE  Inv'
<1>1. /\ UNCHANGED <<file, lock, op, before, rendered, written, result, daemon, history>>
      /\ \E label \in {"lock", "derive"} : Goto(w, label)
      /\ pc[w] \in {"identify", "derive"}
  BY DEF Identify, Derive
<1>2. id' \in [Writer -> Id] /\ \A x \in Writer \ {w} : id'[x] = id[x]
  <2>1. op[w].name \in Name
    BY <1>1, OpFields DEF Inv, TypeOK, Planned
  <2>2. CASE Identify(w)
    BY <2>2 DEF Identify, Inv, TypeOK, Config, Device
  <2>3. CASE Derive(w)
    <3>1. DerivedId(file.config, op[w].name) \in Id
      BY <2>1, DerivedIdType DEF Inv, TypeOK
    <3> QED
      BY <2>3, <3>1 DEF Derive, Inv, TypeOK
  <2> QED
    BY <1>1, <2>2, <2>3
<1>3. TypeOK'
  <2>1. \A x \in Writer : lock' = x <=> pc'[x] \in Locked
    BY <1>1 DEF Goto, Inv, TypeOK, Locked, Busy, Unsaved
  <2> QED
    BY <1>1, <1>2, <2>1 DEF Goto, history, Inv, TypeOK, Busy, Unsaved
<1>4. Bounded'
  BY <1>1, GotoBounded DEF Unsaved
<1>5. Distinct(file.config)' /\ (daemon.version <= file.version)'
  BY <1>1 DEF Inv, Distinct
<1>6. \A x \in Writer : Planned(x)'
  BY <1>1, <1>2 DEF Goto, history, Inv, TypeOK, Planned
<1> QED
  BY <1>3, <1>4, <1>5, <1>6 DEF Inv

LEMMA NextLock ==
  ASSUME Inv, NEW w \in Writer, Lock(w)
  PROVE  Inv'
<1>1. TypeOK'
  <2>1. \A x \in Writer : lock' = x <=> pc'[x] \in Locked
    BY NobodyAssumption DEF Lock, Goto, Inv, TypeOK, Locked
  <2> QED
    BY <2>1 DEF Lock, Goto, plan, history, Inv, TypeOK, Busy, Unsaved
<1>2. Bounded'
  BY GotoBounded DEF Lock, Unsaved
<1>3. Distinct(file.config)' /\ (daemon.version <= file.version)'
  BY DEF Lock, Inv, Distinct
<1>4. \A x \in Writer : Planned(x)'
  BY DEF Lock, Goto, plan, history, Inv, TypeOK, Planned
<1> QED
  BY <1>1, <1>2, <1>3, <1>4 DEF Inv

\* The edit: refused, void, or planned.
LEMMA NextRead ==
  ASSUME Inv, NEW w \in Writer, Read(w)
  PROVE  Inv'
<1> DEFINE edited == Edited(file.config, op[w], id[w])
<1>1. /\ UNCHANGED <<file, daemon, history>> /\ pc[w] = "read"
      /\ edited = Refused \/ (edited \in Config /\ Usable(edited))
  BY EditedOutcome DEF Read, Inv, TypeOK
<1>2. Distinct(file.config)' /\ (daemon.version <= file.version)'
  BY <1>1 DEF Inv, Distinct
<1>3. CASE Report(w, "error") /\ UNCHANGED written
  <2>1. TypeOK'
    BY <1>1, <1>3, ReportType DEF history, Inv, TypeOK
  <2>2. Bounded'
    BY <1>1, <1>3, ReportBounded
  <2>3. \A x \in Writer : Planned(x)'
    BY <1>1, <1>3, ReportPlans DEF history, Inv, TypeOK, Planned
  <2> QED
    BY <1>2, <2>1, <2>2, <2>3 DEF Inv
<1>4. CASE /\ Goto(w, "apply") /\ lock' = Nobody
           /\ written' = [written EXCEPT ![w] = file.version]
           /\ UNCHANGED <<op, id, before, rendered, result>>
  <2>1. TypeOK'
    <3>1. \A x \in Writer : lock' = x <=> pc'[x] \in Locked
      BY <1>1, <1>4, NobodyAssumption DEF Goto, Inv, TypeOK, Locked
    <3> QED
      BY <1>1, <1>4, <3>1 DEF Goto, history, Inv, TypeOK, Busy, Unsaved
  <2>2. Bounded'
    BY <1>1, <1>4, GotoBounded DEF Unsaved
  <2>3. \A x \in Writer : Planned(x)'
    BY <1>1, <1>4 DEF Goto, history, Inv, TypeOK, Planned
  <2> QED
    BY <1>2, <2>1, <2>2, <2>3 DEF Inv
<1>5. CASE /\ edited \notin {Refused, file.config}
           /\ before' = [before EXCEPT ![w] = file]
           /\ rendered' = [rendered EXCEPT ![w] = edited]
           /\ Goto(w, "verify")
           /\ UNCHANGED <<lock, op, id, written, result>>
  <2>1. edited \in Config /\ Usable(edited)
    BY <1>1, <1>5
  <2> HIDE DEF edited
  <2>2. TypeOK'
    <3>1. \A x \in Writer : lock' = x <=> pc'[x] \in Locked
      BY <1>1, <1>5 DEF Goto, Inv, TypeOK, Locked
    <3> QED
      BY <1>1, <1>5, <2>1, <3>1 DEF Goto, history, Inv, TypeOK, Busy, Unsaved
  <2>3. Bounded'
    BY <1>1, <1>5, GotoBounded DEF Unsaved
  <2>4. \A x \in Writer : Planned(x)'
    <3>1. SUFFICES ASSUME NEW x \in Writer PROVE Planned(x)'
      OBVIOUS
    <3>2. CASE x = w
      <4>1. /\ pc'[w] = "verify" /\ rendered'[w] = edited
            /\ before'[w] = file /\ UNCHANGED <<op, id, result, written>>
        BY <1>5 DEF Goto, Inv, TypeOK
      <4>2. edited = Edited(before'[w].config, op'[w], id'[w])
        BY <4>1 DEF edited
      <4> QED
        BY <1>1, <2>1, <3>2, <4>1, <4>2 DEF Planned, Inv
    <3>3. CASE x # w
      BY <1>1, <1>5, <3>3 DEF Goto, history, Inv, TypeOK, Planned
    <3> QED
      BY <3>2, <3>3
  <2> QED
    BY <1>2, <2>2, <2>3, <2>4 DEF Inv
<1> QED
  BY <1>3, <1>4, <1>5 DEF Read

\* A command that ends and leaves the file, and the daemon, as they are.
LEMMA NextReport ==
  ASSUME Inv, NEW w \in Writer, NEW outcome \in {"saved", "ok", "error"},
         Report(w, outcome), UNCHANGED <<file, written, history>>,
         daemon' \in {daemon, Loaded, Stopped}
  PROVE  Inv'
<1>1. TypeOK'
  <2>1. daemon' \in [version : -1..MaxFiles, config : Config]
    BY LoadedType, Idle DEF Inv, TypeOK
  <2> QED
    BY <2>1, ReportType DEF history, Inv, TypeOK
<1>2. Bounded'
  BY ReportBounded
<1>3. Distinct(file.config)'
  BY DEF Inv, Distinct
<1>4. (daemon.version <= file.version)'
  BY LoadedType DEF Inv, TypeOK, Stopped
<1>5. \A x \in Writer : Planned(x)'
  BY ReportPlans DEF history, Inv, TypeOK, Planned
<1> QED
  BY <1>1, <1>2, <1>3, <1>4, <1>5 DEF Inv

LEMMA NextVerify ==
  ASSUME Inv, NEW w \in Writer, Verify(w)
  PROVE  Inv'
<1>1. CASE file = before[w]
  <2>1. /\ pc[w] = "verify" /\ Goto(w, "rename")
        /\ UNCHANGED <<file, lock, plan, result, daemon, history>>
    BY <1>1 DEF Verify
  <2>2. TypeOK'
    <3>1. \A x \in Writer : lock' = x <=> pc'[x] \in Locked
      BY <2>1 DEF Goto, Inv, TypeOK, Locked
    <3> QED
      BY <2>1, <3>1 DEF Goto, plan, history, Inv, TypeOK, Busy, Unsaved
  <2>3. Bounded'
    BY <2>1, GotoBounded DEF Unsaved
  <2>4. Distinct(file.config)' /\ (daemon.version <= file.version)'
    BY <2>1 DEF Inv, Distinct
  <2>5. \A x \in Writer : Planned(x)'
    BY <1>1, <2>1 DEF Goto, plan, history, Inv, TypeOK, Planned
  <2> QED
    BY <2>2, <2>3, <2>4, <2>5 DEF Inv
<1>2. CASE file # before[w]
  BY <1>2, NextReport DEF Verify
<1> QED
  BY <1>1, <1>2

\* Only the lock's holder renames, so nobody else's plan is overtaken.
LEMMA NextRename ==
  ASSUME Inv, NEW w \in Writer, Rename(w)
  PROVE  Inv'
<1>1. /\ pc[w] = "rename" /\ Usable(rendered[w]) /\ rendered[w] \in Config
      /\ file' = [version |-> file.version + 1, config |-> rendered[w]]
      /\ UNCHANGED <<daemon, edits, raced>>
  BY DEF Rename, Inv, TypeOK, Planned
<1>2. \A x \in Writer \ {w} : pc[x] # "rename"
  BY <1>1 DEF Inv, TypeOK, Locked
<1>3. file.version \in Nat /\ file.version + Cardinality(UnderWay) <= MaxFiles
  BY DEF Inv, TypeOK, Bounded
<1>4. \E label \in {"idle", "apply"} : pc' = [pc EXCEPT ![w] = label]
  BY DEF Rename, Report, Goto
<1>5. /\ Cardinality(UnderWay) \in Nat /\ Cardinality(UnderWay') \in Nat
      /\ Cardinality(UnderWay') = Cardinality(UnderWay) - 1
  <2>1. pc[w] \in Unsaved /\ {"idle", "apply"} \cap Unsaved = {}
    BY <1>1 DEF Unsaved
  <2>2. pc \in [Writer -> {"idle"} \cup Busy]
    BY DEF Inv, TypeOK
  <2> QED
    BY <1>4, <2>1, <2>2, Recount
<1>6. Bounded' /\ file.version + 1 \in 0..MaxFiles
  BY <1>1, <1>3, <1>5, BoundAssumption DEF Bounded
<1>7. /\ Distinct(file.config)' /\ (daemon.version <= file.version)'
      /\ file' \in [version : 0..MaxFiles, config : Config]
  <2>1. Distinct(rendered[w])
    BY <1>1, UsableIsDistinct
  <2>2. file'.config = rendered[w] /\ file'.version = file.version + 1
    BY <1>1
  <2> QED
    BY <1>1, <1>3, <1>6, <2>1, <2>2 DEF Inv, TypeOK, Distinct
<1>8. serial' \in Config
  <2>1. serial \in Config /\ op[w] \in Op /\ id[w] \in Id
    BY DEF Inv, TypeOK
  <2> QED
    BY <2>1, EditedOutcome DEF Rename
<1>9. CASE /\ Goto(w, "apply") /\ lock' = Nobody
           /\ written' = [written EXCEPT ![w] = file.version + 1]
           /\ UNCHANGED <<op, id, before, rendered, result>>
  <2>1. TypeOK'
    <3>1. \A x \in Writer : lock' = x <=> pc'[x] \in Locked
      BY <1>1, <1>9, NobodyAssumption DEF Goto, Inv, TypeOK, Locked
    <3> QED
      BY <1>1, <1>6, <1>7, <1>8, <1>9, <3>1 DEF Goto, Inv, TypeOK, Busy, Unsaved
  <2>2. \A x \in Writer : Planned(x)'
    <3>1. SUFFICES ASSUME NEW x \in Writer PROVE Planned(x)'
      OBVIOUS
    <3>2. CASE x = w
      BY <1>1, <1>3, <1>9, <3>2 DEF Goto, Inv, TypeOK, Planned
    <3>3. CASE x # w
      <4>1. written'[x] = written[x] /\ written[x] \in Nat /\ pc'[x] = pc[x]
        BY <1>9, <3>3 DEF Goto, Inv, TypeOK
      <4> QED
        BY <1>1, <1>2, <1>3, <1>9, <3>3, <4>1 DEF Goto, Inv, TypeOK, Planned
    <3> QED
      BY <3>2, <3>3
  <2> QED
    BY <1>6, <1>7, <2>1, <2>2 DEF Inv
<1>10. CASE Report(w, "error") /\ UNCHANGED written
  <2>1. TypeOK'
    BY <1>1, <1>7, <1>8, <1>10, ReportType DEF Inv, TypeOK
  <2>2. file'.version = file.version + 1
    BY <1>1
  <2>3. written \in [Writer -> 0..MaxFiles] /\ written[w] <= file'.version
    BY <1>3, <2>2 DEF Inv, TypeOK, Planned
  <2>4. \A x \in Writer : Planned(x)'
    BY <1>2, <1>3, <1>10, <2>2, <2>3, ReportPlans
  <2> QED
    BY <1>6, <1>7, <2>1, <2>4 DEF Inv
<1> QED
  BY <1>9, <1>10 DEF Rename

\* An editor's file comes from the one that was there.
LEMMA NextHandEdit ==
  ASSUME Inv, HandEdit
  PROVE  Inv'
<1>1. PICK i : /\ file' = [version |-> file.version + 1, config |-> Without(file.config, i)]
               /\ serial' = Without(file.config, i)
  BY DEF HandEdit
<1>2. file.version \in Nat /\ Cardinality(UnderWay) \in Nat
  <2>1. IsFiniteSet(UnderWay)
    BY WriterAssumption, FS_Subset DEF UnderWay
  <2> QED
    BY <2>1, FS_CardinalityType DEF Inv, TypeOK
<1>3. file.version + 1 \in 0..MaxFiles /\ file.version + 1 + Cardinality(UnderWay) <= MaxFiles
  <2>1. file.version + Cardinality(UnderWay) < MaxFiles
    BY DEF HandEdit, Room, UnderWay
  <2> QED
    BY <1>2, <2>1, BoundAssumption
<1>4. /\ Without(file.config, i) \in Config /\ Distinct(Without(file.config, i))
  BY WithoutType DEF Inv, TypeOK
<1>5. /\ file' \in [version : 0..MaxFiles, config : Config]
      /\ file'.version = file.version + 1 /\ Distinct(file'.config)
  BY <1>1, <1>3, <1>4
<1>6. TypeOK'
  BY <1>1, <1>4, <1>5, BoundAssumption DEF HandEdit, plan, Inv, TypeOK
<1>7. Bounded'
  <2>1. UnderWay' = UnderWay
    BY DEF HandEdit, UnderWay
  <2> QED
    BY <1>3, <1>5, <2>1 DEF Bounded
<1>8. Distinct(file.config)' /\ (daemon.version <= file.version)'
  BY <1>2, <1>5 DEF HandEdit, Inv, TypeOK, Distinct
<1>9. \A x \in Writer : Planned(x)'
  <2>1. SUFFICES ASSUME NEW x \in Writer PROVE Planned(x)'
    OBVIOUS
  <2>2. written[x] \in Nat
    BY DEF Inv, TypeOK
  <2>3. ~raced' => pc[x] # "rename"
    BY DEF HandEdit
  <2> QED
    BY <1>2, <1>5, <1>6, <2>2, <2>3 DEF HandEdit, plan, Inv, TypeOK, Planned
<1> QED
  BY <1>6, <1>7, <1>8, <1>9 DEF Inv

LEMMA NextInv == ASSUME Inv, [Next]_vars PROVE Inv'
<1>1. ASSUME NEW w \in Writer, NEW o \in Op, Begin(w, o) PROVE Inv'
  BY <1>1, NextBegin
<1>2. ASSUME NEW w \in Writer, Run(w) PROVE Inv'
  <2>1. CASE Identify(w) \/ Derive(w)
    BY <2>1, NextIdentify
  <2>2. CASE Lock(w)
    BY <2>2, NextLock
  <2>3. CASE LockTimesOut(w)
    BY <2>3, NextReport DEF LockTimesOut
  <2>4. CASE Read(w)
    BY <2>4, NextRead
  <2>5. CASE Verify(w)
    BY <2>5, NextVerify
  <2>6. CASE Rename(w)
    BY <2>6, NextRename
  <2>7. CASE Apply(w)
    BY <2>7, NextReport DEF Apply
  <2> QED
    BY <1>2, <2>1, <2>2, <2>3, <2>4, <2>5, <2>6, <2>7 DEF Run
<1>3. ASSUME NEW w \in Writer, StageFails(w) \/ Die(w) PROVE Inv'
  BY <1>3, NextReport DEF StageFails, Die
<1>4. CASE StartDaemon \/ StopDaemon
  <2>1. /\ UNCHANGED <<file, lock, pc, plan, result, history>>
        /\ daemon' \in [version : -1..MaxFiles, config : Config]
        /\ daemon' \in {file, Stopped}
    BY <1>4, LoadedType, Idle DEF StartDaemon, StopDaemon, Inv
  <2>2. daemon'.version <= file.version
    BY <2>1 DEF Inv, TypeOK, Stopped
  <2>3. TypeOK'
    BY <2>1 DEF plan, history, Inv, TypeOK
  <2>4. Bounded' /\ Distinct(file.config)'
    BY <2>1 DEF Inv, Bounded, UnderWay, Distinct
  <2>5. \A x \in Writer : Planned(x)'
    BY <2>1 DEF plan, history, Inv, Planned
  <2> QED
    BY <2>1, <2>2, <2>3, <2>4, <2>5 DEF Inv
<1>5. CASE HandEdit
  BY <1>5, NextHandEdit
<1>6. CASE UNCHANGED vars
  BY <1>6 DEF vars, history, Inv, TypeOK, Bounded, UnderWay, Distinct, Planned
<1> QED
  BY <1>1, <1>2, <1>3, <1>4, <1>5, <1>6 DEF Next

LEMMA InitInv == ASSUME Init PROVE Inv
<1>1. PICK config \in Found \cup {Empty} : file = [version |-> 0, config |-> config]
  BY DEF Init
<1>2. config \in Config /\ Distinct(config)
  <2>1. CASE config \in Found
    BY <2>1, FoundAssumption, UsableIsDistinct DEF Usable
  <2>2. CASE config = Empty
    BY <2>2, Idle DEF Distinct, Empty
  <2> QED
    BY <2>1, <2>2
<1>3. UnderWay = {} /\ Cardinality(UnderWay) = 0
  BY FS_EmptySet DEF Init, UnderWay, Unsaved
<1>4. TypeOK
  <2>1. \A w \in Writer : lock = w <=> pc[w] \in Locked
    BY NobodyAssumption DEF Init, Locked
  <2>2. file \in [version : 0..MaxFiles, config : Config] /\ serial \in Config
    BY <1>1, <1>2, BoundAssumption DEF Init
  <2>3. /\ op \in [Writer -> Op] /\ id \in [Writer -> Id]
        /\ before \in [Writer -> [version : 0..MaxFiles, config : Config]]
        /\ rendered \in [Writer -> Config]
    BY Idle DEF Init
  <2>4. /\ pc \in [Writer -> {"idle"} \cup Busy] /\ lock \in Writer \cup {Nobody}
        /\ result \in [Writer -> {"none", "saved", "ok", "error"}]
        /\ daemon \in [version : -1..MaxFiles, config : Config]
    BY Idle DEF Init
  <2>5. /\ written \in [Writer -> 0..MaxFiles] /\ edits \in 0..MaxHandEdits
    BY BoundAssumption DEF Init
  <2>6. raced \in BOOLEAN
    BY DEF Init
  <2> QED
    BY <2>1, <2>2, <2>3, <2>4, <2>5, <2>6 DEF TypeOK
<1>5. Bounded
  BY <1>1, <1>3, BoundAssumption DEF Bounded
<1>6. Distinct(file.config) /\ daemon.version <= file.version
  BY <1>1, <1>2 DEF Init, Stopped
<1>7. \A w \in Writer : Planned(w)
  BY <1>1 DEF Init, Planned
<1> QED
  BY <1>4, <1>5, <1>6, <1>7 DEF Inv

LEMMA AlwaysInv == Spec => []Inv
  BY InitInv, NextInv, PTL DEF Spec

(***************************************************************************)
(* Types, among them: the lock is held by exactly the command that is      *)
(* between taking and leaving it (atomic.rs:142-164), and a derived id is  *)
(* one of the suffixed names (devices.rs:105-126).                         *)
(***************************************************************************)
THEOREM TypeCorrect == Spec => []TypeOK
  BY AlwaysInv, PTL DEF Inv

-----------------------------------------------------------------------------
(***************************************************************************)
(* Steps that change the file: a rename, which puts the edit in place, and *)
(* an editor.  The rest leave it and its history alone.                    *)
(***************************************************************************)
LEMMA WhoChangesTheFile ==
  ASSUME Next
  PROVE  \/ \E w \in Writer : Rename(w)
         \/ HandEdit
         \/ UNCHANGED <<file, history>>
<1>1. ASSUME NEW w \in Writer, NEW o \in Op, Begin(w, o)
      PROVE  UNCHANGED <<file, history>>
  BY <1>1 DEF Begin
<1>2. ASSUME NEW w \in Writer, Run(w) PROVE Rename(w) \/ UNCHANGED <<file, history>>
  BY <1>2 DEF Run, Identify, Derive, Lock, LockTimesOut, Read, Verify, Apply
<1>3. ASSUME NEW w \in Writer, StageFails(w) \/ Die(w)
      PROVE  UNCHANGED <<file, history>>
  BY <1>3 DEF StageFails, Die
<1> QED
  BY <1>1, <1>2, <1>3 DEF Next, StartDaemon, StopDaemon

(***************************************************************************)
(* The commands, however they interleave and wherever they die, leave a    *)
(* file the daemon can run on, or one that enrolls nobody                  *)
(* (devices.rs:210-234): what is renamed into place was checked.           *)
(***************************************************************************)
THEOREM FileAlwaysUsable == Spec => []FileUsable
<1>1. Init => FileUsable
  BY FoundAssumption DEF Init, FileUsable, Empty
<1>2. ASSUME Inv, FileUsable, [Next]_vars PROVE FileUsable'
  <2>1. ASSUME NEW w \in Writer, Rename(w) PROVE Usable(file'.config)
    BY <1>2, <2>1 DEF Rename, Inv, Planned
  <2>2. ASSUME HandEdit PROVE edits' # 0
    BY <1>2, <2>2 DEF HandEdit, Inv, TypeOK
  <2> QED
    BY <1>2, <2>1, <2>2, WhoChangesTheFile DEF FileUsable, Usable, vars, history
<1> QED
  BY <1>1, <1>2, AlwaysInv, PTL DEF Spec

(***************************************************************************)
(* The file is what all the edits made so far come to, one after another,  *)
(* unless an editor wrote between the last check and the rename            *)
(* (atomic.rs:120-125): a command that renames made its edit of the file   *)
(* that its rename replaces.                                               *)
(***************************************************************************)
THEOREM NoUpdateIsLost == Spec => []NoUpdateLost
<1>1. Init => NoUpdateLost
  BY DEF Init, NoUpdateLost
<1>2. ASSUME Inv, NoUpdateLost, [Next]_vars PROVE NoUpdateLost'
  <2>1. ASSUME NEW w \in Writer, Rename(w) PROVE NoUpdateLost'
    <3>1. SUFFICES ASSUME ~raced PROVE file'.config = serial'
      BY <2>1 DEF Rename, NoUpdateLost
    <3>2. /\ file.config = serial /\ rendered[w] = Edited(serial, op[w], id[w])
          /\ rendered[w] \in Config
      BY <1>2, <2>1, <3>1 DEF Rename, NoUpdateLost, Inv, Planned, TypeOK
    <3>3. Edited(serial, op[w], id[w]) # Refused
      BY <3>2, RefusedIsNone
    <3> QED
      BY <2>1, <3>2, <3>3 DEF Rename
  <2>2. ASSUME HandEdit PROVE NoUpdateLost'
    BY <2>2 DEF HandEdit, NoUpdateLost
  <2> QED
    BY <1>2, <2>1, <2>2, WhoChangesTheFile DEF NoUpdateLost, vars, history
<1> QED
  BY <1>1, <1>2, AlwaysInv, PTL DEF Spec

(***************************************************************************)
(* A change that was reported as made is enforced by the daemon that runs, *)
(* whichever restarts and commands came since (main.rs:267-291): a daemon  *)
(* that starts loads the newest file.                                      *)
(***************************************************************************)
THEOREM ReportedIsAlwaysEnforced == Spec => []ReportedIsEnforced
<1>1. Init => ReportedIsEnforced
  BY DEF Init, ReportedIsEnforced
<1>2. ASSUME Inv, ReportedIsEnforced, [Next]_vars PROVE ReportedIsEnforced'
  <2> DEFINE Fresh == daemon' = Stopped \/ daemon' = file'
  <2>1. \A w \in Writer : written[w] <= file.version /\ written[w] \in Nat
    BY <1>2 DEF Inv, TypeOK, Planned
  <2>2. ASSUME NEW w \in Writer, NEW o \in Op, Begin(w, o) PROVE ReportedIsEnforced'
    BY <1>2, <2>2 DEF Begin, Inv, TypeOK, ReportedIsEnforced
  <2>3. ASSUME NEW w \in Writer, UNCHANGED daemon,
               \A x \in Writer \ {w} : result'[x] = result[x] /\ written'[x] = written[x],
               result'[w] # "ok"
        PROVE  ReportedIsEnforced'
    BY <1>2, <2>3 DEF ReportedIsEnforced
  <2>4. ASSUME NEW w \in Writer, NEW outcome \in {"error", "saved"},
               Report(w, outcome), UNCHANGED <<written, daemon>>
        PROVE  ReportedIsEnforced'
    BY <1>2, <2>3, <2>4 DEF Report, Inv, TypeOK
  <2>5. ASSUME UNCHANGED <<result, written, daemon>> PROVE ReportedIsEnforced'
    BY <1>2, <2>5 DEF ReportedIsEnforced
  <2>6. ASSUME Fresh, UNCHANGED <<file, written>> PROVE ReportedIsEnforced'
    BY <2>1, <2>6 DEF ReportedIsEnforced
  <2>7. ASSUME NEW w \in Writer, Identify(w) \/ Derive(w) \/ Lock(w)
        PROVE  ReportedIsEnforced'
    BY <2>5, <2>7 DEF Identify, Derive, Lock, plan
  <2>8. ASSUME NEW w \in Writer, LockTimesOut(w) \/ StageFails(w) \/ Die(w)
        PROVE  ReportedIsEnforced'
    BY <2>4, <2>8 DEF LockTimesOut, StageFails, Die
  <2>9. ASSUME NEW w \in Writer, Read(w) PROVE ReportedIsEnforced'
    <3>1. CASE Report(w, "error") /\ UNCHANGED written
      BY <2>4, <2>9, <3>1 DEF Read
    <3>2. CASE written' = [written EXCEPT ![w] = file.version] /\ UNCHANGED result
      BY <1>2, <2>3, <2>9, <3>2 DEF Read, Inv, TypeOK, Planned
    <3>3. CASE UNCHANGED <<written, result>>
      BY <2>5, <2>9, <3>3 DEF Read
    <3> QED
      BY <2>9, <3>1, <3>2, <3>3 DEF Read
  <2>10. ASSUME NEW w \in Writer, Verify(w) PROVE ReportedIsEnforced'
    BY <2>4, <2>5, <2>10 DEF Verify, plan
  <2>11. ASSUME NEW w \in Writer, Rename(w) PROVE ReportedIsEnforced'
    <3>1. CASE Report(w, "error") /\ UNCHANGED written
      BY <2>4, <2>11, <3>1 DEF Rename
    <3>2. CASE /\ written' = [written EXCEPT ![w] = file.version + 1]
               /\ UNCHANGED result
      BY <1>2, <2>3, <2>11, <3>2 DEF Rename, Inv, TypeOK, Planned
    <3> QED
      BY <2>11, <3>1, <3>2 DEF Rename
  <2>12. ASSUME NEW w \in Writer, Apply(w) PROVE ReportedIsEnforced'
    <3>1. CASE UNCHANGED daemon /\ \E outcome \in {"error", "saved"} : Report(w, outcome)
      BY <2>4, <2>12, <3>1 DEF Apply
    <3>2. CASE daemon' = Stopped \/ daemon' = Loaded
      BY <1>2, <2>6, <2>12, <3>2, LoadedType DEF Apply, Inv
    <3> QED
      BY <2>12, <3>1, <3>2 DEF Apply
  <2>13. CASE StartDaemon \/ StopDaemon
    BY <1>2, <2>6, <2>13, LoadedType DEF StartDaemon, StopDaemon, plan, Inv
  <2>14. CASE HandEdit \/ UNCHANGED vars
    BY <2>5, <2>14 DEF HandEdit, vars, plan
  <2> QED
    BY <1>2, <2>2, <2>7, <2>8, <2>9, <2>10, <2>11, <2>12, <2>13, <2>14 DEF Next, Run
<1> QED
  BY <1>1, <1>2, AlwaysInv, PTL DEF Spec
=============================================================================
