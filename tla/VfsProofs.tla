----------------------------- MODULE VfsProofs ------------------------------
(***************************************************************************)
(* Theorems about the driver framework (kernel/drv/drv.c) and the device   *)
(* nodes over it (kernel/vfs/vfs.c), for every size of the three tables,   *)
(* every set of drivers, types and ids, and every sequence of calls.       *)
(***************************************************************************)
EXTENDS Vfs, FiniteSetTheorems, WellFoundedInduction, TLAPS

-----------------------------------------------------------------------------
(* First: the loops over the tables stop at the lowest index they look for. *)

LessThan == {p \in Nat \X Nat : p[1] < p[2]}

(* A set of natural numbers that is not empty has a least member. *)
LEMMA LeastElement ==
  ASSUME NEW S \in SUBSET Nat, S # {}
  PROVE  \E i \in S : \A j \in S : i <= j
<1>1. IsWellFoundedOn(LessThan, Nat)
  BY NatLessThanWellFounded DEF OpToRel, LessThan
<1>2. PICK i \in S : \A j \in S : ~ (<<j, i>> \in LessThan)
  BY <1>1, WFMin
<1>3. ASSUME NEW j \in S PROVE i <= j
  <2>1. i \in Nat /\ j \in Nat /\ ~ (j < i)
    BY <1>2 DEF LessThan
  <2> QED BY <2>1
<1> QED BY <1>3

(* The entry a loop stops at is one of those it looks for, and the lowest. *)
LEMMA FirstIsLeast ==
  ASSUME NEW S \in SUBSET Nat, S # {}
  PROVE  First(S) \in S /\ \A j \in S : First(S) <= j
  BY LeastElement DEF First

(* The slots of all three tables are naturals, so a loop over them stops at one. *)
LEMMA FirstSlot ==
  /\ DriverSlots \subseteq Nat /\ DeviceSlots \subseteq Nat /\ NodeSlots \subseteq Nat
  /\ \A S \in SUBSET Nat : S # {} => First(S) \in S
  BY FirstIsLeast, DrvAssumption, VfsAssumption DEF DriverSlots, DeviceSlots, NodeSlots

(* A null pointer is no slot of any table. *)
LEMMA NullIsNoSlot ==
  NULL \notin DriverSlots /\ NULL \notin DeviceSlots /\ NULL \notin NodeSlots
  BY DrvAssumption, VfsAssumption DEF DriverSlots, DeviceSlots, NodeSlots

-----------------------------------------------------------------------------
(* The type invariant of the framework. *)

(* A device that a probe binds gets the slot of a driver that takes it. *)
LEMMA BindingType ==
  ASSUME TypeOK, NEW i \in Probed
  PROVE  i \in DeviceSlots /\ Binding(i) \in DriverSlots /\ Probes(Binding(i), i)
<1>1. Takers(i) # {} /\ Takers(i) \subseteq Nat /\ i \in DeviceSlots
  BY FirstSlot DEF Probed, Takers
<1>2. First(Takers(i)) \in Takers(i)
  BY <1>1, FirstSlot
<1> QED BY <1>1, <1>2 DEF Binding, Takers

(* The tables start empty. *)
LEMMA TypeInit == Init => TypeOK
<1> SUFFICES ASSUME Init PROVE TypeOK
  OBVIOUS
<1>1. 0 \in -MAX_DRIFT .. MAX_DRIVERS /\ 0 \in 0 .. MAX_DEVICES
  BY DrvAssumption
<1> QED BY <1>1 DEF Init, TypeOK

(* One step for each function of drv.c. *)
LEMMA TypeNext == TypeOK /\ [Next]_vars => TypeOK'
<1> SUFFICES ASSUME TypeOK, [Next]_vars PROVE TypeOK'
  OBVIOUS
<1> DEFINE Rows == [type : Types \cup {NULL}, driver : DriverSlots \cup Drivers \cup {NULL},
                    id : Nat]
<1>1. ASSUME NEW d \in Drivers, drv_register(d) PROVE TypeOK'
  <2> DEFINE s == First(FreeDrivers)
  <2>1. s \in DriverSlots \ registered
    BY <1>1, FirstSlot DEF drv_register, FreeDrivers
  <2>2. driver_count' \in -MAX_DRIFT .. MAX_DRIVERS
    BY <1>1, DrvAssumption DEF drv_register, TypeOK
  <2>3. drivers' = [drivers EXCEPT ![s] = d] /\ registered' = registered \cup {s}
        /\ UNCHANGED <<deviceTable, known, accepted>>
    BY <1>1 DEF drv_register
  <2>4. d # NULL /\ Info[d].ops # NULL
    BY <1>1, DrvAssumption DEF drv_register
  <2> HIDE DEF s
  <2> QED BY <2>1, <2>2, <2>3, <2>4 DEF TypeOK, deviceTable
<1>2. ASSUME NEW s \in known, drv_unregister(s) PROVE TypeOK'
  <2>1. driver_count' \in -MAX_DRIFT .. MAX_DRIVERS
    BY <1>2, DrvAssumption DEF drv_unregister, CountAfterUnregister, TypeOK
  <2>2. accepted' \in [DeviceSlots -> Drivers \cup {NULL}]
    BY <1>2 DEF drv_unregister, TypeOK
  <2> QED BY <1>2, <2>1, <2>2 DEF drv_unregister, deviceTable, TypeOK
<1>3. ASSUME NEW t \in Types, NEW p \in Pointers \cup {NULL}, NEW id \in Ids \cup GivenIds,
             dev_register(t, p, id)
      PROVE  TypeOK'
  <2> DEFINE i == NewDevice
             e == [type |-> t, driver |-> p, id |-> IF id = 0 THEN i + 1 ELSE id]
  <2>1. i \in DeviceSlots \ active
    BY <1>3, FirstSlot DEF dev_register, NewDevice, FreeDevices
  <2>2. device_count' \in 0 .. MAX_DEVICES
    BY <1>3, DrvAssumption DEF dev_register, TypeOK
  <2>3. devices' = [devices EXCEPT ![i] = e] /\ active' = active \cup {i}
        /\ UNCHANGED <<driverTable, known, accepted>>
    BY <1>3 DEF dev_register
  <2>4. e \in Rows
    <3>1. i \in Nat /\ id \in Nat
      BY <2>1, FirstSlot, DrvAssumption DEF GivenIds, TypeOK
    <3>2. p \in DriverSlots \cup Drivers \cup {NULL}
      BY DEF Pointers, TypeOK
    <3> QED BY <3>1, <3>2
  <2> HIDE DEF i, e
  <2> QED BY <2>1, <2>2, <2>3, <2>4 DEF TypeOK, driverTable
<1>4. ASSUME NEW i \in active, NEW p \in Pointers, drv_attach(i, p) PROVE TypeOK'
  <2>1. p \in DriverSlots \cup Drivers \cup {NULL} /\ i \in DeviceSlots
    BY DEF Pointers, TypeOK
  <2>2. devices' \in [DeviceSlots -> Rows]
    BY <1>4, <2>1 DEF drv_attach, TypeOK
  <2>3. accepted' \in [DeviceSlots -> Drivers \cup {NULL}]
    BY <1>4 DEF drv_attach, TypeOK
  <2> QED BY <1>4, <2>2, <2>3 DEF drv_attach, driverTable, TypeOK
<1>5. CASE drv_probe_all
  <2>1. \A i \in Probed : /\ Binding(i) \in DriverSlots
                           /\ drivers[Binding(i)] \in Drivers
                           /\ drivers[Binding(i)] # NULL
    BY BindingType DEF Probes, TypeOK
  <2>2. devices' \in [DeviceSlots -> Rows]
    BY <1>5, <2>1 DEF drv_probe_all, TypeOK
  <2>3. accepted' \in [DeviceSlots -> Drivers \cup {NULL}]
    BY <1>5, <2>1 DEF drv_probe_all, TypeOK
  <2>4. known' \subseteq {s \in DriverSlots : drivers[s] # NULL}
    BY <1>5, <2>1 DEF drv_probe_all, TypeOK
  <2> QED BY <1>5, <2>2, <2>3, <2>4 DEF drv_probe_all, driverTable, TypeOK
<1>6. CASE UNCHANGED vars
  BY <1>6 DEF vars, driverTable, deviceTable, TypeOK
<1> QED BY <1>1, <1>2, <1>3, <1>4, <1>5, <1>6 DEF Next

(* The two tables, their counters and the pointers between them keep their
   types, whatever the order of calls. *)
THEOREM DrvTypeCorrect == Spec => []TypeOK
  BY TypeInit, TypeNext, PTL DEF Spec

-----------------------------------------------------------------------------
(* Counters and tables. *)

(* The counter of drivers may fall behind the table but never runs ahead of it:
   drv_unregister counts down also for a driver that is not registered.  The
   counter of devices is exact, since no device is ever removed. *)
CountersBehind ==
  /\ driver_count <= Cardinality(registered)
  /\ device_count = Cardinality(active)

(* Both tables are finite, and so is what a counter counts. *)
LEMMA TablesFinite ==
  /\ IsFiniteSet(DriverSlots) /\ Cardinality(DriverSlots) = MAX_DRIVERS
  /\ IsFiniteSet(DeviceSlots) /\ Cardinality(DeviceSlots) = MAX_DEVICES
  /\ \A S \in SUBSET DriverSlots : IsFiniteSet(S) /\ Cardinality(S) \in Nat
  /\ \A S \in SUBSET DeviceSlots : IsFiniteSet(S) /\ Cardinality(S) \in Nat
<1>1. ASSUME NEW n \in Nat \ {0}
      PROVE  IsFiniteSet(0 .. n - 1) /\ Cardinality(0 .. n - 1) = n
  <2>1. 0 \in Int /\ n - 1 \in Int /\ ~ (0 > n - 1) /\ n - 1 - 0 + 1 = n
    OBVIOUS
  <2>2. IsFiniteSet(0 .. n - 1)
        /\ Cardinality(0 .. n - 1) = IF 0 > n - 1 THEN 0 ELSE n - 1 - 0 + 1
    BY <2>1, FS_Interval
  <2> QED BY <2>1, <2>2
<1>2. /\ IsFiniteSet(DriverSlots) /\ Cardinality(DriverSlots) = MAX_DRIVERS
      /\ IsFiniteSet(DeviceSlots) /\ Cardinality(DeviceSlots) = MAX_DEVICES
  BY <1>1, DrvAssumption DEF DriverSlots, DeviceSlots
<1> QED BY <1>2, FS_Subset, FS_CardinalityType

(* Both counters start at 0 over empty tables. *)
LEMMA CountersInit == Init => CountersBehind
  BY FS_EmptySet DEF Init, CountersBehind

(* drv_unregister empties at most one slot, and counts down whether it does or not. *)
LEMMA CountersNext == TypeOK /\ CountersBehind /\ [Next]_vars => CountersBehind'
<1> SUFFICES ASSUME TypeOK, CountersBehind, [Next]_vars PROVE CountersBehind'
  OBVIOUS
<1>0. /\ IsFiniteSet(registered) /\ Cardinality(registered) \in Nat /\ driver_count \in Int
      /\ IsFiniteSet(active) /\ Cardinality(active) \in Nat
  BY TablesFinite, DrvAssumption DEF TypeOK
<1>1. ASSUME NEW d \in Drivers, drv_register(d) PROVE CountersBehind'
  <2> DEFINE s == First(FreeDrivers)
  <2>1. s \notin registered
    BY <1>1, FirstSlot DEF drv_register, FreeDrivers
  <2>2. registered' = registered \cup {s} /\ driver_count' = driver_count + 1
        /\ UNCHANGED deviceTable
    BY <1>1 DEF drv_register
  <2> HIDE DEF s
  <2>3. Cardinality(registered') = Cardinality(registered) + 1
    BY <1>0, <2>1, <2>2, FS_AddElement
  <2> QED BY <1>0, <2>2, <2>3 DEF CountersBehind, deviceTable
<1>2. ASSUME NEW s \in known, drv_unregister(s) PROVE CountersBehind'
  <2>1. Cardinality(registered \ {s}) \in {Cardinality(registered), Cardinality(registered) - 1}
    <3>1. Cardinality(registered \ {s}) =
            IF s \in registered THEN Cardinality(registered) - 1 ELSE Cardinality(registered)
      BY <1>0, FS_RemoveElement
    <3> QED BY <3>1
  <2>2. registered' = registered \ {s} /\ driver_count' = driver_count - 1
        /\ UNCHANGED deviceTable
    BY <1>2 DEF drv_unregister, CountAfterUnregister
  <2>3. driver_count - 1 <= Cardinality(registered \ {s})
    <3>1. driver_count <= Cardinality(registered)
      BY DEF CountersBehind
    <3> QED BY <1>0, <2>1, <3>1
  <2> QED BY <2>2, <2>3 DEF CountersBehind, deviceTable
<1>3. ASSUME NEW t \in Types, NEW p \in Pointers \cup {NULL}, NEW id \in Ids \cup GivenIds,
             dev_register(t, p, id)
      PROVE  CountersBehind'
  <2> DEFINE i == NewDevice
  <2>1. i \notin active
    BY <1>3, FirstSlot DEF dev_register, NewDevice, FreeDevices
  <2>2. active' = active \cup {i} /\ device_count' = device_count + 1
        /\ UNCHANGED driverTable
    BY <1>3 DEF dev_register
  <2> HIDE DEF i
  <2>3. Cardinality(active') = Cardinality(active) + 1
    BY <1>0, <2>1, <2>2, FS_AddElement
  <2> QED BY <2>2, <2>3 DEF CountersBehind, driverTable
<1>4. CASE UNCHANGED <<registered, driver_count, active, device_count>>
  BY <1>4 DEF CountersBehind
<1> QED BY <1>1, <1>2, <1>3, <1>4
        DEF Next, vars, driverTable, deviceTable, drv_attach, drv_probe_all

(* A table refuses an entry only when it has no free slot, however often the
   same driver is unregistered. *)
THEOREM TablesRefuseOnlyWhenFull == Spec => []RefusedOnlyWhenFull
<1>1. TypeOK /\ CountersBehind => RefusedOnlyWhenFull
  <2> SUFFICES ASSUME TypeOK, CountersBehind PROVE RefusedOnlyWhenFull
    OBVIOUS
  <2>1. ASSUME driver_count >= MAX_DRIVERS PROVE registered = DriverSlots
    <3>1. registered \in SUBSET DriverSlots
      BY DEF TypeOK
    <3>2. /\ Cardinality(registered) <= Cardinality(DriverSlots)
          /\ Cardinality(DriverSlots) = Cardinality(registered) => DriverSlots = registered
      BY <3>1, TablesFinite, FS_Subset
    <3>3. driver_count \in Int /\ Cardinality(registered) \in Nat
      BY <3>1, TablesFinite, DrvAssumption DEF TypeOK
    <3> QED BY <2>1, <3>2, <3>3, TablesFinite, DrvAssumption DEF CountersBehind
  <2>2. ASSUME device_count >= MAX_DEVICES PROVE active = DeviceSlots
    <3>1. active \in SUBSET DeviceSlots
      BY DEF TypeOK
    <3>2. /\ Cardinality(active) <= Cardinality(DeviceSlots)
          /\ Cardinality(DeviceSlots) = Cardinality(active) => DeviceSlots = active
      BY <3>1, TablesFinite, FS_Subset
    <3> QED BY <2>2, <3>1, <3>2, TablesFinite, DrvAssumption DEF CountersBehind
  <2> QED BY <2>1, <2>2 DEF RefusedOnlyWhenFull
<1> QED BY <1>1, DrvTypeCorrect, CountersInit, CountersNext, PTL DEF Spec

-----------------------------------------------------------------------------
(* Lookups. *)

(* No device is ever removed, so the devices fill the table from its start. *)
Packed == active = 0 .. device_count - 1

(* A new device comes after every other. *)
LEMMA NewDeviceIsNext ==
  ASSUME TypeOK, Packed, FreeDevices # {}, device_count < MAX_DEVICES
  PROVE  NewDevice = device_count /\ NewDevice \in DeviceSlots
<1>1. FreeDevices \subseteq Nat /\ device_count \in FreeDevices
  BY DrvAssumption DEF FreeDevices, DeviceSlots, Packed, TypeOK
<1>2. NewDevice \in FreeDevices /\ NewDevice <= device_count
  BY <1>1, FirstIsLeast DEF NewDevice
<1>3. NewDevice \in Nat /\ NewDevice \notin 0 .. device_count - 1 /\ device_count \in Nat
  BY <1>1, <1>2 DEF FreeDevices, Packed
<1> QED BY <1>2, <1>3 DEF FreeDevices

LEMMA PackedNext == TypeOK /\ Packed /\ [Next]_vars => Packed'
<1> SUFFICES ASSUME TypeOK, Packed, [Next]_vars PROVE Packed'
  OBVIOUS
<1>1. ASSUME NEW t \in Types, NEW p \in Pointers \cup {NULL}, NEW id \in Ids \cup GivenIds,
             dev_register(t, p, id)
      PROVE  Packed'
  <2>1. active' = active \cup {device_count} /\ device_count' = device_count + 1
    BY <1>1, NewDeviceIsNext DEF dev_register
  <2>2. device_count \in Nat
    BY DEF TypeOK
  <2> QED BY <2>1, <2>2 DEF Packed
<1>2. CASE UNCHANGED <<active, device_count>>
  BY <1>2 DEF Packed
<1> QED BY <1>1, <1>2 DEF Next, vars, deviceTable, drv_register, drv_unregister, drv_attach,
                          drv_probe_all

(* A loop that looks for one of more entries stops where it did, as long as
   those added come last. *)
LEMMA FirstOfMore ==
  ASSUME NEW S \in SUBSET Nat, S # {}, NEW n \in Nat, \A j \in S : j < n
  PROVE  First(S \cup {n}) = First(S)
<1>1. First(S) \in S /\ \A j \in S : First(S) <= j
  BY FirstIsLeast
<1>2. S \cup {n} \in SUBSET Nat /\ S \cup {n} # {}
  OBVIOUS
<1>3. First(S \cup {n}) \in S \cup {n} /\ \A j \in S \cup {n} : First(S \cup {n}) <= j
  BY <1>2, FirstIsLeast
<1> DEFINE old == First(S)
           new == First(S \cup {n})
<1>4. old \in Nat /\ old < n /\ new \in Nat /\ new <= old /\ new \in S \cup {n}
  BY <1>1, <1>3
<1>5. old <= new
  BY <1>1, <1>4
<1> HIDE DEF old, new
<1>6. new = old
  BY <1>4, <1>5
<1> QED BY <1>6 DEF old, new

(* What a step leaves of a lookup that had found some device. *)
Kept(found, later) == later = found \/ \E n \in Nat : later = found \cup {n} /\ \A j \in found : j < n

LEMMA KeptFindsTheSame ==
  ASSUME NEW found \in SUBSET Nat, found # {}, NEW later, Kept(found, later)
  PROVE  later # {} /\ First(later) = First(found)
  BY FirstOfMore DEF Kept

(* The devices of a type and those with an id, before and after a step. *)
OfType(t)  == {i \in active : devices[i].type = t}
WithId(id) == {i \in active : devices[i].id = id}

LEMMA FoundAreKept ==
  ASSUME TypeOK, Packed, [Next]_vars
  PROVE  /\ \A t : Kept(OfType(t), OfType(t)')
         /\ \A id : Kept(WithId(id), WithId(id)')
<1>0. active \subseteq DeviceSlots /\ active \subseteq Nat
  BY FirstSlot DEF TypeOK
<1>1. CASE active' = active /\ \A i \in active : /\ devices'[i].type = devices[i].type
                                                 /\ devices'[i].id = devices[i].id
  BY <1>1 DEF Kept, OfType, WithId
<1>2. ASSUME NEW ty \in Types, NEW p \in Pointers \cup {NULL}, NEW d \in Ids \cup GivenIds,
             dev_register(ty, p, d)
      PROVE  /\ \A t : Kept(OfType(t), OfType(t)')
             /\ \A id : Kept(WithId(id), WithId(id)')
  <2>1. device_count \in Nat /\ active' = active \cup {device_count}
        /\ \A j \in active : j < device_count
    BY <1>2, NewDeviceIsNext DEF dev_register, Packed, TypeOK
  <2>2. \A j \in active : devices'[j] = devices[j]
    <3>1. NewDevice \notin active
      BY <1>2, <2>1, NewDeviceIsNext DEF dev_register
    <3> QED BY <1>0, <1>2, <3>1 DEF dev_register, TypeOK
  <2>3. ASSUME NEW t PROVE Kept(OfType(t), OfType(t)')
    <3>1. OfType(t)' \in {OfType(t), OfType(t) \cup {device_count}}
      BY <2>1, <2>2 DEF OfType
    <3>2. \A j \in OfType(t) : j < device_count
      BY <2>1 DEF OfType
    <3> QED BY <2>1, <3>1, <3>2 DEF Kept
  <2>4. ASSUME NEW id PROVE Kept(WithId(id), WithId(id)')
    <3>1. WithId(id)' \in {WithId(id), WithId(id) \cup {device_count}}
      BY <2>1, <2>2 DEF WithId
    <3>2. \A j \in WithId(id) : j < device_count
      BY <2>1 DEF WithId
    <3> QED BY <2>1, <3>1, <3>2 DEF Kept
  <2> QED BY <2>3, <2>4
<1>3. ASSUME NEW j \in active, NEW p \in Pointers, drv_attach(j, p)
      PROVE  active' = active /\ \A i \in active : /\ devices'[i].type = devices[i].type
                                                   /\ devices'[i].id = devices[i].id
  BY <1>0, <1>3 DEF drv_attach, TypeOK
<1>4. ASSUME drv_probe_all
      PROVE  active' = active /\ \A i \in active : /\ devices'[i].type = devices[i].type
                                                   /\ devices'[i].id = devices[i].id
  BY <1>0, <1>4 DEF drv_probe_all, TypeOK
<1>5. CASE UNCHANGED <<devices, active>>
  BY <1>1, <1>5
<1> QED BY <1>1, <1>2, <1>3, <1>4, <1>5
        DEF Next, vars, deviceTable, drv_register, drv_unregister

(* No call takes a device from whoever found it by its id or its type: of two
   devices with one id, and of two with one type, the older is found for good. *)
THEOREM LookupsAreStable == Spec => LookupsStable
<1> DEFINE Same == /\ \A id \in GivenIds : dev_get(id)' = dev_get(id)
                   /\ \A t \in Types : LET i == dev_get_by_type(t)
                                       IN  i # NULL => dev_get_by_type(t)' = i
<1>1. Init => Packed
  BY DEF Init, Packed
<1>2. TypeOK /\ Packed /\ [Next]_vars => [Same]_vars
  <2> SUFFICES ASSUME TypeOK, Packed, [Next]_vars PROVE Same
    OBVIOUS
  <2>0. \A t : OfType(t) \in SUBSET Nat
    BY FirstSlot DEF OfType, TypeOK
  <2>1. \A id : WithId(id) \in SUBSET Nat
    BY FirstSlot DEF WithId, TypeOK
  <2>2. ASSUME NEW id \in GivenIds PROVE dev_get(id)' = dev_get(id)
    <3>1. WithId(id) # {}
      BY DEF GivenIds, WithId
    <3>2. WithId(id)' # {} /\ First(WithId(id)') = First(WithId(id))
      BY <2>1, <3>1, FoundAreKept, KeptFindsTheSame
    <3>3. dev_get(id) = First(WithId(id))
      BY <3>1 DEF dev_get, WithId
    <3>4. dev_get(id)' = First(WithId(id)')
      BY <3>2 DEF dev_get, WithId
    <3> QED BY <3>2, <3>3, <3>4
  <2>3. ASSUME NEW t \in Types, dev_get_by_type(t) # NULL
        PROVE  dev_get_by_type(t)' = dev_get_by_type(t)
    <3>1. OfType(t) # {}
      BY <2>3 DEF dev_get_by_type, OfType
    <3>2. OfType(t)' # {} /\ First(OfType(t)') = First(OfType(t))
      BY <2>0, <3>1, FoundAreKept, KeptFindsTheSame
    <3>3. dev_get_by_type(t) = First(OfType(t))
      BY <3>1 DEF dev_get_by_type, OfType
    <3>4. dev_get_by_type(t)' = First(OfType(t)')
      BY <3>2 DEF dev_get_by_type, OfType
    <3> QED BY <3>2, <3>3, <3>4
  <2> QED BY <2>2, <2>3
<1> QED BY <1>1, <1>2, PackedNext, DrvTypeCorrect, PTL DEF Spec, LookupsStable

-----------------------------------------------------------------------------
(* Pointers from devices to drivers. *)

(* A device that a probe bound, and whose driver has not been unregistered,
   points to a registered slot, which drv_register cannot take. *)
ProbedPointToRegistered ==
  \A i \in DeviceSlots : accepted[i] # NULL =>
    /\ i \in active /\ devices[i].driver \in registered
    /\ drivers[devices[i].driver] = accepted[i]
    /\ Info[accepted[i]].type = devices[i].type

(* drv_register takes free slots only, and drv_probe_all compares types. *)
LEMMA ProbedNext == TypeOK /\ ProbedPointToRegistered /\ [Next]_vars => ProbedPointToRegistered'
<1> SUFFICES ASSUME TypeOK, ProbedPointToRegistered, [Next]_vars
             PROVE  ProbedPointToRegistered'
  OBVIOUS
<1>1. ASSUME NEW d \in Drivers, drv_register(d) PROVE ProbedPointToRegistered'
  <2> DEFINE free == First(FreeDrivers)
  <2>1. free \in DriverSlots \ registered
    BY <1>1, FirstSlot DEF drv_register, FreeDrivers
  <2>2. drivers' = [drivers EXCEPT ![free] = d] /\ registered' = registered \cup {free}
        /\ UNCHANGED <<devices, active, accepted>>
    BY <1>1 DEF drv_register, deviceTable
  <2> HIDE DEF free
  <2>3. \A s \in registered : drivers'[s] = drivers[s]
    BY <2>1, <2>2 DEF TypeOK
  <2> QED BY <2>2, <2>3 DEF ProbedPointToRegistered
<1>2. ASSUME NEW s \in known, drv_unregister(s) PROVE ProbedPointToRegistered'
  <2>1. /\ registered' = registered \ {s} /\ UNCHANGED <<drivers, devices, active>>
        /\ \A i \in DeviceSlots :
             accepted'[i] = IF devices[i].driver = s THEN NULL ELSE accepted[i]
    BY <1>2 DEF drv_unregister, deviceTable
  <2> QED BY <2>1 DEF ProbedPointToRegistered
<1>3. ASSUME NEW t \in Types, NEW p \in Pointers \cup {NULL}, NEW id \in Ids \cup GivenIds,
             dev_register(t, p, id)
      PROVE  ProbedPointToRegistered'
  <2>1. NewDevice \in DeviceSlots \ active
    BY <1>3, FirstSlot DEF dev_register, NewDevice, FreeDevices
  <2>2. active' = active \cup {NewDevice} /\ UNCHANGED <<drivers, registered, accepted>>
        /\ \A i \in DeviceSlots : i # NewDevice => devices'[i] = devices[i]
    BY <1>3 DEF dev_register, driverTable, TypeOK
  <2>3. accepted[NewDevice] = NULL
    BY <2>1 DEF ProbedPointToRegistered
  <2> QED BY <2>2, <2>3 DEF ProbedPointToRegistered
<1>4. ASSUME NEW j \in active, NEW p \in Pointers, drv_attach(j, p)
      PROVE  ProbedPointToRegistered'
  <2>1. j \in DeviceSlots
    BY DEF TypeOK
  <2>2. /\ UNCHANGED <<drivers, registered, active>> /\ accepted'[j] = NULL
        /\ \A i \in DeviceSlots : i # j => devices'[i] = devices[i] /\ accepted'[i] = accepted[i]
    BY <1>4, <2>1 DEF drv_attach, driverTable, TypeOK
  <2> QED BY <2>2 DEF ProbedPointToRegistered
<1>5. CASE drv_probe_all
  <2>1. /\ UNCHANGED <<drivers, registered, active>>
        /\ \A i \in DeviceSlots : i \notin Probed =>
             devices'[i] = devices[i] /\ accepted'[i] = accepted[i]
    BY <1>5 DEF drv_probe_all, driverTable
  <2>2. ASSUME NEW i \in Probed
        PROVE  /\ devices'[i].driver = Binding(i) /\ devices'[i].type = devices[i].type
               /\ accepted'[i] = drivers[Binding(i)]
    <3>1. i \in DeviceSlots
      BY DEF Probed
    <3>2. devices'[i] = [devices[i] EXCEPT !.driver = Binding(i)]
      BY <1>5, <3>1 DEF drv_probe_all
    <3> QED BY <1>5, <3>1, <3>2 DEF drv_probe_all, TypeOK
  <2>3. \A i \in Probed : /\ i \in active /\ Binding(i) \in registered
                           /\ Info[drivers[Binding(i)]].type = devices[i].type
    BY BindingType DEF Probes
  <2> SUFFICES ASSUME NEW i \in DeviceSlots, accepted'[i] # NULL
               PROVE  /\ i \in active /\ devices'[i].driver \in registered
                      /\ drivers[devices'[i].driver] = accepted'[i]
                      /\ Info[accepted'[i]].type = devices'[i].type
    BY <2>1 DEF ProbedPointToRegistered
  <2>4. CASE i \in Probed
    BY <2>2, <2>3, <2>4
  <2>5. CASE i \notin Probed
    BY <2>1, <2>5 DEF ProbedPointToRegistered
  <2> QED BY <2>4, <2>5
<1>6. CASE UNCHANGED vars
  BY <1>6 DEF vars, driverTable, deviceTable, ProbedPointToRegistered
<1> QED BY <1>1, <1>2, <1>3, <1>4, <1>5, <1>6 DEF Next

(* A call through a device that drv_probe_all bound reaches the driver that
   accepted it, as long as nobody attaches the device or unregisters that
   driver, however many others come and go. *)
THEOREM ProbedReachTheirDriver == Spec => []ReachesItsDriver
<1>1. Init => ProbedPointToRegistered
  BY DEF Init, ProbedPointToRegistered
<1>2. TypeOK /\ ProbedPointToRegistered => ReachesItsDriver
  BY DEF TypeOK, ProbedPointToRegistered, ReachesItsDriver, Target
<1> QED BY <1>1, <1>2, ProbedNext, DrvTypeCorrect, PTL DEF Spec

(* After drv_probe_all no device is left that a driver would have taken. *)
THEOREM ProbeIsComplete == Spec => ProbeFindsAll
<1>1. TypeOK /\ [Next]_vars => [Probed' # {} => ~drv_probe_all]_vars
  <2> SUFFICES ASSUME TypeOK, drv_probe_all, NEW i \in Probed' PROVE FALSE
    OBVIOUS
  <2>1. PICK s \in DriverSlots : Probes(s, i)'
    BY DEF Probed, Takers
  <2>2. i \in DeviceSlots /\ UNCHANGED <<drivers, registered, active>>
    BY DEF Probed, drv_probe_all, driverTable
  <2>3. CASE i \in Probed
    <3>1. devices'[i].driver = Binding(i)
      BY <2>2, <2>3 DEF drv_probe_all, TypeOK
    <3>2. Binding(i) # NULL
      BY <2>3, BindingType, NullIsNoSlot
    <3> QED BY <2>1, <3>1, <3>2 DEF Probes
  <2>4. CASE i \notin Probed
    <3>1. devices'[i] = devices[i]
      BY <2>2, <2>4 DEF drv_probe_all
    <3>2. Probes(s, i)
      BY <2>1, <2>2, <3>1 DEF Probes, Accepts
    <3> QED BY <2>2, <2>4, <3>2 DEF Probed, Takers
  <2> QED BY <2>3, <2>4
<1> QED BY <1>1, DrvTypeCorrect, PTL DEF Spec, ProbeFindsAll

-----------------------------------------------------------------------------
(* The device nodes. *)

(* A step of the nodes is a step of the framework or leaves it alone, so that
   all of the above holds also under vfs.c. *)
THEOREM VfsKeepsDrv == VfsSpec => Spec
<1>1. VfsInit => Init
  BY DEF VfsInit
<1>2. [VfsNext]_vfsVars => [Next]_vars
  BY DEF VfsNext, vfsVars, vfs_register, vfs_write
<1> QED BY <1>1, <1>2, PTL DEF VfsSpec, Spec

(* The device a console write looks up is an entry of the table or none. *)
LEMMA SinksAreDevices ==
  ASSUME TypeOK, NEW type
  PROVE  dev_get_by_type(type) \in DeviceSlots \cup {NULL}
<1> DEFINE found == {i \in active : devices[i].type = type}
<1>1. found \subseteq DeviceSlots
  BY DEF TypeOK
<1>2. found # {} => First(found) \in found
  BY <1>1, FirstSlot
<1> QED BY <1>1, <1>2 DEF dev_get_by_type

(* A length that an int can count survives the conversion. *)
LEMMA ToIntExact == ASSUME NEW len \in 1 .. INT_MAX PROVE ToInt(len) = len
<1>1. INT_MAX \in Nat \ {0} /\ len \in Nat
  BY VfsAssumption
<1> DEFINE a == len + INT_MAX + 1
           b == 2 * (INT_MAX + 1)
<1>2. a \in Nat /\ b \in Nat /\ b > 0 /\ 0 <= a /\ a < b
  BY <1>1
<1> HIDE DEF a, b
<1>3. a % b = a
  BY <1>2
<1> QED BY <1>1, <1>3 DEF ToInt, a, b

(* What a vfs_write returns, which devices take its buffer, and that it tells
   whether any did. *)
Delivers(len) ==
  /\ ret' \in {ToInt(len), 0, -1} /\ taken' \subseteq DeviceSlots
  /\ len \in 1 .. INT_MAX => (ret' > 0 <=> taken' # {})

LEMMA WriteDelivers ==
  ASSUME VfsTypeOK, NEW id \in NodeIds, NEW len \in Lengths, vfs_write(id, len)
  PROVE  Delivers(len)
<1>0. /\ NULL \notin DeviceSlots
      /\ \A devs : Writable(devs) \subseteq devs \ {NULL}
  BY NullIsNoSlot DEF Writable, Calls
<1>1. CASE ret' = -1 /\ taken' = {}
  BY <1>1 DEF Delivers
<1>2. ASSUME NEW i \in DeviceSlots, DeviceWrite(i, len) PROVE Delivers(len)
  <2>1. PICK took \in SUBSET Writable({i}) : ret' = Result(i, len, took) /\ taken' = took
    BY <1>2 DEF DeviceWrite
  <2>2. taken' \in {{}, {i}}
    BY <1>0, <2>1
  <2>3. ret' = IF i \in taken' THEN ToInt(len) ELSE -1
    BY <2>1 DEF Result
  <2>4. len \in 1 .. INT_MAX => ToInt(len) = len /\ len > 0
    BY ToIntExact, VfsAssumption
  <2> QED BY <2>2, <2>3, <2>4 DEF Delivers
<1>3. ASSUME ConsoleWrite(len) PROVE Delivers(len)
  <2> DEFINE display == dev_get_by_type("DISPLAY")
             serial  == dev_get_by_type("SERIAL")
             n == ToInt(len)
  <2>1. display \in DeviceSlots \cup {NULL} /\ serial \in DeviceSlots \cup {NULL}
    BY SinksAreDevices DEF VfsTypeOK
  <2>2. PICK took \in SUBSET Writable({display, serial}) :
          /\ ret' = LET first == IF display = NULL THEN 0
                                                  ELSE Total(0, Result(display, len, took))
                    IN  IF serial = NULL THEN first ELSE Total(first, Result(serial, len, took))
          /\ taken' = took
    BY <1>3 DEF ConsoleWrite
  <2>3. n \in Int
    BY VfsAssumption DEF ToInt
  <2> HIDE DEF display, serial, n
  <2>4. taken' \subseteq {display, serial} \ {NULL}
    BY <1>0, <2>2
  <2>5. ret' = IF n > 0 /\ taken' # {} THEN n ELSE 0
    <3>1. \A i : Result(i, len, taken') = IF i \in taken' THEN n ELSE -1
      BY DEF Result, n
    <3>2. \A total : /\ n > 0 => Total(total, n) = n
                     /\ ~ (n > 0) => Total(total, n) = total
                     /\ Total(total, -1) = total
      BY <2>3 DEF Total
    <3>3. NULL \notin taken'
      BY <2>4
    <3> QED BY <2>2, <2>4, <3>1, <3>2, <3>3
  <2>6. len \in 1 .. INT_MAX => n = len /\ len > 0
    BY ToIntExact, VfsAssumption DEF n
  <2> QED BY <2>1, <2>3, <2>4, <2>5, <2>6 DEF Delivers, n
<1>4. NodeDevice(id) # NULL => NodeDevice(id) \in DeviceSlots
  <2> DEFINE found == {n \in NodeSlots : nodes[n] # NULL /\ nodes[n].id = id}
  <2>1. found # {} => First(found) \in found
    BY FirstSlot
  <2>2. vfs_get(id) # NULL => vfs_get(id) \in NodeSlots /\ nodes[vfs_get(id)] # NULL
    BY <2>1 DEF vfs_get
  <2> HIDE DEF found
  <2> QED BY <2>2 DEF NodeDevice, VfsTypeOK
<1> QED BY <1>1, <1>2, <1>3, <1>4 DEF vfs_write

VfsInv == VfsTypeOK /\ WriteReportsDelivery

(* vfs_register stores devices of the table, and vfs_write changes no node. *)
LEMMA VfsInvNext == VfsInv /\ TypeOK' /\ [VfsNext]_vfsVars => VfsInv'
<1> SUFFICES ASSUME VfsInv, TypeOK', [VfsNext]_vfsVars PROVE VfsInv'
  OBVIOUS
<1>1. CASE UNCHANGED vfs
  BY <1>1 DEF vfs, VfsInv, VfsTypeOK, WriteReportsDelivery
<1>2. ASSUME NEW id \in NodeIds, NEW dev \in active \cup {NULL}, vfs_register(id, dev)
      PROVE  VfsInv'
  <2> DEFINE n == First({s \in NodeSlots : nodes[s] = NULL})
             e == [id |-> id, device |-> dev, is_console |-> id \in ConsoleIds]
  <2>1. n \in NodeSlots
    BY <1>2, FirstSlot DEF vfs_register
  <2>2. nodes' = [nodes EXCEPT ![n] = e] /\ UNCHANGED <<ret, sent, taken>>
    BY <1>2 DEF vfs_register
  <2>3. e \in [id : NodeIds, device : DeviceSlots \cup {NULL}, is_console : BOOLEAN]
    BY DEF VfsInv, VfsTypeOK, TypeOK
  <2> HIDE DEF n, e
  <2> QED BY <2>1, <2>2, <2>3 DEF VfsInv, VfsTypeOK, WriteReportsDelivery
<1>3. ASSUME NEW id \in NodeIds, NEW len \in Lengths, vfs_write(id, len) PROVE VfsInv'
  <2>1. UNCHANGED nodes /\ sent' = len
    BY <1>3 DEF vfs_write
  <2>2. Delivers(len)
    BY <1>3, WriteDelivers DEF VfsInv
  <2>3. VfsTypeOK'
    BY <2>1, <2>2 DEF Delivers, VfsInv, VfsTypeOK
  <2> QED BY <2>1, <2>2, <2>3 DEF Delivers, VfsInv, WriteReportsDelivery
<1> QED BY <1>1, <1>2, <1>3 DEF VfsNext, vfsVars

(* The invariant of the nodes holds beside that of the framework. *)
LEMMA VfsInvariance == VfsSpec => []VfsInv
<1>1. VfsInit /\ TypeOK => VfsInv
  BY DEF VfsInit, VfsInv, VfsTypeOK, WriteReportsDelivery
<1> QED BY <1>1, VfsInvNext, VfsKeepsDrv, DrvTypeCorrect, PTL DEF VfsSpec

(* Every node names a device slot or none, and every write returns the length
   of its buffer as an int, 0 or -1. *)
THEOREM VfsTypeCorrect == VfsSpec => []VfsTypeOK
  BY VfsInvariance, PTL DEF VfsInv

(* A vfs_write of a buffer that an int can count returns a length if and only
   if a driver has taken the buffer. *)
THEOREM WritesReportDelivery == VfsSpec => []WriteReportsDelivery
  BY VfsInvariance, PTL DEF VfsInv
=============================================================================
