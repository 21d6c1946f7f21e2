-------------------------------- MODULE Drv ---------------------------------
(***************************************************************************)
(* The driver framework of kernel/drv/drv.c: a table of drivers, copied    *)
(* in by drv_register, a table of devices, and the pointers from devices   *)
(* to drivers that probing leaves behind.  It is entered from one thread   *)
(* only, so every function is one step; a call that returns -1 without     *)
(* writing anything is no step.                                            *)
(*                                                                         *)
(* A driver_t * points to a slot of the driver table or to a driver_t of   *)
(* the caller's own.  A slot is its index, a driver of a caller is a       *)
(* member of Drivers, and Info says what the driver_t holds.  A caller has *)
(* no pointer to a slot but those that drv_probe_all has put into the      *)
(* driver field of a device; it may keep one for as long as it likes.      *)
(***************************************************************************)
EXTENDS Integers, FiniteSets

CONSTANTS
  MAX_DRIVERS, MAX_DEVICES,
  Types,           \* drv_type_t
  Drivers,         \* the driver_t of the callers
  Info,            \* [Drivers -> [type, ops, accepts]]: ops is NULL or the set of its
                   \* non-null entries, accepts says whether probe returns 0
  Ids,             \* the dev->id that callers choose, 0 for "choose one"
  NULL,
  MAX_DRIFT        \* bound: how far below 0 driver_count is followed

ASSUME DrvAssumption ==
  /\ MAX_DRIVERS \in Nat \ {0} /\ MAX_DEVICES \in Nat \ {0}
  /\ Ids \subseteq Nat /\ MAX_DRIFT \in Nat
  /\ DOMAIN Info = Drivers
  /\ \A d \in Drivers : Info[d].type \in Types /\ Info[d].accepts \in BOOLEAN
  /\ NULL \notin Int /\ NULL \notin Drivers /\ \A d \in Drivers : d \notin Int

DriverSlots == 0 .. MAX_DRIVERS - 1
DeviceSlots == 0 .. MAX_DEVICES - 1

VARIABLES
  drivers,         \* [DriverSlots -> Drivers \cup {NULL}], the latest copied in
  registered,      \* the slots whose registered field is 1
  driver_count,
  devices,         \* [DeviceSlots -> [type, driver, id]]
  active,          \* the slots whose active field is 1
  device_count,
  known,           \* the slots that callers have pointers to
  accepted         \* history: the driver whose probe bound the device, NULL once the
                   \* device is attached or that driver unregistered

driverTable == <<drivers, registered, driver_count>>
deviceTable == <<devices, active, device_count>>
vars        == <<driverTable, deviceTable, known, accepted>>

(* The static tables, and after them drv_init, hold zeroes. *)
Init ==
  /\ drivers = [s \in DriverSlots |-> NULL] /\ registered = {} /\ driver_count = 0
  /\ devices = [i \in DeviceSlots |-> [type |-> NULL, driver |-> NULL, id |-> 0]]
  /\ active = {} /\ device_count = 0
  /\ known = {} /\ accepted = [i \in DeviceSlots |-> NULL]

-----------------------------------------------------------------------------
First(S) == CHOOSE i \in S : \A j \in S : i <= j

FreeDriversAll == DriverSlots
FreeDrivers == DriverSlots \ registered

drv_register(d) ==
  LET s == First(FreeDrivers)
  IN  /\ Info[d].ops # NULL
      /\ driver_count < MAX_DRIVERS
      /\ FreeDrivers # {}
      /\ drivers' = [drivers EXCEPT ![s] = d]
      /\ registered' = registered \cup {s}
      /\ driver_count' = driver_count + 1
      /\ UNCHANGED <<deviceTable, known, accepted>>

CountAfterUnregisterForgotten == driver_count
CountAfterUnregister == driver_count - 1

(* Neither the registered field nor the devices bound to the driver are
   looked at.  A pointer that is not to a slot is refused. *)
drv_unregister(s) ==
  /\ driver_count > -MAX_DRIFT
  /\ registered' = registered \ {s}
  /\ driver_count' = CountAfterUnregister
  /\ accepted' = [i \in DeviceSlots |-> IF devices[i].driver = s THEN NULL ELSE accepted[i]]
  /\ UNCHANGED <<drivers, deviceTable, known>>

FreeDevices == DeviceSlots \ active

NewDeviceLast == CHOOSE i \in FreeDevices : \A j \in FreeDevices : j <= i
NewDevice == First(FreeDevices)

(* The whole device_t is copied in, driver field and all.  A chosen id is also
   written back into the caller's device_t, which it may register again. *)
dev_register(type, p, id) ==
  /\ device_count < MAX_DEVICES
  /\ FreeDevices # {}
  /\ devices' = [devices EXCEPT ![NewDevice] =
       [type |-> type, driver |-> p, id |-> IF id = 0 THEN NewDevice + 1 ELSE id]]
  /\ active' = active \cup {NewDevice}
  /\ device_count' = device_count + 1
  /\ UNCHANGED <<driverTable, known, accepted>>

(* Whether the device has a driver, and what the driver is for, is not asked. *)
drv_attach(i, p) ==
  /\ devices' = [devices EXCEPT ![i].driver = p]
  /\ accepted' = [accepted EXCEPT ![i] = NULL]
  /\ UNCHANGED <<driverTable, active, device_count, known>>

-----------------------------------------------------------------------------
(* drv_probe_all: the driver loop is outside the device loop, so a device
   goes to the first driver of its type that accepts it. *)
Accepts(s) == "probe" \in Info[drivers[s]].ops /\ Info[drivers[s]].accepts

Probes(s, i) ==
  /\ s \in registered /\ i \in active
  /\ devices[i].type = Info[drivers[s]].type
  /\ devices[i].driver = NULL
  /\ Accepts(s)

Takers(i) == {s \in DriverSlots : Probes(s, i)}
ProbedFirstOnly == {i \in DeviceSlots : Takers(i) # {} /\ \A j \in 0 .. i - 1 : Takers(j) = {}}
Probed == {i \in DeviceSlots : Takers(i) # {}}

Binding(i) == First(Takers(i))

drv_probe_all ==
  /\ devices' = [i \in DeviceSlots |->
       IF i \in Probed THEN [devices[i] EXCEPT !.driver = Binding(i)] ELSE devices[i]]
  /\ accepted' = [i \in DeviceSlots |->
       IF i \in Probed THEN drivers[Binding(i)] ELSE accepted[i]]
  /\ known' = known \cup {Binding(i) : i \in Probed}
  /\ UNCHANGED <<driverTable, active, device_count>>

Pointers  == known \cup Drivers
GivenIds  == {devices[i].id : i \in active}

Next ==
  \/ \E d \in Drivers : drv_register(d)
  \/ \E s \in known : drv_unregister(s)
  \/ \E t \in Types, p \in Pointers \cup {NULL}, id \in Ids \cup GivenIds : dev_register(t, p, id)
  \/ \E i \in active, p \in Pointers : drv_attach(i, p)
  \/ drv_probe_all

Spec == Init /\ [][Next]_vars

-----------------------------------------------------------------------------
(* What a call through a device finds.  The registered field of the driver is
   not looked at. *)
Target(p) == IF p \in DriverSlots THEN drivers[p] ELSE p

Calls(i, op) ==
  /\ i # NULL /\ devices[i].driver # NULL
  /\ LET ops == Info[Target(devices[i].driver)].ops IN ops # NULL /\ op \in ops

dev_get_by_type(type) ==
  LET found == {i \in active : devices[i].type = type}
  IN  IF found = {} THEN NULL ELSE First(found)

dev_get(id) ==
  LET found == {i \in active : devices[i].id = id}
  IN  IF found = {} THEN NULL ELSE First(found)

-----------------------------------------------------------------------------
TypeOK ==
  /\ drivers \in [DriverSlots -> Drivers \cup {NULL}]
  /\ registered \subseteq {s \in DriverSlots : drivers[s] # NULL /\ Info[drivers[s]].ops # NULL}
  /\ driver_count \in -MAX_DRIFT .. MAX_DRIVERS
  /\ devices \in [DeviceSlots -> [type : Types \cup {NULL},
                                  driver : DriverSlots \cup Drivers \cup {NULL}, id : Nat]]
  /\ active \subseteq DeviceSlots /\ device_count \in 0 .. MAX_DEVICES
  /\ known \subseteq {s \in DriverSlots : drivers[s] # NULL}
  /\ accepted \in [DeviceSlots -> Drivers \cup {NULL}]

(* A table that refuses an entry has no free slot.  drv_unregister takes any
   slot, registered or not, so the counter and the table drift apart; the
   drift must never be one that closes the table early. *)
RefusedOnlyWhenFull ==
  /\ driver_count >= MAX_DRIVERS => registered = DriverSlots
  /\ device_count >= MAX_DEVICES => active = DeviceSlots

(* The calls through a device that drv_probe_all has bound reach the driver
   whose probe accepted it, one of the type of the device, whatever is
   registered since: until the device is attached to something else, or that
   driver is unregistered and its slot may be used again. *)
ReachesItsDriver ==
  \A i \in active : accepted[i] # NULL =>
    /\ Target(devices[i].driver) = accepted[i]
    /\ Info[accepted[i]].type = devices[i].type

(* Devices may have one id, and several one type: dev_register compares a
   chosen id with nobody's.  The clash hides the newcomer and never takes a
   device from those who found it: no call changes what dev_get returns for an
   id in use, or dev_get_by_type for a type in use. *)
LookupsStable ==
  [][/\ \A id \in GivenIds : dev_get(id)' = dev_get(id)
     /\ \A t \in Types : LET i == dev_get_by_type(t) IN i # NULL => dev_get_by_type(t)' = i]_vars

(* drv_probe_all leaves no device that some driver accepts: called again at once
   it would find nothing to do. *)
ProbeFindsAll == [][Probed' # {} => ~drv_probe_all]_vars
=============================================================================
