-------------------------------- MODULE Vfs ---------------------------------
(***************************************************************************)
(* The device nodes of kernel/vfs/vfs.c over the driver framework: a table *)
(* of nodes that are only ever added, and reads and writes dispatched      *)
(* through it.  A write to a console node goes to the first display and    *)
(* the first serial device, whatever device the node was registered with.  *)
(*                                                                         *)
(* A buffer is its length.  A driver's write either takes the whole buffer *)
(* and returns the length as an int, or returns -1, as every driver of the *)
(* repository does.                                                        *)
(***************************************************************************)
EXTENDS Drv

CONSTANTS
  VFS_NODE_MAX,
  NodeIds,           \* vfs_node_id_t
  ConsoleIds,        \* STDOUT, STDERR and CONSOLE
  Lengths,           \* the buffer lengths of callers, uint64_t
  INT_MAX            \* of the int that the drivers and vfs_write return

ASSUME VfsAssumption ==
  /\ VFS_NODE_MAX \in Nat \ {0}
  /\ ConsoleIds \subseteq NodeIds
  /\ Lengths \subseteq Nat
  /\ INT_MAX \in Nat \ {0}

NodeSlots == 0 .. VFS_NODE_MAX - 1

VARIABLES
  nodes,             \* [NodeSlots -> node or NULL], NULL where active is 0
  ret,               \* what the latest vfs_write returned
  sent,              \* history: the length of the buffer it was given
  taken              \* the devices whose driver took the buffer

vfs     == <<nodes, ret, sent, taken>>
vfsVars == <<vars, vfs>>

VfsInit ==
  /\ Init
  /\ nodes = [n \in NodeSlots |-> NULL]
  /\ ret = 0 /\ sent = 0 /\ taken = {}

-----------------------------------------------------------------------------
vfs_register(id, dev) ==
  LET free == {n \in NodeSlots : nodes[n] = NULL}
  IN  /\ free # {}
      /\ nodes' = [nodes EXCEPT ![First(free)] =
                     [id |-> id, device |-> dev, is_console |-> id \in ConsoleIds]]
      /\ UNCHANGED <<vars, ret, sent, taken>>

vfs_get(id) ==
  LET found == {n \in NodeSlots : nodes[n] # NULL /\ nodes[n].id = id}
  IN  IF found = {} THEN NULL ELSE First(found)

(* The device a call on a node id reaches, NULL if there is no such node. *)
NodeDevice(id) == IF vfs_get(id) = NULL THEN NULL ELSE nodes[vfs_get(id)].device

(* The conversion of a length to int: it wraps around at INT_MAX. *)
ToInt(len) == ((len + INT_MAX + 1) % (2 * (INT_MAX + 1))) - (INT_MAX + 1)

(* drv_call_write: -1 without a driver or without its write function; the
   driver itself may also fail. *)
Writable(devs) == {i \in devs : Calls(i, "write")}
Result(i, len, took) == IF i \in took THEN ToInt(len) ELSE -1

TotalSummed(total, n) == IF n > 0 THEN total + n ELSE total
TotalUnguarded(total, n) == n
Total(total, n) == IF n > 0 THEN n ELSE total

ConsoleWrite(len) ==
  LET display == dev_get_by_type("DISPLAY")
      serial  == dev_get_by_type("SERIAL")
  IN  \E took \in SUBSET Writable({display, serial}) :
        LET afterDisplay == IF display = NULL THEN 0 ELSE Total(0, Result(display, len, took))
        IN  /\ ret' = IF serial = NULL THEN afterDisplay
                                       ELSE Total(afterDisplay, Result(serial, len, took))
            /\ taken' = took

DeviceWrite(i, len) ==
  \E took \in SUBSET Writable({i}) : ret' = Result(i, len, took) /\ taken' = took

vfs_write(id, len) ==
  /\ \/ NodeDevice(id) = NULL /\ ret' = -1 /\ taken' = {}
     \/ /\ NodeDevice(id) # NULL
        /\ IF nodes[vfs_get(id)].is_console THEN ConsoleWrite(len)
                                            ELSE DeviceWrite(NodeDevice(id), len)
  /\ sent' = len
  /\ UNCHANGED <<vars, nodes>>

(* Callers take the device of a node from dev_get; it may be missing. *)
VfsNext ==
  \/ Next /\ UNCHANGED vfs
  \/ \E id \in NodeIds, dev \in active \cup {NULL} : vfs_register(id, dev)
  \/ \E id \in NodeIds, len \in Lengths : vfs_write(id, len)

VfsSpec == VfsInit /\ [][VfsNext]_vfsVars

-----------------------------------------------------------------------------
VfsTypeOK ==
  /\ TypeOK
  /\ nodes \in [NodeSlots -> [id : NodeIds, device : DeviceSlots \cup {NULL},
                              is_console : BOOLEAN] \cup {NULL}]
  /\ ret \in {ToInt(len) : len \in Lengths} \cup {0, -1}
  /\ sent \in Lengths \cup {0} /\ taken \subseteq DeviceSlots

(* A write of a buffer that an int can count reports a length if and only if
   some device took the buffer: on the console one sink that fails must not
   hide the other, nor a missing one count.  Of a longer buffer, or an empty
   one, the value returned says nothing. *)
WriteReportsDelivery == sent \in 1 .. INT_MAX => (ret > 0 <=> taken # {})
=============================================================================
