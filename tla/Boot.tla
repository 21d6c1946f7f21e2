-------------------------------- MODULE Boot --------------------------------
(***************************************************************************)
(* The boot: the selectors that bootloader.asm, gdt.c, syscall.c and       *)
(* userland.asm load, and the part of kernel/kernel.c and                  *)
(* kernel/drv/subsystem.c that uses the driver framework and the device    *)
(* nodes, from the first instruction in long mode to the jump to ring 3.   *)
(* It is one thread, so the boot is a script of calls; each step is the    *)
(* next call, with Drv and Vfs saying what the call does.                  *)
(***************************************************************************)
EXTENDS Vfs, Sequences

CONSTANTS Vga, Serial, Rtc, Kbd       \* vga_driver, serial_driver, rtc_driver, kbd_driver

VARIABLES
  pc,                \* the next call of Script
  gdt,               \* the kinds of the descriptors lgdt has loaded
  fault,             \* the selector whose load faulted, NULL before that
  msrs,              \* whether syscall_init has written STAR, LSTAR and FMASK
  initialised,       \* the devices whose driver's init has run
  printed            \* the subsystems boot_ok has printed on some device

cpu      == <<gdt, fault, msrs>>
bootVars == <<vfsVars, pc, cpu, initialised, printed>>

Call(f, a) == [call |-> f, arg |-> a]

(* The devices in the order of their registration, with the ids they carry. *)
Device == [DISPLAY |-> 1, SERIAL |-> 2, RTC |-> 3, KEYBOARD |-> 4]

SubsystemScript ==
  <<Call("drv_register", Vga), Call("drv_register", Serial),
    Call("drv_register", Rtc), Call("drv_register", Kbd),
    Call("dev_register", "DISPLAY"), Call("dev_register", "SERIAL"),
    Call("dev_register", "RTC"), Call("dev_register", "KEYBOARD"),
    Call("drv_probe_all", NULL), Call("init_devices", NULL),
    Call("vfs_register", <<"DISPLAY", "DISPLAY">>), Call("vfs_register", <<"SERIAL", "SERIAL">>),
    Call("vfs_register", <<"RTC", "RTC">>), Call("vfs_register", <<"KBD", "KEYBOARD">>),
    Call("vfs_register", <<"STDOUT", "DISPLAY">>), Call("vfs_register", <<"KBDIN", "KEYBOARD">>)>>

(* The kinds of the descriptors from index 1 on; the rest of the table is zero. *)
gdt64       == <<"code0", "data0">>
gdt_entries == <<"code0", "data0">>

Load(selector, kind) == Call("load", [index |-> selector \div 8, selector |-> selector,
                                      kind |-> kind])

BootLoaderScript == <<Call("lgdt", gdt64), Load(8, "code0"), Load(16, "data0")>>

(* From tss_init on: ltr 0x2B, the lines of show_shell_info, and the segments
   that userland_enter loads. *)
Ring3Script ==
  <<Load(43, "tss"), Call("syscall_init", NULL),
    Call("boot_ok", "TSS"), Call("boot_ok", "Syscall MSRs"), Call("boot_ok", "GDT user segments"),
    Load(35, "data3"), Load(27, "code3")>>

Script ==
  BootLoaderScript
  \o <<Call("lgdt", gdt_entries), Load(16, "data0")>>
  \o <<Call("boot_ok", "Memory"), Call("boot_ok", "IDT")>>
  \o SubsystemScript
  \o <<Call("boot_ok", "Subsystem"), Call("boot_ok", "Display"), Call("boot_ok", "Serial"),
       Call("boot_ok", "Keyboard"), Call("boot_ok", "RTC"), Call("boot_ok", "Timer"),
       Call("boot_ok", "PIC")>>
  \o Ring3Script

BootInit ==
  /\ VfsInit
  /\ pc = 1 /\ gdt = <<>> /\ fault = NULL /\ msrs = FALSE
  /\ initialised = {} /\ printed = {}

(* A fault ends the boot: panic_handler halts. *)
Calling(f) ==
  /\ fault = NULL
  /\ pc <= Len(Script) /\ Script[pc].call = f /\ pc' = pc + 1
Arg == Script[pc].arg

-----------------------------------------------------------------------------
RegisterDriver ==
  /\ Calling("drv_register") /\ drv_register(Arg)
  /\ UNCHANGED <<vfs, cpu, initialised, printed>>

RegisterDevice ==
  /\ Calling("dev_register") /\ dev_register(Arg, NULL, Device[Arg])
  /\ UNCHANGED <<vfs, cpu, initialised, printed>>

Probe ==
  /\ Calling("drv_probe_all") /\ drv_probe_all
  /\ UNCHANGED <<vfs, cpu, initialised, printed>>

(* The loop over the ids 1 .. MAX_DEVICES: a device without a driver, or whose
   driver has no init, is passed over. *)
InitDevices ==
  /\ Calling("init_devices")
  /\ initialised' = {i \in {dev_get(id) : id \in 1 .. MAX_DEVICES} : Calls(i, "init")}
  /\ UNCHANGED <<vfsVars, cpu, printed>>

(* The device of a node is looked up by its name; a missing one would be NULL. *)
RegisterNode ==
  /\ Calling("vfs_register") /\ vfs_register(Arg[1], dev_get(Device[Arg[2]]))
  /\ UNCHANGED <<cpu, initialised, printed>>

(* boot_ok ignores what vfs_write_str returns. *)
boot_ok ==
  /\ Calling("boot_ok")
  /\ \E len \in Lengths : vfs_write("STDOUT", len)
  /\ printed' = IF taken' # {} THEN printed \cup {Arg} ELSE printed
  /\ UNCHANGED <<cpu, initialised>>

gdt_load ==
  /\ Calling("lgdt") /\ gdt' = Arg
  /\ UNCHANGED <<vfsVars, fault, msrs, initialised, printed>>

(* Loading a segment or the task register needs a descriptor of its kind. *)
LoadSelector ==
  /\ Calling("load")
  /\ \/ /\ Arg.index \in DOMAIN gdt /\ gdt[Arg.index] = Arg.kind
        /\ UNCHANGED fault
     \/ /\ ~(Arg.index \in DOMAIN gdt /\ gdt[Arg.index] = Arg.kind)
        /\ fault' = Arg.selector
  /\ UNCHANGED <<vfsVars, gdt, msrs, initialised, printed>>

syscall_init ==
  /\ Calling("syscall_init") /\ msrs' = TRUE
  /\ UNCHANGED <<vfsVars, gdt, fault, initialised, printed>>

BootNext ==
  \/ gdt_load \/ LoadSelector \/ syscall_init
  \/ RegisterDriver \/ RegisterDevice \/ Probe \/ InitDevices \/ RegisterNode \/ boot_ok

BootSpec == BootInit /\ [][BootNext]_bootVars

-----------------------------------------------------------------------------
(* "COM1 @ 115200 baud" is printed as OK: by then the driver of the serial
   device has programmed the port. *)
SerialReported == "Serial" \in printed => dev_get_by_type("SERIAL") \in initialised

(* show_shell_info reports "TSS configured" and "GDT user segments (0x23, 0x1B)",
   and krnl_main announces the jump to ring 3: every selector that the boot loads
   has its descriptor. *)
SelectorsPresent == fault = NULL
=============================================================================
