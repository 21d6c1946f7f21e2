# FenwickOS in TLA+

FenwickOS is a small x86-64 kernel: C under `src/kernel`, a library in Rust
under `src/lib/libk`, a boot loader and stubs in assembly.  This directory
holds TLA+ models of its parts, TLC configurations that check them on small
instances, and proofs that TLAPS checks for every value of the constants.

## The system

| Part | Source | State | Operations | What is hard, and what makes it correct |
|---|---|---|---|---|
| Boot | `kernel.c`, `drv/subsystem.c`, `gdt/`, `bootloader.asm`, `userland.asm` | the descriptor table, the selectors | `krnl_main`, `subsystem_init`, `gdt_init`, `tss_init`, `syscall_init`, `boot_ok`, `userland_enter` | one thread, but each step relies on the ones before it: what it reports as OK should be so, and every selector it loads has its descriptor |
| Page allocator, paging | `mm/paging.c`, `mm/mm.c` | `page_bitmap`, `pages`, the page tables, `current_dir`, cr3, the TLB | `mm_init`, `mm_alloc_page`, `mm_free_page`, `mm_map_page`, `mm_unmap_page`, `paging_switch_directory` | running out of memory half way through a walk; stale translations; no page in two hands; directories stay independent |
| Free-list heap | `mm/paging.c` 232-317 | block list and counters | `heap_init`, `heap_find_best_fit`, `heap_split_block` | only `heap_init` has a caller; it lies over the kernel's image |
| Kernel heap | `lib/libk/src/memory.rs` | `HEAP_START`, `HEAP_END`, `HEAP_CURRENT` | `kheap_init` (nobody calls it), `kmalloc`, `kmalloc_aligned`, `krealloc`, `kfree` | arithmetic on `usize` near its end; blocks disjoint and aligned |
| Interrupts | `idt/idt.c`, `idt/idt.asm`, `panic.c` | the gate table, two 8259A, the stack, `timer_ticks` | `idt_install`, the stubs, `irq_handler`, `isr_handler`, `panic_handler` | devices raise lines at any time; the order of set-up; stack balance; one end of interrupt per controller |
| Keyboard | `kbd/kbd.c` | ring, modifiers, pressed keys | `kbd_init`, `kbd_handler` (IRQ 1), `kbd_getchar` | the handler interrupts the reader between any two statements |
| Keyboard driver | `drv/drv_kbd.c` | a second ring and key state | `kbd_handler_isr` (nobody calls it), `kbd_driver_read`, `kbd_driver_ioctl` | the same, with a read of many characters in one call |
| Driver framework | `drv/drv.c` | two tables, two counters, pointers between them | `drv_register`, `drv_unregister`, `dev_register`, `drv_attach`, `drv_probe_all`, `drv_call_*` | long sequences of legal calls; pointers into reused slots |
| Device nodes | `vfs/vfs.c` | node table | `vfs_register`, `vfs_get`, `vfs_write`, `vfs_read`, `vfs_ioctl` | a write to the console goes to two devices, either of which may fail |
| Display driver | `drv/drv_vga.c` | screen, cursor, colour | `vga_driver_init`, `vga_driver_write`, `vga_driver_ioctl` | wrap, scroll and tab in one character |
| Serial driver | `drv/drv_serial.c` | - | `serial_driver_init`, `serial_driver_write` | waits without limit for the transmitter |
| Clock | `drv/drv_rtc.c`, `rtc/rtc.c` | the CMOS registers | `rtc_driver_read`, `rtc_get_time`, `rtc_driver_init` | registers read one at a time while the clock runs; BCD; 12-hour mode: but for the hours of 12-hour mode, a time read is not before the start of the read nor, if no minute ends meanwhile, after its end |
| System calls | `syscall/syscall.c`, `syscall/syscall.asm`, `userland.asm` | call table, the saved registers | `syscall_entry`, `syscall_register`, `syscall_handle`, `syscall_init`, `tss_init` | the save area must balance; nothing gets there (see below) |
| Kernel library | `lib/libk/src/stdio.rs`, `string.rs`, ... | a second screen cursor and colour | `kputc`, `kputs`, `kprintf`, `kset_color`, `kclear_screen`, string functions | two writers on one screen; wrap, scroll and tab; where `kprintf` finds its arguments |

How the parts meet: the interrupt stubs call `irq_handler`, which calls
`kbd_handler`; the driver framework calls the drivers through their operation
tables; the nodes reach devices through the framework; `krnl_main` runs
everything else in one thread, with interrupts enabled from the end of
`idt_install` on.  There is one processor.  Nothing is stored across restarts.

## The modules

| Module | Models | Composition |
|---|---|---|
| `KeyQueue` | what a keyboard buffer promises: a bounded FIFO queue | abstract specification |
| `Ring` | the index arithmetic of the keyboard rings, and the sequence a ring stands for | used by `Keys` |
| `Keys` | the scancodes both keyboard drivers treat apart | extends `Ring` |
| `Kbd` | `kbd.c` | extends `Keys`, implements `KeyQueue` |
| `DrvKbd` | `drv_kbd.c` | extends `Keys`, implements `KeyQueue` |
| `Keyboards` | the two drivers on one keyboard | extends `Kbd`, an instance of `DrvKbd` |
| `AddressSpaces` | what paging promises: one map per directory | abstract specification |
| `Paging` | `paging.c` without its heap, and the TLB | implements `AddressSpaces` |
| `BumpHeap` | `memory.rs` | |
| `Drv` | `drv.c` | |
| `Vfs` | `vfs.c` | extends `Drv`: every state of the framework is a state under the nodes |
| `Boot` | `krnl_main`, `subsystem.c`, the descriptor tables and selectors | extends `Vfs`; its steps are calls of `Drv` and `Vfs` |
| `Vga` | `drv_vga.c` | |
| `Console` | the console of `stdio.rs`, beside the driver on one screen | extends `Vga` |
| `Rtc` | `drv_rtc.c`, `rtc.c`, with the clock | |
| `Kprintf` | `libk_shim.c` and `kprintf_va` | |
| `Irq` | `idt.c`, `idt.asm`, `panic.c`, with the 8259A | |
| `KbdProofs`, `KeyboardsProofs` | proofs about the rings and about the two drivers | extend `Kbd`, and `Keyboards` with `KbdProofs` |
| `PagingProofs`, `BumpHeapProofs` | proofs about memory | extend `Paging`, `BumpHeap` |
| `VfsProofs` | proofs about the framework and the nodes | extends `Vfs`, and so `Drv` |
| `IrqProofs`, `ConsoleProofs`, `RtcProofs` | proofs about interrupts, the screen and the clock | extend `Irq`, `Console`, `Rtc` |
| `MC*` | values for TLC | |

Names are the source's names.  An action is the whole function, unless
something may run between its statements.  An operator whose name is that of
another one with a suffix (`NextSlotNoWrap`, `FitsUnchecked`) is not part of
the model: it is a plausible mistake in the operator after it, kept to show that
the properties notice it.

### Keyboards (`Keys`, `Kbd`, `DrvKbd`, `Keyboards`)

There are two keyboard drivers, each with its own ring, modifiers and key
states.  In both the handler is one step, because interrupt gates disable
interrupts, and the thread can be interrupted anywhere: `kbd_getchar` is three
steps (test, load, advance), `kbd_driver_read` a loop of the same three, and
each of the two resets is one step per statement and per slot or entry it
clears.  `pc` is the statement that comes next.  The compiler is run without
optimisation, so that statements happen in source order.  A character is the code of its key and which
of the two tables it comes from; which codes have a character is a set.

The two differ where the models do: in `kbd.c` Caps Lock turns a lower-case
letter into an upper-case one, in `drv_kbd.c` it swaps the case of either;
`kbd_init` leaves all keys but Caps Lock pressed, `kbd_driver_init` forgets
them all.  `DrvKbd` keeps the keys that are down in a history variable, since
the driver's own record of them is what its property is about.

`Keyboards` puts them side by side.  The controller raises one interrupt line
and a byte is read from it once, so one handler gets every key: `handler` is
the one IRQ 1 calls.  As `irq_handler` stands that is `kbd_handler`.

### Console (`Console`)

`stdio.rs` has a cursor and a colour of its own and writes to the screen
of `Vga`.  Both writers are characters at a time; they differ in when they
wrap, the driver after the last column and the console before the next
character.  The byte 0 with which `stdio.rs` fills a line is a blank.

### Clock (`Rtc`)

The clock turns over while a read is on its way.  Its registers are read one at
a time, so a step of `ReadRegister` sees the clock of its own moment.
`rtc_get_time` differs from `rtc_get_raw` only in leaving register C alone, which
no property looks at: `status_c` and the periodic bit are there because the
code changes them.  The four forms that register B selects are all initial
states.  `MAX_TICKS` bounds the seconds that end during a read, which is short: a
minute is far more than fifteen port accesses take.

The registers of the clock are assumed to change together.  A real one may be for
a while between two times, and what its registers show then is undefined; the
readers look at no update flag and would return it.  The theorems hold of the
reads that meet no such window.

`HourShown` is the hour that the conversion makes of an hour in the form of
register B: in 12-hour mode it is another one for 12 AM, for 12 PM with binary
numbers and for the hours from 1 PM on with BCD.  `NeverBehind` and `ReadExact`
say of every read which hour it returns, and compare the rest with that hour put
right.

### Formatted output (`Kprintf`)

`va_list` is what the x86-64 calling convention makes it, found also in the
code the compiler produces: the record, and right behind it the save area of
the argument registers.  A step is one character of the format.

### Paging (`Paging`)

Pages are numbered; memory maps a page to the table of entries it would be read
as.  A page that was never a table is `JUNK`, entries that look present, so that
a table that is not cleared is seen.  `get_pte` is a chain of three `Level`s on
a record that carries memory and allocator, as the function may fail after it
has linked one or two new tables.  The TLB may load any translation at any time
and loses one only by `invlpg` and by a load of cr3.  `use` is a history
variable: what each page was last handed out as.

The callers map pages they hold or reserved ones, and free pages they hold and
have unmapped; the code checks neither and has no caller to look at.
Directories do not map the kernel itself, so the model says nothing about the
instruction after a switch.

### Kernel heap (`BumpHeap`)

Addresses wrap at `WORD` except in `checked_add`.  `live` is what the callers
hold.  An arena ends at or below half of the address space; heaps in the
upper half, where `current + offset` itself could wrap, are left out.  A refused
request changes nothing and is no step.

### Driver framework, nodes and boot (`Drv`, `Vfs`, `Boot`)

A pointer into a table is an index, a `driver_t` of a caller a model value, and
`Info` says what it holds.  The framework checks little, and the model's callers
do whatever it lets them: register a device with any driver in its driver
field and with any id, its own of an earlier registration included (`GivenIds`),
attach any driver to any device, and unregister a driver twice, so that
`driver_count` falls below the number of registered drivers, followed down to
`-MAX_DRIFT`, the only bound.  What they need are pointers: to drivers of their
own, and to the slots that probing has left in the driver fields of devices
(`known`), which they may keep.  A device may call a driver after it was
unregistered: `Calls` does not look at `registered`, as the code does not.

`accepted` is a history variable, the driver whose probe accepted the device.
`ReachesItsDriver` compares it with the driver that a call through the device
finds now (`Target`), until the device is attached to something else or the
driver is unregistered: then the caller has asked for what follows.

In `Vfs` a buffer is its length, and a driver takes all of it and returns the
length as an `int` (`ToInt` wraps at `INT_MAX`), or returns -1.  `sent` and `taken`
remember the length of the last one and who took it.  `Boot` is a script of the calls that
`krnl_main` and `subsystem_init` make and of the selectors loaded on the way,
from the first instruction in long mode to `userland_enter`.  A descriptor is
its kind, and a selector that does not find one of the kind it needs is a fault,
with which the boot ends.

### Display (`Vga`)

A step is one character.  A tab is one step that puts up to four spaces, each
of which may wrap.  The number of columns is a multiple of 4, as 80 is.

### Interrupts (`Irq`)

`idt_install` is six steps, and lines may be raised before, between and after
them.  The controllers are modelled from how the code programs them: edge
triggered, line 2 the cascade, a request held until acknowledged, lower lines
blocked while one is in service, a non-specific end of interrupt that clears
the highest one in service.  A request withdrawn too early is answered as line
7 or 15 without being in service (`Spurious`).  The stack is a sequence of
words, so what `[rsp + 8]` holds is computed and not assumed.  `kbd_handler`
is here only the read of the controller's byte.  A fault may strike the
interrupted code from `lidt` on; before it there is no table of the kernel's to
enter.  No exception has vector 9: a
64-bit processor raises none, and `idt_install` gives that vector no stub.

`Kbd` models the handler as the code means it to be called.  `Irq` shows that
it is not: `irq_common` takes its argument from the wrong word, so
`irq_handler` sees 0 for every line.  It then ends the interrupt at both
controllers (0 - 32 is 224 as a `uint8_t`), which is why nothing is left in
service all the same.

## The runs

| Run | Configuration | Checks |
|---|---|---|
| `keyboards` | `Keyboards.cfg`: 3 slots, 7 scancodes, reads of up to 2 characters | `RefinesKeyQueue`, `DrvRefinesKeyQueue`: no interleaving loses, repeats, reorders or overwrites a waiting character; `RingKeepsKey`: a key is dropped only on a full ring; `ModifiersHeld`, `DrvKeysDown`: no modifier or key state outlives its keys, with a reset at any point; `DrvReadReturns`: a read ends however fast the ring is refilled |
| `paging_tables` | `PagingTables.cfg`: 6 pages, 2 directories, 3 addresses, 2 of them in one table | `PagesAccounted`, `TreeShaped`, `MappedPagesHeld`, `TlbCoherent`, `MapFailsOnlyWhenExhausted`, `RefinesAddressSpaces` |
| `heap_blocks` | `HeapBlocks.cfg`: a 5-bit `usize` | `BlocksDisjoint`, `BlocksAligned`, `CopyDisjoint`, `RefusedOnlyWhenFull` |
| `vfs_nodes` | `VfsNodes.cfg`: 2 drivers, 2 devices, 1 node, an `int` that counts to 3 | of the framework `RefusedOnlyWhenFull`; `ReachesItsDriver`: a probed device goes on calling the driver that accepted it; `LookupsStable`: clashing ids never change what a lookup finds; `ProbeFindsAll`; of the nodes `WriteReportsDelivery` |
| `screen` | `Screen.cfg`: 2 lines of 4 columns, 2 writers | `TextKept`: nothing before a writer's cursor is lost; `OnlyItsCells`: nothing else changes but the cells the writer passes and the line a scroll opens; `GlyphVisible`, `TabAligns` |
| `irq_service` | `IrqService.cfg`: 5 lines, 3 faults | `EntersItsStub`, `NothingLeftInService`, `ReturnsToInterrupted`, `TimerServed` |
| `rtc` | `Rtc.cfg`: 11 moments, up to 2 seconds per read | `NeverBehind`: a torn read returns the hour of its start or its end as its form shows it, and with that hour is never a time before its start; `ReadExact`: a read in which no minute ends returns the hour of its start as its form shows it, and with that hour is between its start and its end |
| `irq_ticks` | `IrqTicks.cfg` | finds `TicksCountInterrupts` violated |
| `irq_panic` | `IrqPanic.cfg` | finds `PanicNamesFault` violated |
| `boot_serial` | `BootSerial.cfg` | finds `SerialReported` violated |
| `boot_ring3` | `BootRing3.cfg` | finds `SelectorsPresent` violated |
| `kprintf_args` | `KprintfArgs.cfg` | finds `PrintsItsArguments` violated |

Every module's type invariant is checked by the run that composes it.

Why the bounds are enough.  A ring of 3 slots is full with 2 characters, wraps,
and lets the handler fill it while the reader is in the middle; a read of 2
characters finds the ring empty, full or refilled between its loads; for
both drivers every larger ring is covered by proof.  Six pages with one reserved just
do not hold the tables of the three addresses in both directories, so every level of
the walk runs out of memory in some state, and directories are switched with
translations of both in the TLB.  A 5-bit `usize` has sizes that overflow, an
arena at 0, an unaligned one, and one that ends at half of the address space, the
last that `HeapAssumption` allows.  Two driver
slots with two drivers are reused, overfilled and counted twice, and the two
devices may be of one type or of two and share an id.  One node is enough: a
write looks at one, and the others of a table are covered by proof.  A buffer of 3
bytes fits the `int`, one of 5 comes back negative.  `MAX_DRIFT` is 0: the counter
falls behind the table from 2 down to 0, and further down by proof.  Two lines of one tab's width make
every character wrap and every second line scroll, for a writer that leads and
one that follows; two colours tell cells apart, so one glyph is enough.  Five
lines are both controllers, the cascade's neighbours and both sides of the
priority order.  The moments of the clock are before every carry that exists,
noon and midnight included, and two seconds let one pass anywhere in a read.

### What the violations show

* **The timer does not tick** (`irq_ticks`).  `boot_ok("Timer", "PIT 100Hz (10ms
  ticks)")`; but `irq_common` passes `[rsp + 8]`, which is the 0 the stub pushed
  below the vector.  `timer_wait` never returns and the keyboard is never read.
* **The panic screen names the wrong exception** (`irq_panic`).  The same slip in
  `isr_common`: the error code is taken for the vector, and the return address
  for the error code.
* **The serial port is reported without being set up** (`boot_serial`).  Its
  driver has no `probe`.
* **The boot never reaches ring 3** (`boot_ring3`).  `tss_init` loads 0x2B, entry
  5 of a table in which `gdt_init` fills only 1 and 2.  The log promises "Loading
  userland (sh.elf) and jumping to Ring 3..." and would say "TSS configured" and
  "GDT user segments (0x23, 0x1B)" next; those two entries are zero too.
* **`kprintf` does not print its arguments** (`kprintf_args`).  It casts its
  `va_list` to a pointer to words.  The first four conversions of a call print the
  fields of the record and an unwritten word; only the fifth prints the first argument.

### What the models show besides

No document says otherwise, so none of these is checked as a violation.

* Releasing one Shift clears SHIFT while the other is still down (`kbd.c:90`,
  `drv_kbd.c:91`), so the converse of `ModifiersHeld` does not hold.
* A key goes to the ring of `kbd.c`; the keyboard node, and so `sys_read`,
  reads the ring of `drv_kbd.c`, which stays empty.
* After `paging_init` the current directory is not the one in cr3: until the
  first `paging_switch_directory`, `mm_map_page` edits tables the processor does
  not use.  Nothing in the repository makes that call.
* `kfree` frees nothing: the allocator that is linked is the one of `memory.rs`.
  Of the free-list heap in `paging.c` only `heap_init` runs, and writes its header
  over the first bytes of the kernel at 0x100000, boot code that is done by then.
* The first two `boot_ok` of the boot reach nobody: the nodes do not exist yet.
* The driver's and the console's cursor do not follow each other: on the common screen
  each overwrites what the other wrote below its own cursor, and
  `vga_driver_init` clears what the console has printed by then.
* In 12-hour mode 12 AM and 12 PM come back as each other with binary numbers; with
  BCD 12 AM comes back as 12, and 1 PM to 11 PM as the same hours of the morning
  (`HourShown`).  A torn read may be up to a century ahead: no code looks
  at the update-in-progress flag.
* `drv_unregister` leaves the devices' pointers to the slot it frees, and the next
  driver is put there: the device then calls a driver that may be of another type.
* `drv_attach` binds any driver to any device, in place of the one it has.
* Of two devices with one id `dev_get` finds the first, so a new device with an id in
  use cannot be found by it.
* For a buffer of 2^31 bytes or more `vfs_write` may return any number, by the
  conversion to `int`, and for an empty one 0, whoever took it.
* `kbd_handler_isr`, `kheap_init`, `mm_map_page`, `mm_unmap_page`, `mm_free_page`,
  `paging_switch_directory` and `drv_unregister` have no caller in the repository:
  what is shown of them is what callers may rely on.

### Fairness

`Irq` and `DrvKbd` have liveness properties.  `Irq`'s `Spec` assumes weak
fairness of `Cpu`, the disjunction of everything the processor does: it executes
its next instruction and answers a pending interrupt when interrupts are
enabled.  No device is obliged to raise its line.  `Keyboards` assumes weak
fairness of `kbd_driver_read`: a thread goes on between interrupts.  No
key is obliged to be pressed, nor to stop being pressed, so `DrvReadReturns`
rests on the bound of the caller's buffer.  `TimerServed` is about line 0, which
has the highest priority; for the others it would need an assumption on how
often the timer fires.  `Irq` turns deadlock checking off, because
`panic_handler` halts for good; `Boot` and `Kprintf` because a script and a
format end.

## The proofs

`KbdProofs`, from `RingAssumption` and `KbdAssumption`, begins with the lemmas on
ring arithmetic: what the sequence of a ring becomes when its end or its start
advances (`RingPush`, `RingPop`), for every size.  The operators that stand for
types are opaque there (`Buffer`, `Stores`), so that the provers see only what a
lemma needs.  Then:
* `TypeCorrect`: `Spec => []TypeOK`, one lemma for the handler and one step for
  each statement of the thread.
* `ModifiersAreHeld`: `ModifiersHeld` is inductive together with `TypeOK`.
* `RingIsAQueue`: `Spec => RefinesKeyQueue`.  `TypeOK` is not enough: between its
  load and its advance the reader relies on the character it has loaded still
  being the first one, and on the ring not having become empty.  `ReaderInv`
  says so, and it is inductive because the handler writes only at the end, which
  no full ring lets reach the start.  Each statement then maps to a step of the
  queue or to none.
* `KeysAreKept`: `Spec => RingKeepsKey`, from the same lemmas.

`KeyboardsProofs`, from these lemmas, the same two assumptions and `KeyboardsAssumption` (the length of a read
is a natural number), about `drv_kbd.c` as `BothSpec` runs it beside `kbd.c`:
* `DrvRingIsAQueue`: `BothSpec => DrvRefinesKeyQueue`.  `DrvRingIsRing` says that
  the operators of the instance are those of `Ring`, so that the lemmas of
  `KbdProofs` apply.  A character counts as taken when it is loaded, so that between a load
  and its advance what is unread is the tail of the ring; a push in between
  appends to that tail.  `DrvReaderInv` is what the reader relies on meanwhile.
* `DrvKeysAreDown`: the handler changes `flags`, `kbd_state` and the keys that are
  down together, and each statement of `kbd_driver_init` only clears.
* `DrvTypeCorrect`: with `TypeOK`, that a character is loaded only while
  `count < len`.

`BumpHeapProofs`, from `HeapAssumption`: `TypeCorrect`, `BlocksNeverOverlap`,
`CopiesNeverOverlap` and `BlocksStayAligned`.  The invariant is that every block
lies between `HEAP_START` and `HEAP_CURRENT`: a new block starts at or after the
cursor, so it is disjoint from the old ones, and the source of a copy lies below
its target.  `RefusalsAreNeeded`: two multiples of an alignment are that far
apart (`MultiplesApart`), so the padding `kmalloc_aligned` computes leads to the
first multiple at or after the cursor, and what does not fit there fits nowhere.

`PagingProofs`, from `PagingAssumption`, for every number of pages, entries per
table, directories and addresses.  The properties are far from inductive: that
no mapping reaches a free page needs to know that every table in use is one some
directory leads to, that tables are not shared, and that no table holds garbage.
`IInv` says so:
* `Accounted`: a page is free in the bitmap exactly while its use is "free".
* `Forest`: an entry of a table leads to a table of the next kind (`Leads`); exactly
  one entry leads to each table but the directories (`Parented`); an entry of a
  last table leads to a page a caller holds or a reserved one (`Held`); and every
  present entry of a last table belongs to an address that is in use, so that the
  owner of a page, who frees it when no address in use maps it, does not free a
  mapped page (`Covered`).
* `TlbCoherent`.

The walk is proved one level at a time.  `LevelDescends` says what a `Level`
does to memory, bitmap and uses, whether it finds a table, links a new one or
runs out, and `GetPte` composes three of them.  `WriteEntry` says that an entry
stored at the end of a walk changes that translation and no other, which needs
`Forest`: two addresses that end in one entry are one address.  From there
`TlbStaysCoherent` (one `invlpg` is enough), `MapFailsOnlyAtTheEnd` and, with
the map of `AddressSpaces` as the function from directories and addresses to
translations, `TablesAreMaps`: `Spec => RefinesAddressSpaces`.

`VfsProofs`, from `DrvAssumption` and `VfsAssumption`.  A loop that stops at the
first slot is `First`, the least element of a set (`LeastElement`, by the
library's `WFMin`).  `VfsKeepsDrv`: `VfsSpec => Spec`, so what follows about `Drv`
holds under the nodes.
* `TablesRefuseOnlyWhenFull`: `CountersBehind` - the counter of drivers never runs
  ahead of the table, since `drv_unregister` counts down also for a driver that is
  gone; that of devices is exact.  Both are about `Cardinality`.
* `ProbedReachTheirDriver`: a device whose driver has not been unregistered since
  points to a slot that is still registered and holds that driver
  (`ProbedPointToRegistered`).  It is inductive because `drv_register` takes only
  slots that are not registered and `drv_probe_all` compares types.
* `LookupsAreStable`: no device is removed, so the devices fill the table from its start
  (`Packed`) and a new one comes after all others (`NewDeviceIsNext`); a loop that
  finds the first of a set finds the same first of a larger one whose new members
  come later (`FirstOfMore`).
* `ProbeIsComplete`: about a single call, from the types alone.
* `WritesReportDelivery`: `WriteDelivers` goes through the cases of a console
  write, in which one or both of the two devices take the buffer; a length up to
  `INT_MAX` survives the conversion (`ToIntExact`).

`IrqProofs`, from `IrqAssumption`, for every set of lines and exceptions.  `IInv`
is `TypeOK`, `Installed` and `Underway`.  `Installed` says what each step of
`idt_install` has done by the time of the next: nothing is delivered before the
table is loaded and complete, no interrupt before both bases are what the
stubs rely on.  `Underway` says for each place an interrupt may be at what is
on the stack and what is in service: at most one line of each controller
(`OneEach`), one of the slave and the cascade for lines 8 to 15.  Since
`irq_handler` gets 0, it ends an interrupt at both controllers: two ends for at
most one line each, so that nothing is left whatever the line was.
`ServiceIsEnded`, `StubsAreEntered` and `FramesAreReturned` are read off it.

`ConsoleProofs`, from `VgaAssumption`, for every screen.  Both writers are
operators on a display, and so are the lemmas: `Typed(d, e, n)`, e is d after n
characters on one line, and `KeptBy(d, e, up)`, what was before the cursor of d
is in e, up lines higher.  Characters compose (`ThenTyped`), and a line feed after
or before them keeps the text (`TypedThenNewLine`, `NewLineThenTyped`).
`Leaves(d, e, up, changed)` is the other half, for `ChangesOnlyItsCells`: outside
`changed` the screen of e is that of d, or moved up with a blank line below; the
same compositions keep it (`TypedThenNewLineLeaves`, `NewLineThenTypedLeaves`).  A tab is
unrolled into its at most four spaces (`TabSteps`); as the width is a multiple
of 4 the driver's tab wraps after its last space, if at all, and the console's
before its first.

`RtcProofs`, from `RtcAssumption`, for every moment of the calendar at which a
read may begin, every form of the registers and every second that ends between
two of their reads.  The invariant is about a time that nobody stores: `Seen(v)`
says that v has the numbers the registers already read stood at when they were
read, that these are what `t` holds in the form of register B (`ShownAs`), and
that in the registers still to be read v has what the clock shows.  Such a v is
never before the start of the read.  When a second ends, the carry stops at
one register (`Turns`): if that one is still to be read v grows there
(`LaterThan`), and if not v stays as it is.  `SameMinute` and `NextMinute` say
how far the clock has got, and that the hour changes at most once.  At the end v
is what `ReadB` returns (`ReturnsWhatItSaw`), as the conversion undoes the form
(`BcdInverse`, `ConvertedFacts`), but for the hour, of which it makes `HourShown`.
`RtcNeverBehind` and `RtcReadExact` follow with the hour of v, and `RtcTypeCorrect`.

What the proofs changed.  `IrqAssumption` had let exceptions have any vector
below 32; the step in which the processor enters a stub could not be proved for
vector 9, whose gate is empty, and no processor of this kind raises it.
`PagingAssumption` lacked that there is a page at all.  `NeverBehind` cannot be
proved of a read that takes longer than an hour, in which the hour returned may
be neither that of its start nor that of its end, nor of a calendar that starts
over after the last century two digits name: `Rtc` now bounds a read by a minute
(`RtcAssumption`) and the clock by that century (`Tick`), and a moment is one of
the calendar (`Time`).

Only model-checked: the liveness properties `TimerServed` and `DrvReadReturns`,
which are out of reach of the prover.  The runs that find violations refute their property on one
instance, which is all there is to show.

## Not modelled

* The free-list heap: its functions are static and only `heap_init` is called.
* The entry and the table of the system calls: no instruction reaches them.
  The boot faults before ring 3, EFER.SCE is never set, `syscall_entry` calls
  `syscall_dispatcher`, which is empty, and `syscall_handle` has no caller.  The
  entry pushes nine words after the saved registers and removes eight before it
  restores them (`syscall.asm:24-45`).
* `timer_wait` and the frequency of the timer; the registers an interrupt
  destroys, since the stubs save none, in one step and for every interrupt.
* The wait of `serial_putc` for the transmitter, and the serial copy of what
  the console prints (`serial.asm` sends what is in `al` and not its argument).
* The checks of the processor and the first page tables in the boot loader, and
  the string functions: straight-line code without interleaving or state that
  another part reads.  What is printed, outside `boot_ok`, the exception named
  by a panic and the words `kprintf` takes.

## Plan

Every safety property that a passing run checks is proved.  What is left is to
model, once the code uses them: the entry of the system calls, word by
word as in `Irq`, and the free-list heap over the physical map it shares with
the page allocator.
