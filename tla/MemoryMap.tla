------------------------------- MODULE MemoryMap -------------------------------
(***************************************************************************)
(* The guest-physical layout of a Linux cell (vmm/boot.rs).                *)
(*                                                                         *)
(* Guest RAM is two memslots around a window; the window holds one         *)
(* persistent-memory namespace per image, declared to the guest kernel in  *)
(* the e820 table at boot and backed later, image by image, by seal_tool.  *)
(* RAM is extended by the width of the window, and the initrd goes to the  *)
(* top of it.  Addresses and lengths are numbers of a small unit.          *)
(*                                                                         *)
(* An image has two lengths: the length of its bytes, which the window and *)
(* the e820 table use, and the length shared_tool maps, whole pages and    *)
(* one at least, which the memslot and next_tool_gpa use.  Nothing checks  *)
(* that an image is not empty.                                             *)
(***************************************************************************)
EXTENDS Integers, Sequences, SequencesExt, FiniteSets

CONSTANTS Page, PmemAlign, KernelGpa, WindowGpa, MinWindow, AddressLimit,
          Images,        \* image contents: two files may hold the same one
          ImageLength,   \* the length of each content in bytes
          MemorySizes, KernelSizes, InitrdSizes, \* what a BootConfig may ask for
          MaxImages      \* bound: images of one cell

ASSUME LayoutAssumption ==
    /\ {Page, PmemAlign, MinWindow} \subseteq Nat \ {0}
    /\ {KernelGpa, WindowGpa, AddressLimit, MaxImages} \subseteq Nat
    /\ MemorySizes \cup KernelSizes \cup InitrdSizes \subseteq Nat
    /\ PmemAlign % Page = 0 /\ WindowGpa % PmemAlign = 0 /\ KernelGpa < WindowGpa
    /\ \A i \in Images : ImageLength[i] \in Nat

VARIABLES
    boot,      \* the BootConfig: memory, kernel (init_size), whether it has an
               \* initrd and of which length, images
    step,      \* "asked", "booted", "refused": how far LinuxCell::boot came;
               \* "unsealed": KVM refused the slot of an image
    initrdAt,  \* where the initrd was written
    sealed,    \* the tool memslots, in the order they were added
    nextGpa    \* next_tool_gpa

mapVars == <<boot, step, initrdAt, sealed, nextGpa>>

BootConfigs == [memory : MemorySizes, kernel : KernelSizes, hasInitrd : BOOLEAN,
                initrd : InitrdSizes, images : SeqOf(Images, MaxImages)]

MapTypeOK ==
    /\ boot \in BootConfigs
    /\ step \in {"asked", "booted", "refused", "unsealed"}
    /\ initrdAt \in Nat /\ nextGpa \in Nat
    /\ sealed \in Seq([image : Images, gpa : Nat])

MapInit ==
    /\ boot \in BootConfigs
    /\ step = "asked" /\ initrdAt = 0 /\ sealed = <<>> /\ nextGpa = WindowGpa

-----------------------------------------------------------------------------
(* The arithmetic of the layout. *)

RoundUp(n, unit) == ((n + unit - 1) \div unit) * unit

(* A namespace is padded to the alignment nd_pmem requires. *)
PmemExtent(len) == RoundUp(len, PmemAlign)

(* shared_tool: the bytes an image's host allocation and its memslot have.  *)
MappedLength(i) == IF ImageLength[i] = 0 THEN Page ELSE RoundUp(ImageLength[i], Page)

(* The extents of a sequence of images, back to back. *)
Extents(images) ==
    LET Total[n \in 0..Len(images)] ==
            IF n = 0 THEN 0 ELSE Total[n - 1] + PmemExtent(ImageLength[images[n]])
    IN  Total[Len(images)]

(* The hole for every namespace, never under the minimum. *)
ToolWindowSize(images) ==
    LET want == Extents(images)
    IN  RoundUp(IF want > MinWindow THEN want ELSE MinWindow, PmemAlign)

Window == ToolWindowSize(boot.images)
WindowEnd == WindowGpa + Window

(* Where initrd_address starts from: RAM continues above the window. *)
InitrdTop == boot.memory + Window

InitrdStart == ((InitrdTop - boot.initrd) \div Page) * Page

(* Mutant: the initrd need only fit in RAM. *)
InitrdFitsAnywhere ==
    boot.hasInitrd => InitrdTop >= boot.initrd /\ InitrdTop =< AddressLimit

(* initrd_address: not empty, in mapped high RAM, below the address limit.  *)
InitrdFits ==
    boot.hasInitrd =>
        /\ InitrdTop >= boot.initrd /\ boot.initrd > 0
        /\ InitrdStart >= WindowEnd
        /\ InitrdTop =< AddressLimit

(* boot: RAM holds the kernel, the kernel stays below the window, and RAM   *)
(* continues above it.                                                      *)
KernelFits ==
    /\ boot.memory >= KernelGpa + boot.kernel
    /\ KernelGpa + boot.kernel =< WindowGpa
    /\ boot.memory > WindowGpa

-----------------------------------------------------------------------------
(* Memory regions, as half-open intervals. *)

Region(from, length) == [from |-> from, to |-> from + length]
Inside(r, s) == s.from =< r.from /\ r.to =< s.to
Apart(r, s) == r.to =< s.from \/ s.to =< r.from

(* The RAM memslots that boot and every fork add. *)
LowRam == Region(0, WindowGpa)
HighRam == Region(WindowEnd, boot.memory - WindowGpa)

(* What zero_page declares persistent: one namespace per image. *)
Namespace(n) ==
    Region(WindowGpa + Extents(SubSeq(boot.images, 1, n - 1)), ImageLength[boot.images[n]])

(* The memslot of a sealed image. *)
Slot(s) == Region(s.gpa, MappedLength(s.image))

(* KVM takes a memslot of whole pages that overlaps no other memslot. *)
KvmTakes(r, slots) ==
    /\ r.from % Page = 0 /\ (r.to - r.from) % Page = 0
    /\ \A s \in slots : Apart(r, s)

-----------------------------------------------------------------------------
BootFits == KernelFits /\ KvmTakes(HighRam, {LowRam}) /\ InitrdFits

BootMap ==
    /\ step = "asked" /\ BootFits
    /\ step' = "booted"
    /\ initrdAt' = IF boot.hasInitrd THEN InitrdStart ELSE 0
    /\ UNCHANGED <<boot, sealed, nextGpa>>

RefuseMap ==
    /\ step = "asked" /\ ~BootFits
    /\ step' = "refused"
    /\ UNCHANGED <<boot, initrdAt, sealed, nextGpa>>

(* The images are sealed in order; one whose content is already sealed is   *)
(* found in the table and adds nothing.  Every image of the order is either *)
(* sealed or a repetition, so the next new content follows what is sealed.  *)
NextToSeal(n) ==
    /\ step = "booted" /\ n \in DOMAIN boot.images
    /\ \A k \in 1..(n - 1) : \E m \in DOMAIN sealed : sealed[m].image = boot.images[k]
    /\ \A m \in DOMAIN sealed : sealed[m].image # boot.images[n]

(* The slot goes to next_tool_gpa, if KVM takes it there. *)
NewSlot(n) == [image |-> boot.images[n], gpa |-> nextGpa]
SlotTaken(n) ==
    KvmTakes(Slot(NewSlot(n)), {LowRam, HighRam} \cup {Slot(sealed[m]) : m \in DOMAIN sealed})

(* seal_tool: next_tool_gpa moves by the extent of what was mapped. *)
SealTool(n) ==
    /\ NextToSeal(n) /\ SlotTaken(n)
    /\ sealed' = Append(sealed, NewSlot(n))
    /\ nextGpa' = nextGpa + PmemExtent(MappedLength(boot.images[n]))
    /\ UNCHANGED <<boot, step, initrdAt>>

(* The error of set_user_memory_region ends the caller's launch. *)
SealFails(n) ==
    /\ NextToSeal(n) /\ ~SlotTaken(n)
    /\ step' = "unsealed"
    /\ UNCHANGED <<boot, initrdAt, sealed, nextGpa>>

MapNext ==
    \/ BootMap \/ RefuseMap
    \/ \E n \in 1..MaxImages : SealTool(n) \/ SealFails(n)

MapSpec == MapInit /\ [][MapNext]_mapVars

-----------------------------------------------------------------------------
NoEmptyImage == \A n \in DOMAIN boot.images : ImageLength[boot.images[n]] > 0

(* Nothing a booted cell is given overlaps anything else: the kernel is in  *)
(* low RAM, the initrd in high RAM, every memslot of an image inside the    *)
(* window and apart from the others, however small the memory, however many *)
(* and however large the images.  Without an empty image the window of      *)
(* tool_window_size, which counts bytes, is wide enough for the slots, which *)
(* are whole pages: KVM refuses none; and while the images differ, "the Nth *)
(* sealed image lands exactly on the Nth declared namespace base"           *)
(* (seal_tool) and backs all of it.                                         *)
RegionsApart ==
    /\ step \in {"booted", "unsealed"} =>
        /\ Inside(Region(KernelGpa, boot.kernel), LowRam)
        /\ boot.hasInitrd => Inside(Region(initrdAt, boot.initrd), HighRam)
        /\ \A m \in DOMAIN sealed :
              /\ Inside(Slot(sealed[m]), Region(WindowGpa, Window))
              /\ sealed[m].gpa % PmemAlign = 0
              /\ \A k \in DOMAIN sealed : k # m => Apart(Slot(sealed[k]), Slot(sealed[m]))
              /\ IsInjective(boot.images) /\ NoEmptyImage =>
                    /\ sealed[m].gpa = Namespace(m).from
                    /\ Inside(Namespace(m), Slot(sealed[m]))
    /\ step = "unsealed" => ~NoEmptyImage
================================================================================
