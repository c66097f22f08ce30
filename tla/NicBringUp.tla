----------------------------- MODULE NicBringUp ------------------------------
(***************************************************************************)
(* net::init of kernel/src/net/mod.rs: the probe of the virtio-mmio slots  *)
(* and the DMA arena it feeds.  What virtio-drivers asks of the arena, and *)
(* which devices QEMU has, is not this code's: a driver that is being      *)
(* built may allocate, and give back, any pages in any order.              *)
(***************************************************************************)
EXTENDS Naturals, Sequences

CONSTANTS
    Slots,          \* VIRTIO_MMIO_SLOTS
    ArenaPages,     \* ARENA_PAGES
    MaxPages        \* bound: pages of one allocation

ASSUME ArenaAssumption == Slots \in Nat /\ ArenaPages \in Nat /\ MaxPages \in Nat

VARIABLES
    device,         \* what each slot holds
    slot,           \* of probe's loop
    status,         \* "probing", "building" a driver, or how init ended
    next,           \* DMA_NEXT
    allocs,         \* history: the ranges dma_alloc returned, in order
    freed           \* history: those passed to dma_dealloc

nicVars == <<device, slot, status, next, allocs, freed>>

\* Empty, not a network device, a network device whose driver fails, or works.
Devices == {"empty", "other", "broken", "network"}

PageRanges == [start : Nat, pages : Nat]

-----------------------------------------------------------------------------
(* The arena: RvHal.                                                       *)

\* start + pages <= ARENA_PAGES
Fits(pages) == next + pages <= ArenaPages

\* fetch_add comes before the assertion.
DmaAlloc(pages) ==
    /\ status = "building"
    /\ next' = next + pages
    /\ IF Fits(pages)
         THEN /\ allocs' = Append(allocs, [start |-> next, pages |-> pages])
              /\ UNCHANGED status
         ELSE /\ status' = "panicked"
              /\ UNCHANGED allocs
    /\ UNCHANGED <<device, slot, freed>>

\* Mutant: the pages go back to the bump allocator.
AfterDeallocReclaims(range) == next - range.pages

\* dma_dealloc leaks.
AfterDealloc(range) == next

DmaDealloc ==
    /\ status = "building"
    /\ \E i \in 1..Len(allocs) \ freed :
          /\ freed' = freed \union {i}
          /\ next' = AfterDealloc(allocs[i])
    /\ UNCHANGED <<device, slot, status, allocs>>

-----------------------------------------------------------------------------
(* probe.                                                                  *)

\* Mutant: `break` for `continue`.
MoreSlotsBreak == FALSE

\* 0..VIRTIO_MMIO_SLOTS
MoreSlots == slot + 1 < Slots

\* continue, and None after the last slot.
NextSlot ==
    /\ slot' = slot + 1
    /\ status' = IF MoreSlots THEN "probing" ELSE "none"

SkipSlot ==
    /\ status = "probing"
    /\ device[slot] \in {"empty", "other"}
    /\ NextSlot
    /\ UNCHANGED <<device, next, allocs, freed>>

\* Nic::new
BuildNic ==
    /\ status = "probing"
    /\ device[slot] \in {"broken", "network"}
    /\ status' = "building"
    /\ UNCHANGED <<device, slot, next, allocs, freed>>

\* Nic::new fails: its allocations have leaked.
NicFails ==
    /\ status = "building"
    /\ device[slot] = "broken"
    /\ NextSlot
    /\ UNCHANGED <<device, next, allocs, freed>>

NicUp ==
    /\ status = "building"
    /\ device[slot] = "network"
    /\ status' = "up"
    /\ UNCHANGED <<device, slot, next, allocs, freed>>

-----------------------------------------------------------------------------

NicInit ==
    /\ device \in [0..Slots-1 -> Devices]
    /\ slot = 0
    /\ status = IF Slots = 0 THEN "none" ELSE "probing"
    /\ next = 0
    /\ allocs = << >>
    /\ freed = {}

NicNext ==
    \/ \E pages \in 1..MaxPages : DmaAlloc(pages)
    \/ DmaDealloc \/ SkipSlot \/ BuildNic \/ NicFails \/ NicUp

NicSpec == NicInit /\ [][NicNext]_nicVars

-----------------------------------------------------------------------------
(* Properties.                                                             *)

\* The probe's loop and the allocator have their types.
NicTypeOK ==
    /\ device \in [0..Slots-1 -> Devices]
    /\ slot \in 0..Slots
    /\ status \in {"probing", "building", "up", "none", "panicked"}
    /\ status \in {"probing", "building", "up"} => slot < Slots
    /\ next \in Nat
    /\ allocs \in Seq(PageRanges)
    /\ freed \subseteq 1..Len(allocs)

\* "the page range is exclusively ours, inside the static arena, never reused"
\* (mod.rs:52-54): no two ranges ever returned share a page, so each is still
\* zero when it is returned, also after drivers that failed gave theirs back.
ArenaExclusive ==
    \A j \in 1..Len(allocs) :
        /\ allocs[j].start + allocs[j].pages <= ArenaPages
        /\ \A i \in 1..j-1 : allocs[i].start + allocs[i].pages <= allocs[j].start

\* init answers None only if no slot holds a network device that works, and
\* with one brings up the first of them, or panics for want of pages
\* (mod.rs:81-97).
FirstNicFound ==
    /\ status = "none" => \A s \in 0..Slots-1 : device[s] # "network"
    /\ status \in {"up", "building"} => \A s \in 0..slot-1 : device[s] # "network"

=============================================================================
