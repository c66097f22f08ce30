---------------------------- MODULE NetSmokeProofs ----------------------------
(***************************************************************************)
(* The net-smoke build and the two parts it is made of: the probe and the  *)
(* DMA arena, for any number of slots and pages and any pattern of         *)
(* allocations; the token pair, for any number of buffers and packets; and *)
(* the gate, which is both of them and accepts every echo, for any PING    *)
(* and any timeout.                                                        *)
(***************************************************************************)
EXTENDS NetSmoke, SequenceTheorems, FiniteSetTheorems, TLAPS

-----------------------------------------------------------------------------
(* The probe and the arena (NicBringUp).                                   *)

\* What ArenaExclusive needs and does not say: nothing handed out reaches
\* beyond the mark that the next allocation starts at.
BelowMark == \A i \in 1..Len(allocs) : allocs[i].start + allocs[i].pages <= next

\* What FirstNicFound needs: also while the loop runs, the slots behind it
\* hold no NIC that works.
NothingBehind ==
    status \in {"probing", "building", "up", "none"} =>
        \A s \in 0..slot-1 : device[s] # "network"

NicInv ==
    /\ NicTypeOK
    /\ ArenaExclusive /\ BelowMark
    /\ NothingBehind
    /\ status = "none" => slot = Slots

\* The allocation that does not fit moves the mark and hands out nothing; one
\* that fits hands out what lies behind the mark.
LEMMA DmaAllocInv ==
    ASSUME NicInv, NEW pages \in 1..MaxPages, DmaAlloc(pages)
    PROVE  NicInv'
<1>1. next \in Nat /\ pages \in Nat /\ next' = next + pages /\ next' \in Nat
    BY ArenaAssumption DEF NicInv, NicTypeOK, DmaAlloc
<1>2. CASE Fits(pages)
    <2> DEFINE range == [start |-> next, pages |-> pages]
    <2>1. /\ status' = status /\ status = "building"
          /\ allocs' = Append(allocs, range)
          /\ UNCHANGED <<device, slot, freed>>
        BY <1>2 DEF DmaAlloc
    <2>2. range \in PageRanges /\ allocs \in Seq(PageRanges)
        BY <1>1 DEF PageRanges, NicInv, NicTypeOK
    <2>3. /\ allocs' \in Seq(PageRanges)
          /\ Len(allocs) \in Nat
          /\ Len(allocs') = Len(allocs) + 1
          /\ \A i \in 1..Len(allocs) : allocs'[i] = allocs[i]
          /\ allocs'[Len(allocs) + 1] = range
        BY <2>1, <2>2
    <2>4. \A i \in 1..Len(allocs) : allocs[i] \in PageRanges
        BY <2>2
    <2>5. NicTypeOK'
        BY <1>1, <2>1, <2>3 DEF NicInv, NicTypeOK
    <2>6. BelowMark'
        <3> SUFFICES ASSUME NEW i \in 1..Len(allocs')
                     PROVE  allocs'[i].start + allocs'[i].pages <= next'
            BY DEF BelowMark
        <3>1. CASE i \in 1..Len(allocs)
            <4>1. allocs[i].start \in Nat /\ allocs[i].pages \in Nat
                BY <2>4, <3>1 DEF PageRanges
            <4>2. allocs[i].start + allocs[i].pages <= next
                BY <3>1 DEF NicInv, BelowMark
            <4>3. allocs'[i] = allocs[i]
                BY <2>3, <3>1
            <4> QED
                BY <1>1, <4>1, <4>2, <4>3
        <3>2. CASE i = Len(allocs) + 1
            BY <1>1, <2>3, <3>2
        <3> QED
            BY <2>3, <3>1, <3>2
    <2>7. ArenaExclusive'
        <3> SUFFICES ASSUME NEW j \in 1..Len(allocs')
                     PROVE  /\ allocs'[j].start + allocs'[j].pages <= ArenaPages
                            /\ \A i \in 1..j-1 :
                                  allocs'[i].start + allocs'[i].pages <= allocs'[j].start
            BY DEF ArenaExclusive
        <3>1. CASE j \in 1..Len(allocs)
            BY <2>3, <3>1 DEF NicInv, ArenaExclusive
        <3>2. CASE j = Len(allocs) + 1
            <4>1. \A i \in 1..j-1 : allocs'[i] = allocs[i] /\ i \in 1..Len(allocs)
                BY <2>3, <3>2
            <4> QED
                BY <1>2, <2>3, <3>2, <4>1 DEF NicInv, BelowMark, Fits
        <3> QED
            BY <2>3, <3>1, <3>2
    <2> QED
        BY <2>1, <2>5, <2>6, <2>7 DEF NicInv, NothingBehind
<1>3. CASE ~Fits(pages)
    <2>1. status' = "panicked" /\ UNCHANGED <<allocs, device, slot, freed>>
        BY <1>3 DEF DmaAlloc
    <2>2. \A i \in 1..Len(allocs) : allocs[i] \in PageRanges
        BY DEF NicInv, NicTypeOK
    <2>3. BelowMark'
        BY <1>1, <2>1, <2>2 DEF NicInv, BelowMark, PageRanges
    <2>4. NicTypeOK'
        BY <1>1, <2>1 DEF NicInv, NicTypeOK
    <2> QED
        BY <2>1, <2>3, <2>4 DEF NicInv, ArenaExclusive, NothingBehind
<1> QED
    BY <1>2, <1>3

\* The loop moves past a slot that holds no NIC that works.
LEMMA NextSlotInv ==
    ASSUME NicInv, NextSlot, UNCHANGED <<device, next, allocs, freed>>,
           status \in {"probing", "building"}, device[slot] # "network"
    PROVE  NicInv'
<1>1. slot \in Nat /\ slot < Slots /\ slot' = slot + 1
    BY ArenaAssumption DEF NicInv, NicTypeOK, NextSlot
<1>2. NicTypeOK'
    BY <1>1, ArenaAssumption DEF NicInv, NicTypeOK, NextSlot, MoreSlots
<1>3. NothingBehind'
    <2> SUFFICES ASSUME NEW s \in 0..slot'-1 PROVE device[s] # "network"
        BY DEF NothingBehind
    <2>1. s \in 0..slot-1 \/ s = slot
        BY <1>1
    <2> QED
        BY <2>1 DEF NicInv, NothingBehind
<1>4. status' = "none" => slot' = Slots
    BY <1>1, ArenaAssumption DEF NextSlot, MoreSlots
<1> QED
    BY <1>2, <1>3, <1>4 DEF NicInv, ArenaExclusive, BelowMark

\* Nothing else changes what the invariant says.
LEMMA NicNextInv == NicInv /\ [NicNext]_nicVars => NicInv'
<1> SUFFICES ASSUME NicInv, [NicNext]_nicVars PROVE NicInv'
    OBVIOUS
<1>1. ASSUME NEW pages \in 1..MaxPages, DmaAlloc(pages) PROVE NicInv'
    BY <1>1, DmaAllocInv
<1>2. CASE DmaDealloc
    <2>1. next' = next /\ UNCHANGED <<device, slot, status, allocs>>
        BY <1>2 DEF DmaDealloc, AfterDealloc
    <2>2. freed' \subseteq 1..Len(allocs)
        BY <1>2 DEF DmaDealloc, NicInv, NicTypeOK
    <2> QED
        BY <2>1, <2>2 DEF NicInv, NicTypeOK, ArenaExclusive, BelowMark, NothingBehind
<1>3. CASE SkipSlot
    BY <1>3, NextSlotInv DEF SkipSlot
<1>4. CASE NicFails
    BY <1>4, NextSlotInv DEF NicFails
<1>5. CASE BuildNic \/ NicUp \/ UNCHANGED nicVars
    BY <1>5 DEF BuildNic, NicUp, nicVars, NicInv, NicTypeOK, ArenaExclusive, BelowMark,
                NothingBehind
<1> QED
    BY <1>1, <1>2, <1>3, <1>4, <1>5 DEF NicNext

\* NicInv holds throughout net::init.
LEMMA NicInvariant == NicSpec => []NicInv
<1>1. NicInit => NicInv
    BY ArenaAssumption DEF NicInit, NicInv, NicTypeOK, ArenaExclusive, BelowMark, NothingBehind
<1> QED
    BY <1>1, NicNextInv, PTL DEF NicSpec

\* The probe's loop and the allocator keep their types; in particular the loop
\* never looks at a slot that is not there (mod.rs:81-97).
THEOREM NicTypeCorrect == NicSpec => []NicTypeOK
<1>1. NicInv => NicTypeOK
    BY DEF NicInv
<1> QED
    BY <1>1, NicInvariant, PTL

\* No page of the arena is handed out twice or lies outside it, in whatever
\* sizes and however often drivers allocate and give back (mod.rs:45-71).
THEOREM ArenaExclusiveHolds == NicSpec => []ArenaExclusive
<1>1. NicInv => ArenaExclusive
    BY DEF NicInv
<1> QED
    BY <1>1, NicInvariant, PTL

\* The probe stops at the first NIC that works, wherever it is, and at None
\* only without one (mod.rs:81-97).
THEOREM FirstNicFoundHolds == NicSpec => []FirstNicFound
<1>1. NicInv => FirstNicFound
    BY DEF NicInv, NothingBehind, FirstNicFound
<1> QED
    BY <1>1, NicInvariant, PTL

-----------------------------------------------------------------------------
(* The token pair (SmolDevice).                                            *)

Used == {used[i] : i \in 1..Len(used)}

DeviceTypeOK ==
    /\ ring \subseteq Buffers
    /\ used \in Seq(Buffers)
    /\ packet \in [Buffers -> Nat]
    /\ sent \in Seq(Nat) /\ received \in Seq(Nat)
    /\ token = {} \/ \E b \in Buffers : token = {b}
    /\ closure \in {"none", "reading", "read", "answering", "recycling", "sending"}
    /\ closure = "recycling" => ~transmits

\* A buffer is in one place only: what TokensSafe needs and does not say.
OneOwner ==
    /\ ring \intersect token = {}
    /\ \A i \in 1..Len(used) : used[i] \notin ring \union token
    /\ \A i, j \in 1..Len(used) : used[i] = used[j] => i = j

\* The NIC is borrowed while something is sent, and while a buffer is recycled;
\* a closure that sends of its own has no receive token.
Borrowed ==
    /\ borrows = IF closure \in {"answering", "sending"} THEN {"tx"}
                 ELSE IF closure = "recycling" THEN {"rx"} ELSE {}
    /\ closure = "sending" => token = {}

TokensInv ==
    /\ DeviceTypeOK
    /\ OneOwner
    /\ Borrowed
    /\ PacketStable
    /\ BuffersAccounted

\* What Append and Tail do to the set of filled buffers.
LEMMA AppendUsed ==
    ASSUME NEW s \in Seq(Buffers), NEW b \in Buffers
    PROVE  /\ Append(s, b) \in Seq(Buffers)
           /\ Len(Append(s, b)) = Len(s) + 1
           /\ \A i \in 1..Len(s) : Append(s, b)[i] = s[i]
           /\ Append(s, b)[Len(s) + 1] = b
           /\ {Append(s, b)[i] : i \in 1..Len(Append(s, b))}
                = {s[i] : i \in 1..Len(s)} \union {b}
<1>1. /\ Append(s, b) \in Seq(Buffers)
      /\ Len(Append(s, b)) = Len(s) + 1
      /\ Len(s) \in Nat
      /\ \A i \in 1..Len(s) : Append(s, b)[i] = s[i]
      /\ Append(s, b)[Len(s) + 1] = b
    OBVIOUS
<1>2. 1..Len(s) + 1 = (1..Len(s)) \union {Len(s) + 1}
    BY <1>1
<1> QED
    BY <1>1, <1>2

LEMMA TailUsed ==
    ASSUME NEW s \in Seq(Buffers), s # << >>
    PROVE  /\ Tail(s) \in Seq(Buffers)
           /\ Head(s) = s[1] /\ Head(s) \in Buffers
           /\ Len(s) \in Nat \ {0}
           /\ Len(Tail(s)) = Len(s) - 1
           /\ \A i \in 1..Len(Tail(s)) : Tail(s)[i] = s[i + 1]
           /\ {s[i] : i \in 1..Len(s)}
                = {Tail(s)[i] : i \in 1..Len(Tail(s))} \union {Head(s)}
<1>1. /\ Tail(s) \in Seq(Buffers)
      /\ Head(s) = s[1] /\ Head(s) \in Buffers
      /\ Len(s) \in Nat \ {0}
      /\ Len(Tail(s)) = Len(s) - 1
      /\ \A i \in 1..Len(Tail(s)) : Tail(s)[i] = s[i + 1]
    OBVIOUS
<1>2. \A i \in 1..Len(s) \ {1} : i - 1 \in 1..Len(Tail(s)) /\ Tail(s)[i - 1] = s[i]
    <2> SUFFICES ASSUME NEW i \in 1..Len(s) \ {1}
                 PROVE  i - 1 \in 1..Len(Tail(s)) /\ Tail(s)[i - 1] = s[i]
        OBVIOUS
    <2>1. i - 1 \in 1..Len(Tail(s)) /\ (i - 1) + 1 = i
        BY <1>1
    <2> QED
        BY <1>1, <2>1
<1>3. \A i \in 1..Len(Tail(s)) : i + 1 \in 1..Len(s)
    BY <1>1
<1>4. \A i \in 1..Len(s) :
          s[i] \in {Tail(s)[k] : k \in 1..Len(Tail(s))} \union {Head(s)}
    BY <1>1, <1>2
<1>5. /\ \A i \in 1..Len(Tail(s)) : Tail(s)[i] \in {s[k] : k \in 1..Len(s)}
      /\ Head(s) \in {s[k] : k \in 1..Len(s)}
    BY <1>1, <1>3
<1> QED
    BY <1>1, <1>4, <1>5

\* A packet is written to a buffer of the ring, which no token holds.
LEMMA PacketArrivesInv == TokensInv /\ PacketArrives => TokensInv'
<1> SUFFICES ASSUME TokensInv, PacketArrives PROVE TokensInv'
    OBVIOUS
<1>1. PICK b \in ring :
        /\ packet' = [packet EXCEPT ![b] = Len(sent) + 1]
        /\ used' = Append(used, b)
        /\ ring' = ring \ {b}
    BY DEF PacketArrives
<1>2. /\ sent' = Append(sent, Len(sent) + 1)
      /\ UNCHANGED <<token, borrows, closure, transmits, lost, received>>
    BY DEF PacketArrives
<1>3. b \in Buffers /\ b \notin token /\ used \in Seq(Buffers) /\ Len(used) \in Nat
    BY DEF TokensInv, DeviceTypeOK, OneOwner
<1>4. DeviceTypeOK'
    <2>1. used' \in Seq(Buffers)
        BY <1>1, <1>3
    <2>2. Len(sent) + 1 \in Nat /\ sent' \in Seq(Nat)
        BY <1>2 DEF TokensInv, DeviceTypeOK
    <2> QED
        BY <1>1, <1>2, <2>1, <2>2 DEF TokensInv, DeviceTypeOK
<1>5. OneOwner'
    <2>1. ring' \intersect token' = {}
        BY <1>1, <1>2 DEF TokensInv, OneOwner
    <2>2. /\ Len(used') = Len(used) + 1
          /\ \A i \in 1..Len(used) : used'[i] = used[i] /\ used[i] # b
          /\ used'[Len(used) + 1] = b
        BY <1>1, <1>3, AppendUsed DEF TokensInv, OneOwner
    <2>3. \A i \in 1..Len(used') : i \in 1..Len(used) \/ i = Len(used) + 1
        BY <1>3, <2>2
    <2>4. \A i \in 1..Len(used') : used'[i] \notin ring' \union token'
        BY <1>1, <1>2, <1>3, <2>2, <2>3 DEF TokensInv, OneOwner
    <2>5. \A i, j \in 1..Len(used') : used'[i] = used'[j] => i = j
        BY <2>2, <2>3 DEF TokensInv, OneOwner
    <2> QED
        BY <2>1, <2>4, <2>5 DEF OneOwner
<1>6. PacketStable'
    <2>1. \A x \in token : packet'[x] = packet[x]
        BY <1>1, <1>3 DEF TokensInv, DeviceTypeOK
    <2> QED
        BY <1>2, <2>1 DEF TokensInv, PacketStable
<1>7. BuffersAccounted'
    <2>1. Used' = Used \union {b}
        BY <1>1, <1>3, AppendUsed DEF Used
    <2> QED
        BY <1>1, <1>2, <1>3, <2>1 DEF TokensInv, BuffersAccounted, Used
<1> QED
    BY <1>2, <1>4, <1>5, <1>6, <1>7 DEF TokensInv, Borrowed

\* The first filled buffer moves into the token.
LEMMA ReceiveInv == TokensInv /\ Receive => TokensInv'
<1> SUFFICES ASSUME TokensInv, Receive PROVE TokensInv'
    OBVIOUS
<1>1. /\ token = {} /\ token' = {Head(used)} /\ used' = Tail(used)
      /\ closure = "none"
      /\ UNCHANGED <<ring, packet, borrows, closure, lost, sent, received>>
    BY DEF Receive
<1>2. used \in Seq(Buffers) /\ used # << >>
    BY DEF Receive, TokensInv, DeviceTypeOK
<1>3. /\ used' \in Seq(Buffers)
      /\ Head(used) = used[1] /\ Head(used) \in Buffers
      /\ Len(used) \in Nat \ {0}
      /\ Len(used') = Len(used) - 1
      /\ \A i \in 1..Len(used') : used'[i] = used[i + 1]
      /\ Used = Used' \union {Head(used)}
    <2>1. /\ Tail(used) \in Seq(Buffers)
          /\ Head(used) = used[1] /\ Head(used) \in Buffers
          /\ Len(used) \in Nat \ {0}
          /\ Len(Tail(used)) = Len(used) - 1
          /\ \A i \in 1..Len(Tail(used)) : Tail(used)[i] = used[i + 1]
        BY <1>2, TailUsed
    <2>2. {used[i] : i \in 1..Len(used)}
            = {Tail(used)[i] : i \in 1..Len(Tail(used))} \union {Head(used)}
        BY <1>2, TailUsed
    <2>3. used' = Tail(used)
        BY <1>1
    <2>4. Used = Used' \union {Head(used)}
        BY <2>2, <2>3, Zenon DEF Used
    <2> QED
        BY <2>1, <2>3, <2>4, Zenon
<1>4. DeviceTypeOK'
    BY <1>1, <1>3 DEF TokensInv, DeviceTypeOK
<1>5. OneOwner'
    <2>1. 1 \in 1..Len(used) /\ \A i \in 1..Len(used') : i + 1 \in 1..Len(used) /\ i + 1 # 1
        BY <1>3
    <2>2. ring' \intersect token' = {}
        BY <1>1, <1>3, <2>1 DEF TokensInv, OneOwner
    <2>3. \A i \in 1..Len(used') : used'[i] \notin ring' \union token'
        BY <1>1, <1>3, <2>1 DEF TokensInv, OneOwner
    <2>4. ASSUME NEW i \in 1..Len(used'), NEW j \in 1..Len(used'), used'[i] = used'[j]
          PROVE  i = j
        <3>1. i + 1 = j + 1
            BY <1>3, <2>1, <2>4 DEF TokensInv, OneOwner
        <3> QED
            BY <3>1
    <2> QED
        BY <2>2, <2>3, <2>4 DEF OneOwner
<1>6. BuffersAccounted'
    BY <1>1, <1>3 DEF TokensInv, BuffersAccounted, Used
<1> QED
    BY <1>1, <1>4, <1>5, <1>6 DEF TokensInv, Borrowed, PacketStable

\* The closure reads its packet.
LEMMA RxReadInv == TokensInv /\ RxRead => TokensInv'
<1> SUFFICES ASSUME TokensInv, RxRead PROVE TokensInv'
    OBVIOUS
<1>1. /\ closure = "reading" /\ closure' = "read"
      /\ UNCHANGED <<ring, used, packet, lost, sent, token, borrows>>
    BY DEF RxRead, deviceVars
<1>2. PICK b \in token : received' = Append(received, packet[b])
    BY DEF RxRead
<1>3. token = {b} /\ b \in Buffers
    BY DEF TokensInv, DeviceTypeOK
<1>4. packet[b] \in Nat /\ received \in Seq(Nat)
    BY <1>3 DEF TokensInv, DeviceTypeOK
<1>5. received' \in Seq(Nat) /\ received'[Len(received')] = packet[b]
    BY <1>2, <1>4
<1>6. PacketStable'
    BY <1>1, <1>3, <1>5 DEF PacketStable
<1> QED
    BY <1>1, <1>5, <1>6 DEF TokensInv, DeviceTypeOK, OneOwner, Borrowed,
                            BuffersAccounted

\* The buffer of the token goes back to the ring, or is dropped.
LEMMA RxRecycledInv == TokensInv /\ RxRecycled => TokensInv'
<1> SUFFICES ASSUME TokensInv, RxRecycled PROVE TokensInv'
    OBVIOUS
<1>1. /\ closure = "recycling" /\ closure' = "none"
      /\ borrows' = borrows \ {"rx"} /\ token' = {}
      /\ UNCHANGED <<used, packet, sent, received>>
      /\ \/ ring' = ring \union token /\ lost' = lost
         \/ lost' = lost \union token /\ ring' = ring
    BY DEF RxRecycled
<1>2. DeviceTypeOK'
    BY <1>1 DEF TokensInv, DeviceTypeOK
<1>3. OneOwner'
    BY <1>1 DEF TokensInv, OneOwner
<1>4. BuffersAccounted'
    BY <1>1 DEF TokensInv, BuffersAccounted
<1> QED
    BY <1>1, <1>2, <1>3, <1>4 DEF TokensInv, Borrowed, PacketStable

\* The steps that move no buffer and no packet.
LEMMA OtherStepsInv ==
    ASSUME TokensInv, Transmit \/ RxConsume \/ RxReturn \/ TxConsume \/ TxSent \/ UNCHANGED tokenVars
    PROVE  TokensInv'
<1>1. UNCHANGED <<ring, used, packet, lost, sent, token, received>>
    BY DEF Transmit, RxConsume, BeforeClosure, RxReturn, TxConsume, TxSent, deviceVars, tokenVars
<1>2. DeviceTypeOK' /\ OneOwner' /\ BuffersAccounted'
    <2>1. /\ closure' \in {"none", "reading", "read", "answering", "recycling", "sending"}
          /\ closure' = "recycling" => ~transmits'
        BY DEF TokensInv, DeviceTypeOK, Transmit, RxConsume, RxReturn, TxConsume, TxSent, tokenVars
    <2>2. DeviceTypeOK'
        BY <1>1, <2>1 DEF TokensInv, DeviceTypeOK
    <2>3. OneOwner'
        BY <1>1 DEF TokensInv, OneOwner
    <2>4. BuffersAccounted'
        BY <1>1 DEF TokensInv, BuffersAccounted
    <2> QED
        BY <2>2, <2>3, <2>4
<1>3. Borrowed'
    BY <1>1 DEF TokensInv, Borrowed, Transmit, RxConsume, BeforeClosure, RxReturn, TxConsume,
               TxSent, tokenVars
<1>4. PacketStable'
    <2>1. closure' \in {"read", "answering"} => closure \in {"read", "answering"}
        BY DEF Transmit, RxConsume, RxReturn, TxConsume, TxSent, tokenVars
    <2> QED
        BY <1>1, <2>1 DEF TokensInv, PacketStable
<1> QED
    BY <1>2, <1>3, <1>4 DEF TokensInv

\* At first every buffer is the device's.
LEMMA TokensInit == DeviceInit => TokensInv
<1> SUFFICES ASSUME DeviceInit PROVE TokensInv
    OBVIOUS
<1>1. 1..Len(used) = {}
    BY DEF DeviceInit
<1> QED
    BY <1>1 DEF DeviceInit, TokensInv, DeviceTypeOK, OneOwner, Borrowed,
                PacketStable, BuffersAccounted

\* Every step of the token pair keeps the invariant.
LEMMA TokensNext == TokensInv /\ [DeviceNext]_tokenVars => TokensInv'
BY PacketArrivesInv, ReceiveInv, RxReadInv, RxRecycledInv, OtherStepsInv DEF DeviceNext

\* Whatever arrives and whether or not smoltcp answers from inside the closure, a
\* buffer goes back to the device after its last reader and not before, none
\* leaks but by a failed recycling, and the borrow for the recycling and the
\* borrow for the sending never overlap (smol.rs:2-4, 71-77, 87-92).
THEOREM TokensSafeHolds == DeviceSpec => []TokensSafe
<1>1. TokensInv => TokensSafe
    <2>1. Cardinality({}) = 0 /\ Cardinality({"tx"}) = 1 /\ Cardinality({"rx"}) = 1
        BY FS_EmptySet, FS_Singleton
    <2>2. TokensInv => borrows \in {{}, {"tx"}, {"rx"}}
        BY DEF TokensInv, Borrowed
    <2> QED
        BY <2>1, <2>2 DEF TokensInv, TokensSafe, OneBorrow
<1> QED
    BY <1>1, TokensInit, TokensNext, PTL DEF DeviceSpec

-----------------------------------------------------------------------------
(* The gate (NetSmoke): its steps are those of its parts.                  *)

\* Every behaviour of the net-smoke build is one of net::init and one of the
\* token pair, whatever its peer does: what is proved of the parts is true of
\* the build (smoke.rs:23-71).
THEOREM SmokeImplementsParts == Spec => NicSpec /\ DeviceSpec
<1>1. Init => NicInit /\ DeviceInit
    BY DEF Init
<1>2. [Next]_vars => [NicNext]_nicVars
    BY DEF Next, KernelStep, BringUp, Start, NoNic, Panic, TimesOut, BeginPoll, PollStep, PollEnds,
           Idle, Compare, PeerSends, vars
<1>3. [Next]_vars => [DeviceNext]_tokenVars
    BY DEF Next, KernelStep, BringUp, Start, NoNic, Panic, TimesOut, BeginPoll, PollStep, PollEnds,
           Idle, Compare, PeerSends, vars, DeviceNext
<1> QED
    BY <1>1, <1>2, <1>3, PTL DEF Spec, NicSpec, DeviceSpec

\* The invariants of the parts are invariants of the build: on the way to its
\* gate no page is handed out twice, the first NIC that works is found, and no
\* buffer is lost or overwritten under its reader (mod.rs:45-97, smol.rs:71-77).
THEOREM PartsHold == Spec => [](ArenaExclusive /\ FirstNicFound /\ TokensSafe)
BY SmokeImplementsParts, ArenaExclusiveHolds, FirstNicFoundHolds, TokensSafeHolds, PTL

-----------------------------------------------------------------------------
(* What the gate reads.                                                    *)

SmokeTypeOK ==
    /\ peer \in {"echo", "other"}
    /\ pc \in {"init", "top", "poll", "socket"}
    /\ mtime \in Nat
    /\ payload \in Seq(Seq(Nat))
    /\ buf \in Seq(Nat) /\ sock \in Seq(Nat)
    /\ answered \in 0..PingLen
    /\ exit \in {Running, 0, 1}

\* Packets that the receive token holds and the closure has not read.
Unread == IF token # {} /\ closure \in {"none", "reading"} THEN 1 ELSE 0

\* Packets are read in the order of arrival, each once: the token's is the next,
\* or the last one read, and the filled buffers have those after it.
PacketsInOrder ==
    /\ Len(payload) = Len(sent)
    /\ Len(received) + Unread + Len(used) = Len(sent)
    /\ \A b \in token : packet[b] = Len(received) + Unread
    /\ \A i \in 1..Len(used) : packet[used[i]] = Len(received) + Unread + i

\* The PING is queued before anything is sent that is no answer to a packet, and
\* the mock has nothing to echo before it is on the wire.
PingFirst ==
    /\ transmits /\ token = {} => queued
    /\ closure = "sending" => queued
    /\ pinged => queued
    /\ peer = "echo" /\ answered > 0 => pinged

\* The bytes of PING from the one after m to n.
Piece(m, n) == SubSeq(Ping, m + 1, n)

\* A round has read what its poll found; one that has not read the whole echo
\* polled before some of it arrived.
Rounds ==
    /\ polled \in 0..answered
    /\ pc = "init" => mtime = 0 /\ polled = 0
    /\ pc = "top" => mtime <= Timeout + SlowestIdle /\ (peer = "echo" => polled < PingLen)
    /\ pc \in {"poll", "socket"} => mtime <= Timeout
    /\ pc = "socket" /\ peer = "echo" => Read = Piece(0, polled)

\* What the packets of the mock carry is its echo, cut anywhere; what the kernel
\* has of it is what the packets read so far carried.
EchoStream ==
    \E cut \in [0..Len(payload) -> 0..PingLen] :
        /\ cut[0] = 0 /\ cut[Len(payload)] = answered
        /\ \A i \in 1..Len(payload) :
              cut[i - 1] <= cut[i] /\ payload[i] = Piece(cut[i - 1], cut[i])
        /\ buf \o sock = Piece(0, cut[Len(received)])

SmokeInv ==
    /\ TokensInv
    /\ SmokeTypeOK
    /\ PacketsInOrder
    /\ PingFirst
    /\ Rounds
    /\ peer = "echo" => EchoStream
    /\ EchoIsAccepted

\* A piece has the bytes it is named for.
LEMMA PieceIs ==
    ASSUME NEW m \in 0..PingLen, NEW n \in m..PingLen
    PROVE  /\ Piece(m, n) \in Seq(Nat)
           /\ Len(Piece(m, n)) = n - m
           /\ \A k \in 1..n - m : Piece(m, n)[k] = m + k
<1>1. Ping \in Seq(Nat) /\ Len(Ping) = PingLen
    BY SmokeAssumption DEF Ping
<1>2. Piece(m, n) = [k \in 1..n - m |-> m + k]
    <2>1. Piece(m, n) = [k \in 1..(1 + n - (m + 1)) |-> Ping[k + (m + 1) - 1]]
        BY <1>1, SmokeAssumption DEF Piece
    <2>2. 1 + n - (m + 1) = n - m
        BY SmokeAssumption
    <2>3. \A k \in 1..n - m : Ping[k + (m + 1) - 1] = m + k
        BY SmokeAssumption DEF Ping
    <2> QED
        BY <2>1, <2>2, <2>3
<1>3. n - m \in Nat /\ \A k \in 1..n - m : m + k \in Nat
    BY SmokeAssumption
<1> QED
    BY <1>2, <1>3

\* A piece from the start.
LEMMA PrefixIs ==
    ASSUME NEW n \in 0..PingLen
    PROVE  /\ Piece(0, n) \in Seq(Nat)
           /\ Len(Piece(0, n)) = n
           /\ \A k \in 1..n : Piece(0, n)[k] = k
<1>1. 0 \in 0..PingLen /\ n \in 0..PingLen
    BY SmokeAssumption
<1>2. /\ Piece(0, n) \in Seq(Nat) /\ Len(Piece(0, n)) = n - 0
      /\ \A k \in 1..n - 0 : Piece(0, n)[k] = 0 + k
    BY <1>1, PieceIs
<1>3. n - 0 = n /\ \A k \in 1..n : 0 + k = k
    OBVIOUS
<1> QED
    BY <1>2, <1>3

\* Pieces that follow one another make one.
LEMMA PieceJoin ==
    ASSUME NEW a \in 0..PingLen, NEW b \in a..PingLen
    PROVE  Piece(0, a) \o Piece(a, b) = Piece(0, b)
<1>1. 0 \in 0..PingLen /\ a \in 0..PingLen /\ b \in 0..PingLen /\ {a, b, PingLen} \subseteq Nat /\ a <= b
    BY SmokeAssumption
<1>2. /\ Piece(0, a) \in Seq(Nat) /\ Len(Piece(0, a)) = a
      /\ \A k \in 1..a : Piece(0, a)[k] = k
    BY <1>1, PrefixIs
<1>3. /\ Piece(a, b) \in Seq(Nat) /\ Len(Piece(a, b)) = b - a
      /\ \A k \in 1..b - a : Piece(a, b)[k] = a + k
    BY <1>1, PieceIs
<1>4. /\ Piece(0, b) \in Seq(Nat) /\ Len(Piece(0, b)) = b
      /\ \A k \in 1..b : Piece(0, b)[k] = k
    BY <1>1, PrefixIs
<1> DEFINE joined == Piece(0, a) \o Piece(a, b)
<1>5. /\ joined \in Seq(Nat)
      /\ Len(joined) = b
      /\ \A k \in 1..a : joined[k] = Piece(0, a)[k]
      /\ \A k \in a+1..b : joined[k] = Piece(a, b)[k - a]
    BY <1>1, <1>2, <1>3
<1> HIDE DEF joined
<1>6. \A k \in 1..b : joined[k] = k
    <2> SUFFICES ASSUME NEW k \in 1..b PROVE joined[k] = k
        OBVIOUS
    <2>1. CASE k \in 1..a
        BY <1>2, <1>5, <2>1
    <2>2. CASE k \notin 1..a
        <3>1. k \in a+1..b /\ k - a \in 1..b - a /\ a + (k - a) = k
            BY <1>1, <2>2
        <3> QED
            BY <1>3, <1>5, <3>1
    <2> QED
        BY <2>1, <2>2
<1>7. joined = Piece(0, b)
    BY <1>1, <1>4, <1>5, <1>6
<1> QED
    BY <1>7 DEF joined

\* Where a step changes what is read or sent.
LEMMA GateSteps ==
    [Next]_vars =>
        \/ PollStep
        \/ \E n \in 0..PingLen : PeerSends(n)
        \/ UNCHANGED <<tokenVars, payload, answered, pinged>>
BY DEF Next, KernelStep, BringUp, Start, NoNic, Panic, TimesOut, BeginPoll, PollEnds, Idle, Compare,
       vars, streamVars

\* A packet arrives: in a buffer that nothing else is in, behind all others.
LEMMA ArrivalKeepsOrder ==
    ASSUME TokensInv, SmokeTypeOK, PacketsInOrder, NEW n \in 0..PingLen, PeerSends(n)
    PROVE  PacketsInOrder'
<1>1. PICK b \in ring :
        /\ packet' = [packet EXCEPT ![b] = Len(sent) + 1]
        /\ used' = Append(used, b)
        /\ ring' = ring \ {b}
    BY DEF PeerSends, PacketArrives
<1>2. /\ sent' = Append(sent, Len(sent) + 1)
      /\ UNCHANGED <<token, borrows, closure, transmits, lost, received>>
    BY DEF PeerSends, PacketArrives
<1>3. PICK piece : payload' = Append(payload, piece)
    BY DEF PeerSends
<1>4. /\ used \in Seq(Buffers) /\ b \in Buffers /\ packet \in [Buffers -> Nat]
      /\ Len(used) \in Nat /\ Len(sent) \in Nat /\ Len(received) \in Nat /\ Len(payload) \in Nat
      /\ token \subseteq Buffers
    BY DEF TokensInv, DeviceTypeOK, SmokeTypeOK
<1>5. /\ Len(used') = Len(used) + 1
      /\ \A i \in 1..Len(used) : used'[i] = used[i]
      /\ used'[Len(used) + 1] = b
    BY <1>1, <1>4
<1>6. Len(sent') = Len(sent) + 1 /\ Len(payload') = Len(payload) + 1
    <2>1. sent \in Seq(Nat) /\ payload \in Seq(Seq(Nat))
        BY DEF TokensInv, DeviceTypeOK, SmokeTypeOK
    <2> QED
        BY <1>2, <1>3, <2>1
<1>7. /\ packet'[b] = Len(sent) + 1
      /\ \A i \in 1..Len(used) : packet'[used[i]] = packet[used[i]]
      /\ \A x \in token : packet'[x] = packet[x]
    <2>1. \A i \in 1..Len(used) : used[i] # b /\ used[i] \in Buffers
        BY <1>4 DEF TokensInv, OneOwner
    <2>2. b \notin token
        BY DEF TokensInv, OneOwner
    <2> QED
        BY <1>1, <1>4, <2>1, <2>2
<1>8. Unread' = Unread /\ Unread \in {0, 1}
    BY <1>2 DEF Unread
<1>9. \A i \in 1..Len(used') : packet'[used'[i]] = Len(received') + Unread' + i
    <2> SUFFICES ASSUME NEW i \in 1..Len(used')
                 PROVE  packet'[used'[i]] = Len(received) + Unread + i
        BY <1>2, <1>8
    <2>1. CASE i \in 1..Len(used)
        BY <1>5, <1>7, <2>1 DEF PacketsInOrder
    <2>2. CASE i = Len(used) + 1
        BY <1>4, <1>5, <1>7, <1>8, <2>2 DEF PacketsInOrder
    <2> QED
        BY <1>4, <1>5, <2>1, <2>2
<1>10. \A x \in token' : packet'[x] = Len(received') + Unread'
    BY <1>2, <1>7, <1>8 DEF PacketsInOrder
<1>11. Len(payload') = Len(sent') /\ Len(received') + Unread' + Len(used') = Len(sent')
    <2>1. Len(payload) = Len(sent) /\ Len(received) + Unread + Len(used) = Len(sent)
        BY DEF PacketsInOrder
    <2>2. Len(received') = Len(received)
        BY <1>2
    <2>3. Unread \in Nat
        BY <1>8
    <2>4. Len(received) + Unread + (Len(used) + 1) = (Len(received) + Unread + Len(used)) + 1
        BY <1>4, <2>3
    <2> QED
        BY <1>5, <1>6, <1>8, <2>1, <2>2, <2>4
<1> QED
    BY <1>9, <1>10, <1>11 DEF PacketsInOrder

\* A poll reads one packet, the next, or none.
LEMMA PollKeepsOrder ==
    ASSUME TokensInv, SmokeTypeOK, PacketsInOrder, PollStep
    PROVE  /\ PacketsInOrder'
           /\ \/ received' = received
              \/ /\ received' # received
                 /\ Len(received') = Len(received) + 1
                 /\ Last(received') = Len(received) + 1
                 /\ Len(received) + 1 <= Len(payload)
<1>1. /\ used \in Seq(Buffers) /\ sent \in Seq(Nat) /\ received \in Seq(Nat)
      /\ Len(used) \in Nat /\ Len(sent) \in Nat /\ Len(received) \in Nat
      /\ packet \in [Buffers -> Nat]
      /\ token = {} \/ \E b \in Buffers : token = {b}
    BY DEF TokensInv, DeviceTypeOK
<1>2. payload' = payload
    BY DEF PollStep
<1>3. CASE Receive
    <2>1. /\ token = {} /\ token' = {Head(used)} /\ used' = Tail(used) /\ used # << >>
          /\ closure = "none"
          /\ UNCHANGED <<packet, closure, sent, received>>
        BY <1>3 DEF Receive
    <2>2. Unread = 0 /\ Unread' = 1
        BY <2>1 DEF Unread
    <2>3. /\ Head(used) = used[1] /\ Len(used) >= 1 /\ Len(used') = Len(used) - 1
          /\ \A i \in 1..Len(used') : used'[i] = used[i + 1] /\ i + 1 \in 1..Len(used)
        BY <1>1, <2>1
    <2>4. packet[Head(used)] = Len(received) + 1
        BY <1>1, <2>2, <2>3 DEF PacketsInOrder
    <2>5. ASSUME NEW i \in 1..Len(used') PROVE packet[used'[i]] = Len(received) + 1 + i
        <3>1. used'[i] = used[i + 1] /\ i + 1 \in 1..Len(used) /\ i \in Nat
            BY <2>3
        <3>2. packet[used[i + 1]] = Len(received) + 0 + (i + 1)
            BY <2>2, <3>1 DEF PacketsInOrder
        <3> QED
            BY <1>1, <3>1, <3>2
    <2> QED
        BY <1>1, <1>2, <2>1, <2>2, <2>3, <2>4, <2>5 DEF PacketsInOrder
<1>4. CASE RxRead
    <2>1. /\ closure = "reading" /\ closure' = "read"
          /\ UNCHANGED <<used, packet, sent, token>>
        BY <1>4 DEF RxRead, deviceVars
    <2>2. PICK b \in token : received' = Append(received, packet[b])
        BY <1>4 DEF RxRead
    <2>3. Unread = 1 /\ Unread' = 0
        BY <2>1, <2>2 DEF Unread
    <2>4. b \in Buffers /\ packet[b] = Len(received) + 1
        BY <1>1, <2>2, <2>3 DEF PacketsInOrder
    <2>5. Len(received') = Len(received) + 1 /\ Last(received') = Len(received) + 1
        BY <1>1, <2>2, <2>4 DEF Last
    <2>6. PacketsInOrder'
        BY <1>1, <1>2, <2>1, <2>3, <2>5 DEF PacketsInOrder
    <2>7. Len(received) + 1 <= Len(payload)
        BY <1>1, <2>3 DEF PacketsInOrder
    <2> QED
        BY <1>1, <2>5, <2>6, <2>7
<1>5. CASE RxRecycled
    <2>1. /\ closure = "recycling" /\ closure' = "none" /\ token' = {}
          /\ UNCHANGED <<used, packet, sent, received>>
        BY <1>5 DEF RxRecycled
    <2>2. Unread = 0 /\ Unread' = 0
        BY <2>1 DEF Unread
    <2> QED
        BY <1>1, <1>2, <2>1, <2>2 DEF PacketsInOrder
<1>6. CASE RxConsume \/ RxReturn \/ Transmit \/ TxConsume \/ TxSent
    <2>1. UNCHANGED <<used, packet, sent, received, token>>
        BY <1>6 DEF RxConsume, RxReturn, Transmit, TxConsume, TxSent, deviceVars, BeforeClosure
    <2>2. Unread' = Unread
        BY <1>6 DEF RxConsume, RxReturn, Transmit, TxConsume, TxSent, deviceVars, Unread,
                    TokensInv, Borrowed
    <2> QED
        BY <1>2, <2>1, <2>2 DEF PacketsInOrder
<1> QED
    BY <1>3, <1>4, <1>5, <1>6 DEF PollStep

\* PingFirst, step by step: the transmit token of a pair goes with the receive
\* token, and one without it was asked for to send the PING.
LEMMA PingFirstNext ==
    ASSUME TokensInv, SmokeTypeOK, PingFirst, [Next]_vars
    PROVE  PingFirst'
<1>1. ASSUME NEW n \in 0..PingLen, PeerSends(n) PROVE PingFirst'
    <2>1. /\ UNCHANGED <<token, closure, transmits, peer, queued, pinged>>
          /\ answered' = answered + n
          /\ n > 0 /\ peer = "echo" => pinged
        BY <1>1 DEF PeerSends, PacketArrives
    <2>2. answered \in Nat /\ n \in Nat
        BY SmokeAssumption DEF SmokeTypeOK
    <2> QED
        BY <2>1, <2>2 DEF PingFirst
<1>2. CASE PollStep
    <2>1. /\ UNCHANGED <<peer, queued, answered>>
          /\ pinged' = (pinged \/ (closure = "sending" /\ closure' = "none"))
        BY <1>2 DEF PollStep
    <2>2. pinged' => queued
        BY <2>1 DEF PingFirst
    <2>3. pinged => pinged'
        BY <2>1
    <2>4. /\ transmits' /\ token' = {} => queued
          /\ closure' = "sending" => queued
        <3>1. CASE Receive
            BY <3>1 DEF Receive
        <3>2. CASE RxConsume \/ RxRead
            BY <3>2 DEF RxConsume, RxRead, deviceVars, PingFirst
        <3>3. CASE RxReturn \/ RxRecycled
            BY <3>3 DEF RxReturn, RxRecycled, TokensInv, DeviceTypeOK
        <3>4. CASE TxConsume
            BY <3>4 DEF TxConsume, deviceVars, PingFirst
        <3>5. CASE TxSent
            BY <3>5 DEF TxSent
        <3>6. CASE Transmit /\ queued
            BY <3>6
        <3> QED
            BY <1>2, <3>1, <3>2, <3>3, <3>4, <3>5, <3>6 DEF PollStep
    <2> QED
        BY <2>1, <2>2, <2>3, <2>4 DEF PingFirst
<1>3. CASE UNCHANGED <<tokenVars, payload, answered, pinged>>
    <2>1. peer' = peer /\ (queued' = queued \/ queued' = TRUE)
        BY <1>3 DEF Next, KernelStep, BringUp, Start, NoNic, Panic, TimesOut, BeginPoll, PollStep,
                    PollEnds, Idle, Compare, PeerSends, vars, streamVars
    <2>2. UNCHANGED <<transmits, token, closure, answered, pinged>>
        BY <1>3 DEF tokenVars
    <2> QED
        BY <2>1, <2>2 DEF PingFirst
<1> QED
    BY <1>1, <1>2, <1>3, GateSteps

\* The types of the gate's state.
LEMMA SmokeTypesNext ==
    ASSUME TokensInv, SmokeTypeOK, PacketsInOrder, [Next]_vars
    PROVE  SmokeTypeOK'
<1> USE SmokeAssumption
<1>1. ASSUME NEW n \in 0..PingLen, PeerSends(n) PROVE SmokeTypeOK'
    <2>1. /\ answered' = answered + n /\ answered' <= PingLen
          /\ UNCHANGED <<peer, pc, mtime, buf, sock, exit>>
        BY <1>1 DEF PeerSends
    <2>2. answered \in Nat /\ n \in Nat /\ answered + n \in 0..PingLen
        BY <2>1 DEF SmokeTypeOK
    <2>3. PICK piece \in {SubSeq(Ping, answered + 1, answered + n)}
                      \union (IF peer = "echo" THEN {} ELSE {[i \in 1..n |-> Wrong]}) :
             payload' = Append(payload, piece)
        BY <1>1 DEF PeerSends
    <2>4. SubSeq(Ping, answered + 1, answered + n) \in Seq(Nat)
        <3>1. answered \in 0..PingLen /\ answered + n \in answered..PingLen
            BY <2>2 DEF SmokeTypeOK
        <3>2. Piece(answered, answered + n) \in Seq(Nat)
            BY <3>1, PieceIs
        <3> QED
            BY <3>2 DEF Piece
    <2>5. [i \in 1..n |-> Wrong] \in Seq(Nat)
        BY DEF Wrong
    <2>6. piece \in Seq(Nat)
        BY <2>3, <2>4, <2>5
    <2>7. payload' \in Seq(Seq(Nat))
        BY <2>3, <2>6 DEF SmokeTypeOK
    <2> QED
        BY <2>1, <2>2, <2>7 DEF SmokeTypeOK
<1>2. CASE PollStep
    <2>1. /\ sock' = IF received' = received THEN sock ELSE sock \o payload[Last(received')]
          /\ UNCHANGED <<peer, pc, mtime, payload, buf, answered, exit>>
        BY <1>2 DEF PollStep
    <2>2. sock' \in Seq(Nat)
        <3>1. CASE received' = received
            BY <2>1, <3>1 DEF SmokeTypeOK
        <3>2. CASE received' # received
            <4>1. /\ Last(received') = Len(received) + 1
                  /\ Len(received) + 1 <= Len(payload)
                BY <1>2, <3>2, PollKeepsOrder
            <4>2. Len(received) \in Nat /\ payload \in Seq(Seq(Nat)) /\ sock \in Seq(Nat)
                BY DEF TokensInv, DeviceTypeOK, SmokeTypeOK
            <4>3. payload[Last(received')] \in Seq(Nat)
                BY <4>1, <4>2
            <4> QED
                BY <2>1, <3>2, <4>2, <4>3
        <3> QED
            BY <3>1, <3>2
    <2> QED
        BY <2>1, <2>2 DEF SmokeTypeOK
<1>3. CASE BringUp \/ Start \/ NoNic \/ TimesOut \/ BeginPoll \/ PollEnds \/ UNCHANGED vars
    BY <1>3 DEF BringUp, Start, NoNic, Panic, TimesOut, BeginPoll, PollEnds, vars, streamVars,
                SmokeTypeOK
<1>4. CASE Idle \/ Compare
    <2>1. Read \in Seq(Nat) /\ << >> \in Seq(Nat)
        BY DEF Read, SmokeTypeOK
    <2>2. buf' \in {buf, Read} /\ sock' \in {sock, << >>}
        BY <1>4 DEF Idle, Compare
    <2>3. /\ UNCHANGED <<peer, payload, answered>>
          /\ pc' \in {"top", "socket"} /\ exit' \in {exit, 0, 1}
        BY <1>4 DEF Idle, Compare
    <2>4. mtime' \in Nat
        <3>1. CASE Idle
            <4>1. PICK idle \in 1..SlowestIdle : mtime' = mtime + idle
                BY <3>1 DEF Idle
            <4> QED
                BY <4>1 DEF SmokeTypeOK
        <3>2. CASE Compare
            BY <3>2 DEF Compare, SmokeTypeOK
        <3> QED
            BY <1>4, <3>1, <3>2
    <2>5. buf' \in Seq(Nat) /\ sock' \in Seq(Nat)
        BY <2>1, <2>2 DEF SmokeTypeOK
    <2> QED
        BY <2>3, <2>4, <2>5 DEF SmokeTypeOK
<1> QED
    BY <1>1, <1>2, <1>3, <1>4 DEF Next, KernelStep

\* The mock's next packet carries the bytes after those it has sent.
LEMMA ArrivalKeepsStream ==
    ASSUME TokensInv, SmokeTypeOK, PacketsInOrder, peer = "echo", EchoStream,
           NEW n \in 0..PingLen, PeerSends(n)
    PROVE  EchoStream'
<1>1. /\ payload' = Append(payload, Piece(answered, answered + n))
      /\ answered' = answered + n /\ answered' <= PingLen
      /\ UNCHANGED <<buf, sock, received>>
    BY DEF PeerSends, PacketArrives, Piece
<1>2. PICK cut \in [0..Len(payload) -> 0..PingLen] :
        /\ cut[0] = 0 /\ cut[Len(payload)] = answered
        /\ \A i \in 1..Len(payload) :
              cut[i - 1] <= cut[i] /\ payload[i] = Piece(cut[i - 1], cut[i])
        /\ buf \o sock = Piece(0, cut[Len(received)])
    BY DEF EchoStream
<1>3. /\ Len(payload) \in Nat /\ Len(received) \in Nat /\ Len(received) <= Len(payload)
      /\ answered \in 0..PingLen /\ answered' \in 0..PingLen /\ answered <= answered'
    <2>1. /\ Len(payload) \in Nat /\ Len(received) \in Nat /\ Len(used) \in Nat
          /\ answered \in 0..PingLen
        BY DEF TokensInv, DeviceTypeOK, SmokeTypeOK
    <2>2. Unread \in {0, 1}
        BY DEF Unread
    <2> QED
        BY <1>1, <2>1, <2>2, SmokeAssumption DEF PacketsInOrder
<1> DEFINE L == Len(payload)
           next1 == Piece(answered, answered + n)
           longer == [i \in 0..L + 1 |-> IF i = L + 1 THEN answered' ELSE cut[i]]
<1>4. /\ Len(payload') = L + 1
      /\ \A i \in 1..L : payload'[i] = payload[i]
      /\ payload'[L + 1] = next1
    <2>1. payload \in Seq(Seq(Nat)) /\ next1 \in Seq(Nat)
        <3>1. answered + n \in answered..PingLen
            BY <1>1, <1>3
        <3> QED
            BY <1>3, <3>1, PieceIs DEF SmokeTypeOK
    <2> HIDE DEF next1
    <2> QED
        BY <1>1, <2>1 DEF next1
<1> HIDE DEF L, next1
<1>5. L \in Nat /\ L = Len(payload)
    BY <1>3 DEF L
<1>6. /\ longer \in [0..L + 1 -> 0..PingLen]
      /\ longer[L + 1] = answered'
      /\ \A i \in 0..L : longer[i] = cut[i]
    BY <1>2, <1>3, <1>5
<1> HIDE DEF longer
<1>7. \A i \in 1..L + 1 : longer[i - 1] <= longer[i] /\ payload'[i] = Piece(longer[i - 1], longer[i])
    <2> SUFFICES ASSUME NEW i \in 1..L + 1
                 PROVE  longer[i - 1] <= longer[i] /\ payload'[i] = Piece(longer[i - 1], longer[i])
        OBVIOUS
    <2>1. CASE i \in 1..L
        <3>1. i - 1 \in 0..L /\ i \in 0..L
            BY <1>5, <2>1
        <3> QED
            BY <1>2, <1>4, <1>5, <1>6, <2>1, <3>1
    <2>2. CASE i = L + 1
        <3>1. i - 1 = L /\ L \in 0..L
            BY <1>5, <2>2
        <3>2. longer[i - 1] = answered /\ longer[i] = answered'
            BY <1>2, <1>5, <1>6, <2>2, <3>1
        <3> QED
            BY <1>1, <1>3, <1>4, <2>2, <3>2 DEF next1
    <2> QED
        BY <1>5, <2>1, <2>2
<1>8. longer[0] = 0 /\ longer[Len(received')] = cut[Len(received)]
    BY <1>1, <1>2, <1>3, <1>5, <1>6
<1>9. buf' \o sock' = Piece(0, longer[Len(received')])
    BY <1>1, <1>2, <1>8
<1> QED
    BY <1>4, <1>5, <1>6, <1>7, <1>8, <1>9 DEF EchoStream

\* Appending is associative.
LEMMA JoinThree == \A s, t, u \in Seq(Nat) : (s \o t) \o u = s \o (t \o u)
BY ConcatAssociative

\* A poll adds to what the kernel has what the next packet carries.
LEMMA PollKeepsStream ==
    ASSUME TokensInv, SmokeTypeOK, PacketsInOrder, EchoStream, PollStep
    PROVE  EchoStream'
<1>1. /\ sock' = IF received' = received THEN sock ELSE sock \o payload[Last(received')]
      /\ UNCHANGED <<payload, buf, answered>>
    BY DEF PollStep
<1>2. PICK cut \in [0..Len(payload) -> 0..PingLen] :
        /\ cut[0] = 0 /\ cut[Len(payload)] = answered
        /\ \A i \in 1..Len(payload) :
              cut[i - 1] <= cut[i] /\ payload[i] = Piece(cut[i - 1], cut[i])
        /\ buf \o sock = Piece(0, cut[Len(received)])
    BY DEF EchoStream
<1>3. buf' \o sock' = Piece(0, cut[Len(received')])
    <2>1. CASE received' = received
        BY <1>1, <1>2, <2>1
    <2>2. CASE received' # received
        <3>1. /\ Len(received') = Len(received) + 1 /\ Last(received') = Len(received) + 1
              /\ Len(received) + 1 <= Len(payload)
            BY <2>2, PollKeepsOrder
        <3>2. Len(received) \in Nat /\ Len(payload) \in Nat
            BY DEF TokensInv, DeviceTypeOK, SmokeTypeOK
        <3> DEFINE r == Len(received)
        <3>3. r + 1 \in 1..Len(payload) /\ r \in 0..Len(payload) /\ (r + 1) - 1 = r
            BY <3>1, <3>2
        <3> HIDE DEF r
        <3>4. PICK a \in 0..PingLen : a = cut[r]
            BY <3>3
        <3>5. PICK b \in a..PingLen : b = cut[r + 1] /\ payload[r + 1] = Piece(a, b)
            <4>1. cut[r] <= cut[r + 1] /\ payload[r + 1] = Piece(cut[r], cut[r + 1])
                BY <1>2, <3>3
            <4>2. cut[r + 1] \in 0..PingLen
                BY <3>3
            <4> QED
                BY <3>4, <4>1, <4>2, SmokeAssumption
        <3>6. sock' = sock \o Piece(a, b) /\ Last(received') = r + 1
            BY <1>1, <2>2, <3>1, <3>5 DEF r
        <3>7. Piece(a, b) \in Seq(Nat) /\ buf \in Seq(Nat) /\ sock \in Seq(Nat)
            BY <3>5, PieceIs DEF SmokeTypeOK
        <3>8. (buf \o sock) \o Piece(a, b) = buf \o (sock \o Piece(a, b))
            BY <3>7, JoinThree, Zenon
        <3>9. buf \o sock = Piece(0, a)
            BY <1>2, <3>4 DEF r
        <3>10. Piece(0, a) \o Piece(a, b) = Piece(0, b)
            BY <3>5, PieceJoin
        <3>11. cut[Len(received')] = b
            BY <3>1, <3>5 DEF r
        <3>12. buf' \o sock' = Piece(0, b)
            BY <1>1, <3>6, <3>8, <3>9, <3>10, Zenon
        <3> QED
            BY <3>11, <3>12
    <2> QED
        BY <2>1, <2>2
<1> QED
    BY <1>1, <1>2, <1>3 DEF EchoStream

\* What the socket had is in buf, or the socket still has it.
LEMMA RoundKeepsRead ==
    ASSUME SmokeTypeOK, Idle \/ Compare
    PROVE  Read' = Read
<1>1. (buf' = Read /\ sock' = << >>) \/ UNCHANGED <<buf, sock>>
    BY DEF Idle, Compare
<1>2. buf \o sock \in Seq(Nat)
    BY DEF SmokeTypeOK
<1>3. (buf \o sock) \o << >> = buf \o sock
    BY <1>2, ConcatEmptySeq
<1> QED
    BY <1>1, <1>3 DEF Read

LEMMA RoundKeepsStream ==
    ASSUME SmokeTypeOK, EchoStream, Idle \/ Compare
    PROVE  EchoStream'
<1>1. UNCHANGED <<received, payload, answered>>
    BY DEF Idle, Compare, tokenVars
<1>2. buf' \o sock' = buf \o sock
    BY RoundKeepsRead DEF Read
<1> QED
    BY <1>1, <1>2 DEF EchoStream

\* At the end of a round's poll nothing is unread: the kernel has what the mock
\* has sent, as long a prefix of PING.
LEMMA RoundHasAll ==
    ASSUME TokensInv, SmokeTypeOK, PacketsInOrder, EchoStream, used = << >>, token = {}
    PROVE  Read = Piece(0, answered) /\ Len(Read) = answered
<1>1. PICK cut \in [0..Len(payload) -> 0..PingLen] :
        cut[Len(payload)] = answered /\ buf \o sock = Piece(0, cut[Len(received)])
    BY DEF EchoStream
<1>2. Unread = 0 /\ Len(used) = 0 /\ Len(received) \in Nat
    BY DEF Unread, TokensInv, DeviceTypeOK
<1>3. Len(received) = Len(payload)
    BY <1>2 DEF PacketsInOrder
<1>4. Read = Piece(0, answered)
    BY <1>1, <1>3 DEF Read
<1> QED
    BY <1>4, PrefixIs DEF SmokeTypeOK

\* Rounds, step by step.
LEMMA RoundsNext ==
    ASSUME SmokeInv, [Next]_vars
    PROVE  Rounds'
<1> USE SmokeAssumption
<1>1. TokensInv /\ SmokeTypeOK /\ PacketsInOrder /\ PingFirst /\ Rounds /\ (peer = "echo" => EchoStream)
    BY DEF SmokeInv
<1>2. mtime \in Nat /\ answered \in 0..PingLen
    BY <1>1 DEF SmokeTypeOK
<1>3. ASSUME NEW n \in 0..PingLen, PeerSends(n) PROVE Rounds'
    <2>1. /\ answered' = answered + n
          /\ UNCHANGED <<peer, pc, mtime, buf, sock, polled>>
        BY <1>3 DEF PeerSends
    <2> QED
        BY <1>1, <1>2, <2>1 DEF Rounds, Read
<1>4. CASE PollStep
    <2>1. pc = "poll" /\ UNCHANGED <<peer, pc, mtime, answered, polled>>
        BY <1>4 DEF PollStep
    <2> QED
        BY <1>1, <2>1 DEF Rounds
<1>5. CASE BringUp \/ NoNic \/ TimesOut \/ UNCHANGED vars
    BY <1>1, <1>5 DEF BringUp, NoNic, TimesOut, Panic, vars, streamVars, Rounds, Read
<1>6. CASE Start
    BY <1>1, <1>2, <1>6 DEF Start, Rounds, streamVars
<1>7. CASE BeginPoll
    BY <1>1, <1>2, <1>7 DEF BeginPoll, Late, Rounds, streamVars
<1>8. CASE PollEnds
    <2>1. /\ pc = "poll" /\ pc' = "socket" /\ used = << >> /\ token = {} /\ polled' = answered
          /\ UNCHANGED <<peer, mtime, buf, sock, answered>>
        BY <1>8 DEF PollEnds
    <2>2. peer = "echo" => Read = Piece(0, answered)
        BY <1>1, <2>1, RoundHasAll
    <2> QED
        BY <1>1, <1>2, <2>1, <2>2 DEF Rounds, Read
<1>9. CASE Compare
    <2>1. /\ pc = "socket" /\ pc' = "socket" /\ buf' = Read /\ sock' = << >>
          /\ UNCHANGED <<peer, mtime, answered, polled>>
        BY <1>9 DEF Compare
    <2>2. Read' = Read
        BY <1>1, <1>9, RoundKeepsRead
    <2> QED
        BY <1>1, <2>1, <2>2 DEF Rounds
<1>10. CASE Idle
    <2>1. /\ pc = "socket" /\ pc' = "top"
          /\ queued' => Len(Read) < PingLen
          /\ queued' = queued \/ queued' = TRUE
          /\ UNCHANGED <<peer, answered, polled>>
        BY <1>10 DEF Idle
    <2>2. mtime' <= Timeout + SlowestIdle
        <3>1. PICK idle \in 1..SlowestIdle : mtime' = mtime + idle
            BY <1>10 DEF Idle
        <3>2. mtime <= Timeout
            BY <1>1, <2>1 DEF Rounds
        <3> QED
            BY <1>2, <3>1, <3>2
    <2>3. peer = "echo" => polled < PingLen
        <3> SUFFICES ASSUME peer = "echo" PROVE polled < PingLen
            OBVIOUS
        <3>1. polled \in 0..PingLen /\ polled <= answered
            BY <1>1, <1>2 DEF Rounds
        <3>2. CASE queued'
            <4>1. Read = Piece(0, polled)
                BY <1>1, <2>1 DEF Rounds
            <4>2. Len(Read) = polled
                BY <3>1, <4>1, PrefixIs
            <4> QED
                BY <2>1, <3>2, <4>2
        <3>3. CASE ~queued'
            <4>1. ~queued
                BY <2>1, <3>3
            <4>2. ~(answered > 0)
                BY <1>1, <4>1 DEF PingFirst
            <4> QED
                BY <1>2, <3>1, <4>2
        <3> QED
            BY <3>2, <3>3
    <2> QED
        BY <1>1, <2>1, <2>2, <2>3 DEF Rounds
<1> QED
    BY <1>3, <1>4, <1>5, <1>6, <1>7, <1>8, <1>9, <1>10 DEF Next, KernelStep

\* The verdict: against the mock the timeout comes only if some of the echo came
\* after the last poll, and what is compared is the PING.
LEMMA VerdictNext ==
    ASSUME SmokeInv, [Next]_vars
    PROVE  EchoIsAccepted'
<1> USE SmokeAssumption
<1>1. /\ TokensInv /\ SmokeTypeOK /\ PacketsInOrder /\ Rounds /\ (peer = "echo" => EchoStream)
      /\ EchoIsAccepted
    BY DEF SmokeInv
<1>2. CASE UNCHANGED vars
    BY <1>1, <1>2 DEF vars, nicVars, streamVars, EchoIsAccepted
<1>3. CASE NoNic
    BY <1>3 DEF NoNic, Panic, nicVars, EchoIsAccepted
<1>4. CASE TimesOut
    BY <1>1, <1>4 DEF TimesOut, Panic, streamVars, Rounds, EchoIsAccepted
<1>5. CASE Compare
    <2> SUFFICES ASSUME peer = "echo" PROVE exit' = 0
        BY <1>5 DEF Compare, EchoIsAccepted
    <2>1. Read = Piece(0, polled) /\ polled \in 0..answered /\ answered \in 0..PingLen
        BY <1>1, <1>5 DEF Compare, Rounds, SmokeTypeOK
    <2>2. polled \in 0..PingLen /\ Len(Piece(0, polled)) = polled
        BY <2>1, PrefixIs
    <2>3. polled = PingLen
        BY <1>5, <2>1, <2>2 DEF Compare
    <2>4. SubSeq(Read, 1, PingLen) = Ping
        <3>1. Read = SubSeq(Ping, 1, PingLen)
            BY <2>1, <2>3 DEF Piece
        <3>2. Ping \in Seq(Nat) /\ Len(Ping) = PingLen
            BY DEF Ping
        <3>3. Read = Ping
            BY <3>1, <3>2
        <3> QED
            BY <3>2, <3>3
    <2> QED
        BY <1>5, <2>4 DEF Compare
<1>6. ASSUME exit' = exit, exit = Running PROVE EchoIsAccepted'
    BY <1>6 DEF EchoIsAccepted, Running
<1> QED
    BY <1>2, <1>3, <1>4, <1>5, <1>6
    DEF Next, KernelStep, BringUp, Start, BeginPoll, PollStep, PollEnds, Idle, PeerSends

\* SmokeInv is inductive.
LEMMA SmokeInvNext == SmokeInv /\ [Next]_vars => SmokeInv'
<1> SUFFICES ASSUME SmokeInv, [Next]_vars PROVE SmokeInv'
    OBVIOUS
<1>1. TokensInv /\ SmokeTypeOK /\ PacketsInOrder /\ PingFirst /\ (peer = "echo" => EchoStream)
    BY DEF SmokeInv
<1>2. TokensInv'
    <2>1. [DeviceNext]_tokenVars
        BY DEF Next, KernelStep, BringUp, Start, NoNic, Panic, TimesOut, BeginPoll, PollStep,
               PollEnds, Idle, Compare, PeerSends, vars, DeviceNext
    <2> QED
        BY <1>1, <2>1, TokensNext
<1>3. PacketsInOrder'
    <2>1. CASE UNCHANGED <<tokenVars, payload, answered, pinged>>
        BY <1>1, <2>1 DEF tokenVars, PacketsInOrder, Unread
    <2> QED
        BY <1>1, <2>1, GateSteps, ArrivalKeepsOrder, PollKeepsOrder
<1>4. peer' = peer
    BY DEF Next, KernelStep, BringUp, Start, NoNic, Panic, TimesOut, BeginPoll, PollStep,
           PollEnds, Idle, Compare, PeerSends, vars
<1>5. peer' = "echo" => EchoStream'
    <2> SUFFICES ASSUME peer = "echo" PROVE EchoStream'
        BY <1>4
    <2>1. EchoStream
        BY <1>1
    <2>2. CASE BringUp \/ Start \/ NoNic \/ TimesOut \/ BeginPoll \/ PollEnds \/ UNCHANGED vars
        <3>1. UNCHANGED <<received, payload, buf, sock, answered>>
            BY <2>2 DEF BringUp, Start, NoNic, Panic, TimesOut, BeginPoll, PollEnds, vars,
                        streamVars, tokenVars
        <3> QED
            BY <2>1, <3>1 DEF EchoStream
    <2> QED
        BY <1>1, <2>1, <2>2, ArrivalKeepsStream, PollKeepsStream, RoundKeepsStream
        DEF Next, KernelStep
<1> QED
    BY <1>1, <1>2, <1>3, <1>5, SmokeTypesNext, PingFirstNext, RoundsNext, VerdictNext DEF SmokeInv

\* SmokeInv holds throughout the build.
LEMMA SmokeInvariant == Spec => []SmokeInv
<1>1. Init => SmokeInv
    <2> SUFFICES ASSUME Init PROVE SmokeInv
        OBVIOUS
    <2>1. TokensInv
        BY TokensInit DEF Init
    <2>2. Len(<< >>) = 0 /\ << >> \in Seq(Nat) /\ << >> \in Seq(Seq(Nat)) /\ << >> \o << >> = << >>
        OBVIOUS
    <2>3. SmokeTypeOK
        BY <2>2, SmokeAssumption DEF Init, SmokeTypeOK
    <2>4. PacketsInOrder
        BY <2>2 DEF Init, DeviceInit, PacketsInOrder, Unread
    <2>5. PingFirst /\ EchoIsAccepted
        BY DEF Init, DeviceInit, PingFirst, EchoIsAccepted, Running
    <2>6. Rounds
        BY DEF Init, Rounds
    <2>7. EchoStream
        <3> DEFINE cut == [i \in 0..0 |-> 0]
        <3>1. 0 \in 0..PingLen
            BY SmokeAssumption
        <3>2. Piece(0, 0) = << >>
            BY <3>1, PrefixIs
        <3>3. cut \in [0..0 -> 0..PingLen] /\ cut[0] = 0
            BY <3>1
        <3> HIDE DEF cut
        <3>4. /\ Len(payload) = 0 /\ Len(received) = 0 /\ answered = 0
              /\ buf \o sock = Piece(0, 0)
            BY <2>2, <3>2 DEF Init, DeviceInit
        <3>5. 1..Len(payload) = {}
            BY <3>4
        <3> QED
            BY <3>3, <3>4, <3>5 DEF EchoStream
    <2> QED
        BY <2>1, <2>3, <2>4, <2>5, <2>6, <2>7 DEF SmokeInv
<1> QED
    BY <1>1, SmokeInvNext, PTL DEF Spec

\* Against the mock the gate fails only for want of a NIC or of pages, or if some
\* of the echo came after the last poll before time was up: for every PING and
\* timeout, every cut of the echo into packets and every number of packets and
\* buffers (smoke.rs:52-71).
THEOREM EchoIsAcceptedHolds == Spec => []EchoIsAccepted
<1>1. SmokeInv => EchoIsAccepted
    BY DEF SmokeInv
<1> QED
    BY <1>1, SmokeInvariant, PTL

\* However its peer behaves, the gate looks at the clock for the last time
\* within the timeout and one idle: the safety part of SmokeEnds
\* (smoke.rs:53-55).
THEOREM SmokeBounded == Spec => [](mtime <= Timeout + SlowestIdle)
<1>1. SmokeInv => mtime <= Timeout + SlowestIdle
    BY SmokeAssumption DEF SmokeInv, Rounds, SmokeTypeOK
<1> QED
    BY <1>1, SmokeInvariant, PTL

=============================================================================
