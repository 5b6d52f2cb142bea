------------------------------- MODULE Memory -------------------------------
(***************************************************************************)
(* The memory manager: c/mem.c, c/memHeader.c.  Memory is cut into slots,  *)
(* each a header followed by its data.  The free slots form a doubly       *)
(* linked list in the order of their addresses; a slot that kmalloc has    *)
(* given out is in no list.                                                *)
(***************************************************************************)
EXTENDS Integers, Sequences, SequencesExt

CONSTANTS
  freemem, HOLESTART, HOLEEND, maxaddr,   \* the two regions of free memory
  MEM_HEADER_SIZE,
  MIN_STACK_SIZE,
  GRAIN,       \* sizes are rounded up to a multiple of it, 16 in the code
  ULONG_MAX,   \* largest value of an unsigned long
  NULL,        \* the null pointer
  Requests     \* the sizes asked for in this workload

ASSUME MemoryAssumption ==
  /\ {freemem, HOLESTART, HOLEEND, maxaddr} \subseteq Nat
  /\ {MEM_HEADER_SIZE, MIN_STACK_SIZE, GRAIN, ULONG_MAX} \subseteq Nat \ {0}
  /\ MIN_STACK_SIZE % GRAIN = 0
  /\ freemem + MEM_HEADER_SIZE < HOLESTART
  /\ HOLESTART < HOLEEND
  /\ HOLEEND + MEM_HEADER_SIZE < maxaddr
  /\ NULL \notin Nat

(***************************************************************************)
(* What the machine sees to: addresses and sizes are unsigned longs, and a *)
(* header, four words of four bytes, takes one grain.  Where the kernel    *)
(* ends, and so where the lower region begins, is up to the linker.        *)
(***************************************************************************)
ASSUME MachineAssumption ==
  /\ maxaddr <= ULONG_MAX
  /\ Requests \subseteq 0 .. ULONG_MAX
  /\ (ULONG_MAX + 1) % GRAIN = 0
  /\ MEM_HEADER_SIZE = GRAIN

(***************************************************************************)
(* mem is a record of memList and hdr, the header at each address where a  *)
(* slot begins.  A header that a merge has made part of another slot's     *)
(* data is dropped from hdr.  live maps the addresses that processes own,  *)
(* their addr_start, to the size that create asked for.                    *)
(***************************************************************************)
VARIABLES mem, live

vars == << mem, live >>

\* Unsigned arithmetic of addresses and sizes.
Wrapped(n) == n % (ULONG_MAX + 1)

Header(size, prev, next, sane) ==
  [size |-> size, prev |-> prev, next |-> next, sanityCheck |-> sane]

\* Where the slot at a ends and another may begin.
EndOf(m, a) == Wrapped(a + m.hdr[a].size + MEM_HEADER_SIZE)

\* The slots of memList, in its order.
FreeList(m) ==
  LET from[a \in DOMAIN m.hdr \cup {NULL}] ==
        IF a = NULL THEN << >> ELSE << a >> \o from[m.hdr[a].next]
  IN  from[m.memList]

\* a->next = b and a->prev = b, unless a is null.
SetNext(m, a, b) == IF a = NULL THEN m ELSE [m EXCEPT !.hdr[a].next = b]
SetPrev(m, a, b) == IF a = NULL THEN m ELSE [m EXCEPT !.hdr[a].prev = b]

\* reallocateMemPtr: memList goes back to the first slot of its list.
reallocateMemPtr(m) ==
  LET first[a \in DOMAIN m.hdr] ==
        IF m.hdr[a].prev = NULL THEN a ELSE first[m.hdr[a].prev]
  IN  IF m.memList = NULL THEN m ELSE [m EXCEPT !.memList = first[m.memList]]

\* kmeminit: a free slot below the hole, and one above it of a rounded size.
kmeminit ==
  LET above == maxaddr - (HOLEEND + MEM_HEADER_SIZE)
  IN  [memList |-> freemem,
       hdr |-> [a \in {freemem, HOLEEND} |->
                  IF a = freemem
                  THEN Header(HOLESTART - (freemem + MEM_HEADER_SIZE), NULL, HOLEEND, FALSE)
                  ELSE Header((above \div GRAIN) * GRAIN, freemem, NULL, FALSE)]]

\* Fault: the remainder of a division is dropped.
Rounded_Down(size) ==
  IF size < MIN_STACK_SIZE THEN MIN_STACK_SIZE ELSE (size \div GRAIN) * GRAIN

\* The size of the slot that kmalloc looks for.
Rounded(size) ==
  IF size < MIN_STACK_SIZE THEN MIN_STACK_SIZE
  ELSE Wrapped(((size \div GRAIN) + (IF size % GRAIN = 0 THEN 0 ELSE 1)) * GRAIN)

\* findMemSlot: the first slot that is large enough.
findMemSlot(m, n) ==
  LET list == FreeList(m)
      fits == {j \in 1 .. Len(list) : m.hdr[list[j]].size >= n}
  IN  IF fits = {} THEN NULL ELSE list[CHOOSE j \in fits : \A i \in fits : j <= i]

\* Fault: the neighbours of the slot that leaves are not linked.
unlink_NoRelink(m, s) == [m EXCEPT !.memList = m.hdr[s].next]

(***************************************************************************)
(* In allocateMemSlot, a slot of exactly the size leaves the list and      *)
(* memList goes to the next one: null when it was the last, even if others *)
(* come before it.  A larger slot is split and its rest takes its place.   *)
(***************************************************************************)
unlink(m, s) ==
  LET h == m.hdr[s]
  IN  [SetPrev(SetNext(m, h.prev, h.next), h.next, h.prev) EXCEPT !.memList = h.next]

splitLeaving(m, s, n, left) ==
  LET h == m.hdr[s]
      rest == s + n + MEM_HEADER_SIZE
      cut == [memList |-> rest,
              hdr |-> [a \in DOMAIN m.hdr \cup {rest} |->
                         IF a = rest THEN Header(left, h.prev, h.next, FALSE)
                                     ELSE m.hdr[a]]]
  IN  SetNext(SetPrev(cut, h.next, rest), h.prev, rest)

\* Fault: the header of the rest is not counted.
split_NoHeader(m, s, n) == splitLeaving(m, s, n, m.hdr[s].size - n)

split(m, s, n) == splitLeaving(m, s, n, Wrapped(m.hdr[s].size - n - MEM_HEADER_SIZE))

\* Fault: the slot is not marked as one that kfree may take back.
allocateMemSlot_NotMarked(m, s, n) ==
  LET taken == IF m.hdr[s].size = n THEN unlink(m, s) ELSE split(m, s, n)
  IN  reallocateMemPtr([taken EXCEPT !.hdr[s] = Header(n, NULL, NULL, FALSE)])

\* allocateMemSlot, and the mark kmalloc leaves in sanityCheck for kfree.
allocateMemSlot(m, s, n) ==
  LET taken == IF m.hdr[s].size = n THEN unlink(m, s) ELSE split(m, s, n)
  IN  reallocateMemPtr([taken EXCEPT !.hdr[s] = Header(n, NULL, NULL, TRUE)])

\* Fault: the slot becomes the head of the list wherever it lies.
insertToMemList_AtHead(m, s) ==
  LET after == [m EXCEPT !.hdr[s] = Header(@.size, NULL, m.memList, FALSE), !.memList = s]
  IN  SetPrev(after, m.memList, s)

(***************************************************************************)
(* insertToMemList.  From the head of the list, the loop stops at the      *)
(* first slot that s comes before (the head alone), that has no next one,  *)
(* or whose next one comes after s.                                        *)
(***************************************************************************)
insertToMemList(m, s) ==
  LET list == FreeList(m)
      after == [m EXCEPT !.hdr[s].sanityCheck = FALSE]
      stops == {j \in 1 .. Len(list) : j = Len(list) \/ (list[j] < s /\ list[j + 1] > s)}
      at == list[CHOOSE j \in stops : \A i \in stops : j <= i]
      link(a, b) == [after EXCEPT !.hdr[s].prev = a, !.hdr[s].next = b]
  IN  IF m.memList = NULL THEN [after EXCEPT !.memList = s]
      ELSE IF s < m.memList
      THEN reallocateMemPtr(SetPrev(link(NULL, m.memList), m.memList, s))
      ELSE reallocateMemPtr(
             SetNext(SetPrev(link(at, m.hdr[at].next), m.hdr[at].next, s), at, s))

\* Slot a takes in the slot b that begins where it ends and follows it in the list.
absorb(m, a, b) ==
  LET next == m.hdr[b].next
      size == Wrapped(m.hdr[a].size + MEM_HEADER_SIZE + m.hdr[b].size)
      grown == [m EXCEPT !.hdr = [x \in DOMAIN m.hdr \ {b} |->
                  IF x = a THEN [m.hdr[a] EXCEPT !.size = size, !.next = next]
                           ELSE m.hdr[x]]]
  IN  SetPrev(grown, next, a)

\* Fault: a freed slot is not merged with the one before it.
mergeMemSlot_RightOnly(m, s) ==
  IF m.hdr[s].next # NULL /\ EndOf(m, s) = m.hdr[s].next
  THEN absorb(m, s, m.hdr[s].next) ELSE m

\* mergeMemSlot: with the slot before, then with the slot after.
mergeMemSlot(m, s) ==
  LET before == m.hdr[s].prev
      left == before # NULL /\ EndOf(m, before) = s
      once == IF left THEN absorb(m, before, s) ELSE m
      slot == IF left THEN before ELSE s
      after == once.hdr[slot].next
  IN  IF after # NULL /\ EndOf(once, slot) = after
      THEN absorb(once, slot, after) ELSE once

\* The tests kfree makes of an address before it trusts the header.
Accepted(m, ptr) ==
  /\ freemem <= ptr /\ ptr <= maxaddr
  /\ ~ (HOLESTART < ptr /\ ptr < HOLEEND)
  /\ ptr - MEM_HEADER_SIZE \in DOMAIN m.hdr
  /\ m.hdr[ptr - MEM_HEADER_SIZE].sanityCheck

Init == mem = kmeminit /\ live = << >>

\* kmalloc, called by create for a stack of this size.
kmalloc(size) ==
  LET s == findMemSlot(mem, Rounded(size))
      ptr == s + MEM_HEADER_SIZE
  IN  /\ mem.memList # NULL
      /\ s # NULL
      /\ mem' = allocateMemSlot(mem, s, Rounded(size))
      /\ live' = [p \in DOMAIN live \cup {ptr} |-> IF p = ptr THEN size ELSE live[p]]

\* kfree, called by cleanup for the stack of the process that stops.
kfree(ptr) ==
  /\ live' = [p \in DOMAIN live \ {ptr} |-> live[p]]
  /\ mem' = LET s == ptr - MEM_HEADER_SIZE
            IN  IF Accepted(mem, ptr) THEN mergeMemSlot(insertToMemList(mem, s), s)
                ELSE mem

Next == \/ \E size \in Requests : kmalloc(size)
        \/ \E ptr \in DOMAIN live : kfree(ptr)

Spec == Init /\ [][Next]_vars
=============================================================================
