----------------------------- MODULE Allocating -----------------------------
(***************************************************************************)
(* What must hold of the memory that stacks are allocated from.  Slots may *)
(* be found by any of the requests and given back in any order.            *)
(***************************************************************************)
EXTENDS Memory

VARIABLES
  dropped,   \* the free list once lost slots: kmalloc took its last slot exactly
  torn       \* a slot was split whose rest has no room for a header

avars == << mem, live, dropped, torn >>

TakesLast(size) ==
  LET s == findMemSlot(mem, Rounded(size))
  IN  /\ mem.hdr[s].size = Rounded(size)
      /\ mem.hdr[s].next = NULL
      /\ mem.hdr[s].prev # NULL

\* The size of the rest wraps, and its header lies on what follows the slot.
Tears(size) ==
  LET s == findMemSlot(mem, Rounded(size))
  IN  /\ mem.hdr[s].size # Rounded(size)
      /\ mem.hdr[s].size < Rounded(size) + MEM_HEADER_SIZE

Take(size) == /\ ~ torn
              /\ kmalloc(size)
              /\ dropped' = (dropped \/ TakesLast(size))
              /\ torn' = Tears(size)

Give(ptr) == ~ torn /\ kfree(ptr) /\ UNCHANGED << dropped, torn >>

\* Once a header was written over other data, the memory is not followed further.
Broken == torn /\ UNCHANGED avars

AInit == Init /\ dropped = FALSE /\ torn = FALSE
ANext == \/ \E size \in Requests : Take(size)
         \/ \E ptr \in DOMAIN live : Give(ptr)
         \/ Broken
ASpec == AInit /\ [][ANext]_avars
-----------------------------------------------------------------------------
Cells(a) == a .. EndOf(mem, a) - 1
Below == freemem .. HOLESTART - 1
Above == HOLEEND .. maxaddr - 1

(***************************************************************************)
(* No two slots, free or owned, share an address, and none reaches into    *)
(* the hole or beyond the end: two processes never have the same stack,    *)
(* whatever kmalloc has split and kfree has merged.  It is so until a slot *)
(* is torn (c/memHeader.c:38).                                             *)
(***************************************************************************)
SlotsApart ==
  ~ torn =>
    \A a \in DOMAIN mem.hdr :
      /\ Cells(a) \subseteq Below \/ Cells(a) \subseteq Above
      /\ \A b \in DOMAIN mem.hdr \ {a} : Cells(a) \cap Cells(b) = {}

(***************************************************************************)
(* Until then, the free list is in the order of addresses, its prev        *)
(* pointers mirror the next pointers, it holds no slot that is owned, and  *)
(* no slot begins where the one before it ends (insertToMemList,           *)
(* mergeMemSlot).                                                          *)
(***************************************************************************)
FreeListOrdered ==
  LET list == FreeList(mem) IN
  ~ torn =>
    /\ \A i \in 1 .. Len(list) :
         /\ mem.hdr[list[i]].prev = IF i = 1 THEN NULL ELSE list[i - 1]
         /\ list[i] + MEM_HEADER_SIZE \notin DOMAIN live
    /\ \A i \in 1 .. Len(list) - 1 : EndOf(mem, list[i]) < list[i + 1]

(***************************************************************************)
(* Until a slot is torn or the list drops slots, every slot is owned or in *)
(* the list, and the slots cover both regions, the lower to its last byte. *)
(***************************************************************************)
NothingLost ==
  ~ torn /\ ~ dropped =>
    /\ {a \in DOMAIN mem.hdr : a + MEM_HEADER_SIZE \notin DOMAIN live} = ToSet(FreeList(mem))
    /\ Below \subseteq UNION {Cells(a) : a \in DOMAIN mem.hdr}
    /\ \A x \in Above : \/ x \in UNION {Cells(a) : a \in DOMAIN mem.hdr}
                        \/ maxaddr - x < GRAIN

(***************************************************************************)
(* Until then, when the last stack has been freed, by any order of frees,  *)
(* the memory is again what kmeminit left: nothing stays split.            *)
(***************************************************************************)
FreshWhenEmpty == (~ torn /\ ~ dropped /\ DOMAIN live = {}) => mem = kmeminit

(***************************************************************************)
(* A stack has room for what was asked, so that the context frame create() *)
(* writes below its end (c/create.c:36) lies inside it.  It is so unless   *)
(* the size asked for is so near the largest that rounding it up wraps.    *)
(***************************************************************************)
RoomForStack ==
  ~ torn =>
    \A ptr \in DOMAIN live :
      live[ptr] + GRAIN <= ULONG_MAX + 1 => mem.hdr[ptr - MEM_HEADER_SIZE].size >= live[ptr]

(***************************************************************************)
(* kfree accepts every address kmalloc has given out, in either region:    *)
(* cleanup() does not look at its result (c/pcb.c:96), and a refusal would *)
(* lose the stack.                                                         *)
(***************************************************************************)
OwnersCanFree == ~ torn => \A ptr \in DOMAIN live : Accepted(mem, ptr)
=============================================================================
