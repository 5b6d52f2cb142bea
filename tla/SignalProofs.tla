---------------------------- MODULE SignalProofs ----------------------------
(***************************************************************************)
(* Proofs about signals, for every workload of module Kernel: what the     *)
(* masks and the stacked frames of a slot say does not depend on any       *)
(* queue, so a signal that takes its target out of a queue that is linked  *)
(* wrongly is covered as well.                                             *)
(***************************************************************************)
EXTENDS Signalling, KernelEffects

\* The signals from b up; the mask of an owned slot is always of this form.
From(b) == {x \in Signals : x >= b}

\* The signal of the handler that runs; 0 when none does.
Base(f) == IF f = << >> THEN 0 ELSE f[Len(f)].signum

(***************************************************************************)
(* Frames f, bottom first: signals never decrease, and each frame has the  *)
(* distance from the signal below it, by which SYS_SIGRETURN will shift    *)
(* the mask back.                                                          *)
(***************************************************************************)
Nested(f) ==
  \A j \in 1 .. Len(f) :
    /\ f[j].prevSigShift = f[j].signum - (IF j = 1 THEN 0 ELSE f[j - 1].signum)
    /\ \A i \in 1 .. j : f[i].signum <= f[j].signum

\* The inductive invariant of the masks, of one slot and of all.
SlotSignals(m, p) ==
  /\ Nested(m.frames[p])
  /\ m.pid[p] # 0 \/ m.sigTable[p] # {} => KillSignal \in m.sigTable[p]
  /\ KillSignal \in m.sigTable[p] =>
       m.sig_mask[p] = From(Base(m.frames[p]))

HandlerInv(m) == \A p \in Slots : SlotSignals(m, p)

\* The inductive invariant of the remembered signals.
Pending(m, p) ==
  /\ m.sig_ignored[p] \subseteq m.sigTable[p]
  /\ m.sig_ignored[p] \cap m.sig_mask[p] = {}
  /\ m.pid[p] = 0 => m.sig_ignored[p] = {}

PendingInv(m) == \A p \in Slots : Pending(m, p)
-----------------------------------------------------------------------------
\* Signals are numbered from 0 to KillSignal.
LEMMA SignalNumbers == Signals \in SUBSET Nat /\ KillSignal \in Signals /\ 0 \in Signals
                       /\ \A x \in Signals : x <= KillSignal
BY PcbAssumption DEF Signals, KillSignal

\* Shifting a mask left makes it start at a higher signal, and shifting it
\* back undoes that.
LEMMA MaskShifts ==
  ASSUME NEW b \in Signals, NEW s \in Signals, b <= s
  PROVE  /\ Least(From(s)) = s
         /\ ShiftLeft(From(b), s - b) = From(s)
         /\ ShiftRight(From(s), s - b) = From(b)
<1> DEFINE N == KillSignal
<1>0. N \in Nat /\ Signals = 0 .. N /\ b \in Nat /\ s \in Nat
  BY PcbAssumption DEF Signals, KillSignal
<1> HIDE DEF N
<1>1. Least(From(s)) = s
  <2>1. From(s) \in SUBSET Nat /\ s \in From(s) /\ \A x \in From(s) : s <= x
    BY <1>0 DEF From
  <2> HIDE DEF From
  <2>2. Least(From(s)) \in From(s) /\ Least(From(s)) <= s
    BY <2>1, LeastElement
  <2> QED BY <2>1, <2>2
<1>2. ShiftLeft(From(b), s - b) = From(s)
  <2>1. ASSUME NEW x \in Signals
        PROVE  (x - (s - b) \in From(b)) <=> x >= s
    BY <1>0 DEF From
  <2> QED BY <2>1 DEF ShiftLeft, From
<1>3. ShiftRight(From(s), s - b) = From(b)
  <2>1. KillSignal \in From(s)
    BY <1>0 DEF From, N
  <2>2. ASSUME NEW x \in Signals
        PROVE  /\ x + (s - b) \in Signals => (x + (s - b) \in From(s) <=> x >= b)
               /\ x + (s - b) \notin Signals => x >= b
    BY <1>0 DEF From
  <2> QED BY <2>1, <2>2 DEF ShiftRight, From
<1> QED BY <1>1, <1>2, <1>3

\* The type of a signal frame.
Frame == [signum : Signals, prevSigShift : Nat]

\* A frame for a signal not below the one on top keeps the stack nested.
LEMMA PushNests ==
  ASSUME NEW f \in Seq(Frame), Nested(f), NEW s \in Signals, Base(f) <= s,
         NEW e \in Frame, e.signum = s, e.prevSigShift = s - Base(f)
  PROVE  Nested(Append(f, e)) /\ Base(Append(f, e)) = s
<1> DEFINE g == Append(f, e)
           n == Len(f)
<1>1. /\ n \in Nat /\ Len(g) = n + 1 /\ g[n + 1] = e /\ g # << >>
      /\ \A i \in 1 .. n : g[i] = f[i]
  OBVIOUS
<1>2. \A i \in 1 .. n : f[i].signum \in Signals /\ f[i].signum <= Base(f)
  <2> TAKE i \in 1 .. n
  <2>1. f[i] \in Frame /\ n \in 1 .. n /\ f # << >> /\ i \in 1 .. n
    BY <1>1
  <2>2. f[i].signum <= f[n].signum
    BY <2>1 DEF Nested
  <2> QED BY <2>1, <2>2 DEF Base, Frame
<1> HIDE DEF g
<1>3. Base(g) = s
  BY <1>1 DEF Base
<1>4. ASSUME NEW j \in 1 .. n + 1
      PROVE  /\ g[j].prevSigShift = g[j].signum - (IF j = 1 THEN 0 ELSE g[j - 1].signum)
             /\ \A i \in 1 .. j : g[i].signum <= g[j].signum
  <2>1. CASE j \in 1 .. n
    <3>1. \A i \in 1 .. j : i \in 1 .. n
      BY <1>1, <2>1
    <3>2. j # 1 => j - 1 \in 1 .. n
      BY <1>1, <2>1
    <3> QED BY <1>1, <2>1, <3>1, <3>2 DEF Nested
  <2>2. CASE j = n + 1
    <3>1. n # 0 => g[n] = f[n] /\ Base(f) = f[n].signum
      BY <1>1 DEF Base
    <3>2. n = 0 => Base(f) = 0
      BY DEF Base
    <3>3. \A i \in 1 .. j : i \in 1 .. n \/ i = j
      BY <1>1, <2>2
    <3>4. \A i \in 1 .. n : g[i].signum <= s
      <4> TAKE i \in 1 .. n
      <4>1. g[i].signum \in Nat /\ g[i].signum <= Base(f) /\ s \in Nat
        BY <1>1, <1>2, SignalNumbers
      <4>2. Base(f) \in Nat
        <5>1. n # 0 /\ n \in 1 .. n
          BY <1>1
        <5> QED BY <1>2, <3>1, <5>1, SignalNumbers
      <4> QED BY <4>1, <4>2
    <3>5. s <= s
      BY SignalNumbers
    <3>6. j - 1 = n /\ (j = 1 <=> n = 0)
      BY <1>1, <2>2
    <3> QED BY <1>1, <2>2, <3>1, <3>2, <3>3, <3>4, <3>5, <3>6
  <2> QED BY <1>1, <2>1, <2>2
<1> QED BY <1>1, <1>3, <1>4 DEF Nested, g

\* What is below the top frame is nested, and the frame says how far it is to
\* there.
LEMMA PopNests ==
  ASSUME NEW f \in Seq(Frame), Nested(f), f # << >>
  PROVE  LET g == SubSeq(f, 1, Len(f) - 1) IN
         /\ Nested(g)
         /\ Base(g) \in Signals /\ Base(f) \in Signals /\ Base(g) <= Base(f)
         /\ f[Len(f)].prevSigShift = Base(f) - Base(g)
<1> DEFINE n == Len(f)
           g == SubSeq(f, 1, n - 1)
<1>1. /\ n \in Nat /\ n # 0 /\ n \in 1 .. n /\ n - 1 \in Nat
  OBVIOUS
<1>2. /\ g = [i \in 1 .. n - 1 |-> f[i]] /\ g \in Seq(Frame)
      /\ \A i \in 1 .. n - 1 : i \in 1 .. n
  <2>1. g = [i \in 1 .. n - 1 |-> f[i]] /\ \A i \in 1 .. n - 1 : i \in 1 .. n
    BY <1>1
  <2>2. \A i \in 1 .. n - 1 : f[i] \in Frame
    BY <2>1
  <2> QED BY <1>1, <2>1, <2>2
<1>3. Len(g) = n - 1 /\ \A i \in 1 .. n - 1 : g[i] = f[i]
  <2>1. Len(g) = n - 1
    <3>1. \A a, b \in Nat : 1 .. a = 1 .. b => a = b
      <4> SUFFICES ASSUME NEW a \in Nat, NEW b \in Nat, 1 .. a = 1 .. b
                   PROVE  a = b
        OBVIOUS
      <4>1. a # 0 => a \in 1 .. a
        OBVIOUS
      <4>2. b # 0 => b \in 1 .. b
        OBVIOUS
      <4> QED BY <4>1, <4>2
    <3> HIDE DEF g
    <3>2. DOMAIN g = 1 .. n - 1 /\ DOMAIN g = 1 .. Len(g) /\ Len(g) \in Nat
      BY <1>2
    <3> HIDE DEF n
    <3> QED BY <1>1, <3>1, <3>2
  <2>2. \A i \in 1 .. n - 1 : g[i] = f[i]
    <3> HIDE DEF g
    <3> QED BY <1>2
  <2> QED BY <2>1, <2>2
<1> HIDE DEF g
<1>4. \A i \in 1 .. n : f[i].signum \in Signals
  <2>1. \A i \in 1 .. n : f[i] \in Frame
    OBVIOUS
  <2> QED BY <2>1 DEF Frame
<1>5. Nested(g)
  <2> SUFFICES ASSUME NEW j \in 1 .. n - 1
               PROVE  /\ g[j].prevSigShift = g[j].signum - (IF j = 1 THEN 0 ELSE g[j - 1].signum)
                      /\ \A i \in 1 .. j : g[i].signum <= g[j].signum
    BY <1>3 DEF Nested
  <2>1. \A i \in 1 .. j : i \in 1 .. n - 1
    BY <1>1
  <2>2. j # 1 => j - 1 \in 1 .. n - 1
    BY <1>1
  <2> QED BY <1>2, <1>3, <2>1, <2>2 DEF Nested
<1>6. Base(f) = f[n].signum
  BY DEF Base
<1>7. Base(g) = IF n = 1 THEN 0 ELSE f[n - 1].signum
  <2>1. CASE n = 1
    <3>1. g = << >>
      BY <1>2, <1>3, <2>1
    <3> QED BY <2>1, <3>1 DEF Base
  <2>2. CASE n # 1
    <3>1. n - 1 \in 1 .. n - 1 /\ g # << >>
      <4>1. \A x \in Nat \ {0, 1} : x - 1 \in 1 .. x - 1 /\ x - 1 # 0
        OBVIOUS
      <4>2. n - 1 \in 1 .. n - 1 /\ n - 1 # 0
        BY <1>1, <2>2, <4>1
      <4>3. Len(<< >>) = 0
        OBVIOUS
      <4> QED BY <1>3, <4>2, <4>3
    <3> QED BY <1>3, <2>2, <3>1 DEF Base
  <2> QED BY <2>1, <2>2
<1>8. Base(g) \in Signals /\ Base(g) <= Base(f)
  <2>1. CASE n = 1
    <3>1. Base(f) \in Nat /\ Base(g) = 0
      BY <1>1, <1>4, <1>6, <1>7, <2>1, SignalNumbers
    <3> QED BY <3>1, SignalNumbers
  <2>2. CASE n # 1
    <3>1. n - 1 \in 1 .. n
      <4>1. \A x \in Nat \ {0, 1} : x - 1 \in 1 .. x
        OBVIOUS
      <4> QED BY <1>1, <2>2, <4>1
    <3> QED BY <1>1, <1>4, <1>6, <1>7, <2>2, <3>1 DEF Nested
  <2> QED BY <2>1, <2>2
<1>9. f[n].prevSigShift = Base(f) - Base(g)
  BY <1>1, <1>6, <1>7 DEF Nested
<1> QED BY <1>1, <1>4, <1>5, <1>6, <1>8, <1>9 DEF g
-----------------------------------------------------------------------------
\* A slot whose signals are untouched.
LEMMA SlotFrame ==
  ASSUME NEW m, NEW n, NEW p, SlotSignals(m, p),
         n.frames[p] = m.frames[p], n.pid[p] = m.pid[p],
         n.sigTable[p] = m.sigTable[p], n.sig_mask[p] = m.sig_mask[p]
  PROVE  SlotSignals(n, p)
BY DEF SlotSignals

\* A step that leaves signals alone.
LEMMA KeepsHandlers ==
  ASSUME NEW m, NEW n, HandlerInv(m), Keeps(m, n)
  PROVE  HandlerInv(n)
BY SlotFrame DEF HandlerInv, Keeps

\* The slot of a process that is in no handler.
LEMMA NoFrames == Nested(<< >>) /\ Base(<< >>) = 0 /\ From(0) = Signals
<1>1. Len(<< >>) = 0 /\ 1 .. 0 = {}
  OBVIOUS
<1>2. Nested(<< >>)
  <2> DEFINE e == << >>
  <2>1. Len(e) = 0
    BY <1>1
  <2> HIDE DEF e
  <2>2. Nested(e)
    BY <1>1, <2>1 DEF Nested
  <2> QED BY <2>2 DEF e
<1>3. From(0) = Signals
  <2>1. \A x \in Signals : x >= 0
    BY DEF Signals
  <2> QED BY <2>1 DEF From
<1> QED BY <1>2, <1>3 DEF Base

\* create() clears the frames and opens the mask of its slot.
LEMMA CreatesHandlers ==
  ASSUME NEW m \in Memory, NEW n, NEW p, HandlerInv(m), Creates(m, p, n)
  PROVE  HandlerInv(n)
<1>0. p \in Slots
  BY DEF Creates
<1>1. ASSUME NEW q \in Slots, q # p PROVE SlotSignals(n, q)
  <2>1. /\ n.frames[q] = m.frames[q] /\ n.pid[q] = m.pid[q]
        /\ n.sigTable[q] = m.sigTable[q] /\ n.sig_mask[q] = m.sig_mask[q]
    BY <1>1 DEF Creates, Memory
  <2> QED BY <1>1, <2>1, SlotFrame DEF HandlerInv
<1>2. SlotSignals(n, p)
  <2>1. /\ n.frames[p] = << >> /\ n.sig_mask[p] = Signals
        /\ n.sigTable[p] = m.sigTable[p] \cup {KillSignal}
    BY <1>0 DEF Creates, Memory
  <2> QED BY <2>1, NoFrames DEF SlotSignals
<1> QED BY <1>1, <1>2 DEF HandlerInv

\* The mask of a slot that has a handler.
LEMMA MaskOfSlot ==
  ASSUME NEW m \in Memory, NEW p \in Slots, SlotSignals(m, p),
         NEW s, s \in m.sigTable[p]
  PROVE  /\ s \in Signals /\ KillSignal \in m.sigTable[p]
         /\ m.sig_mask[p] = From(Base(m.frames[p]))
         /\ m.frames[p] \in Seq(Frame)
         /\ Base(m.frames[p]) \in Signals
<1>1. m.sigTable[p] \in SUBSET Signals /\ m.frames[p] \in Seq(Frame)
  BY DEF Memory, Frame
<1>2. KillSignal \in m.sigTable[p] /\ m.sig_mask[p] = From(Base(m.frames[p]))
  BY DEF SlotSignals
<1>3. Base(m.frames[p]) \in Signals
  <2>1. CASE m.frames[p] = << >>
    BY <2>1, NoFrames, SignalNumbers
  <2>2. CASE m.frames[p] # << >>
    BY <1>1, <2>2, PopNests DEF SlotSignals
  <2> QED BY <2>1, <2>2
<1> QED BY <1>1, <1>2, <1>3

\* signal() moves the mask up to the signal that it delivers.
LEMMA InterruptMask ==
  ASSUME NEW m \in Memory, NEW n, NEW p \in Slots, NEW s, SlotSignals(m, p),
         s \in m.sigTable[p], Interrupts(m, p, s, n)
  PROVE  /\ SlotSignals(n, p)
         /\ Base(m.frames[p]) <= s
         /\ n.sig_mask[p] = From(s) /\ m.sig_mask[p] = From(Base(m.frames[p]))
<1> DEFINE f == m.frames[p]
           b == Base(f)
           e == [signum |-> s, prevSigShift |-> Shift(m, p, s)]
<1>1. /\ s \in Signals /\ KillSignal \in m.sigTable[p]
      /\ m.sig_mask[p] = From(b) /\ f \in Seq(Frame) /\ b \in Signals
  BY MaskOfSlot
<1>2. b <= s
  BY <1>1 DEF Interrupts, From
<1>3. Shift(m, p, s) = s - b
  <2>1. b <= b
    BY <1>1, SignalNumbers
  <2>2. Least(From(b)) = b
    BY <1>1, <2>1, MaskShifts
  <2> QED BY <1>1, <2>2 DEF Shift
<1>4. e \in Frame /\ e.signum = s /\ e.prevSigShift = s - b
  BY <1>1, <1>3 DEF Frame, Interrupts
<1>5. /\ n.frames[p] = Append(f, e)
      /\ n.sig_mask[p] = ShiftLeft(From(b), s - b)
      /\ n.sigTable[p] = m.sigTable[p]
  BY SMTT(40), <1>1, <1>3 DEF Interrupts, Memory
<1> HIDE DEF e, f
<1>6. Nested(n.frames[p]) /\ Base(n.frames[p]) = s
  BY <1>1, <1>2, <1>4, <1>5, PushNests DEF SlotSignals, f
<1>7. n.sig_mask[p] = From(s)
  BY <1>1, <1>2, <1>5, MaskShifts
<1> QED BY <1>1, <1>2, <1>5, <1>6, <1>7 DEF SlotSignals, f

\* signal(), to any slot.
LEMMA SignalledHandlers ==
  ASSUME NEW m \in Memory, NEW n, NEW id, NEW s, HandlerInv(m), Signalled(m, id, s, n)
  PROVE  HandlerInv(n)
<1>1. PICK p \in Slots : /\ s \in m.sigTable[p]
                         /\ Remembers(m, p, s, n) \/ Interrupts(m, p, s, n)
  BY DEF Signalled
<1>2. CASE Remembers(m, p, s, n)
  BY <1>2, SlotFrame DEF Remembers, HandlerInv
<1>3. CASE Interrupts(m, p, s, n)
  <2>1. ASSUME NEW q \in Slots, q # p PROVE SlotSignals(n, q)
    <3>1. /\ n.frames[q] = m.frames[q] /\ n.pid[q] = m.pid[q]
          /\ n.sigTable[q] = m.sigTable[q] /\ n.sig_mask[q] = m.sig_mask[q]
      BY <1>3, <2>1 DEF Interrupts, Memory
    <3> QED BY <2>1, <3>1, SlotFrame DEF HandlerInv
  <2>2. SlotSignals(n, p)
    BY <1>1, <1>3, InterruptMask DEF HandlerInv
  <2> QED BY <2>1, <2>2 DEF HandlerInv
<1> QED BY <1>1, <1>2, <1>3

\* syssignal, from a process that has an owner.
LEMMA HandlesHandlers ==
  ASSUME NEW m \in Memory, NEW n, NEW p \in Slots, NEW T, HandlerInv(m), Handles(m, p, T, n),
         m.pid[p] # 0, KillSignal \in m.sigTable[p] => KillSignal \in T
  PROVE  HandlerInv(n)
<1>1. ASSUME NEW q \in Slots, q # p PROVE SlotSignals(n, q)
  <2>1. /\ n.frames[q] = m.frames[q] /\ n.pid[q] = m.pid[q]
        /\ n.sigTable[q] = m.sigTable[q] /\ n.sig_mask[q] = m.sig_mask[q]
    BY <1>1 DEF Handles, Memory
  <2> QED BY <1>1, <2>1, SlotFrame DEF HandlerInv
<1>2. SlotSignals(n, p)
  <2>1. n.sigTable[p] = T
    BY DEF Handles, Memory
  <2> QED BY <2>1 DEF Handles, HandlerInv, SlotSignals
<1> QED BY <1>1, <1>2 DEF HandlerInv

\* SYS_SIGRETURN moves the mask back to where the frame on top found it.
LEMMA ReturnsHandlers ==
  ASSUME NEW m \in Memory, NEW n, NEW p \in Slots, HandlerInv(m), m.frames[p] # << >>,
         Returns(m, p, n)
  PROVE  HandlerInv(n)
<1> DEFINE f == m.frames[p]
           g == SubSeq(f, 1, Len(f) - 1)
<1>1. ASSUME NEW q \in Slots, q # p PROVE SlotSignals(n, q)
  <2>1. /\ n.frames[q] = m.frames[q] /\ n.pid[q] = m.pid[q]
        /\ n.sigTable[q] = m.sigTable[q] /\ n.sig_mask[q] = m.sig_mask[q]
    BY <1>1 DEF Returns, Memory
  <2> QED BY <1>1, <2>1, SlotFrame DEF HandlerInv
<1>2. f \in Seq(Frame) /\ Nested(f)
  BY DEF Memory, Frame, HandlerInv, SlotSignals
<1>3. /\ Nested(g) /\ Base(g) \in Signals /\ Base(f) \in Signals /\ Base(g) <= Base(f)
      /\ f[Len(f)].prevSigShift = Base(f) - Base(g)
  BY <1>2, PopNests
<1>4. /\ n.frames[p] = g /\ n.sigTable[p] = m.sigTable[p] /\ n.pid[p] = m.pid[p]
      /\ n.sig_mask[p] = ShiftRight(m.sig_mask[p], f[Len(f)].prevSigShift)
  BY DEF Returns, Memory
<1> HIDE DEF f, g
<1>5. SlotSignals(m, p)
  BY DEF HandlerInv
<1>6. KillSignal \in m.sigTable[p] => n.sig_mask[p] = From(Base(g))
  BY <1>3, <1>4, <1>5, MaskShifts DEF SlotSignals, f
<1>7. SlotSignals(n, p)
  BY <1>3, <1>4, <1>5, <1>6 DEF SlotSignals
<1> QED BY <1>1, <1>7 DEF HandlerInv
-----------------------------------------------------------------------------
(***************************************************************************)
(* The masks of all slots, in every workload.                              *)
(***************************************************************************)
HandlerIInv == Active(k) /\ HandlerInv(k)

\* At boot nobody has a handler.
LEMMA BootHandlers == HandlerInv(BootMemory)
<1>1. ASSUME NEW p \in Slots
      PROVE  /\ BootMemory.frames[p] = << >> /\ BootMemory.pid[p] = 0
             /\ BootMemory.sigTable[p] = {}
  BY DEF BootMemory
<1> QED BY <1>1, NoFrames DEF HandlerInv, SlotSignals

\* create(), at boot and later.
LEMMA CreateHandlers ==
  ASSUME NEW m \in Memory, HandlerInv(m)
  PROVE  create(m) \in Memory /\ HandlerInv(create(m))
<1>1. CASE create(m) = m
  BY <1>1
<1>2. CASE create(m) # m
  <2>1. PICK p \in Slots : Creates(m, p, create(m))
    BY <1>2, CreateEffect
  <2> DEFINE n == create(m)
  <2> HIDE DEF n
  <2>2. Creates(m, p, n)
    BY <2>1 DEF n
  <2>3. n \in Memory /\ HandlerInv(n)
    BY <2>2, CreatesHandlers DEF Creates
  <2> QED BY <2>3 DEF n
<1> QED BY <1>1, <1>2

\* The invariant holds when the first process is about to run.
LEMMA InitHandlers == Init => HandlerIInv
<1> DEFINE a == create(BootMemory)
           b == create(a)
<1>1. a \in Memory /\ HandlerInv(a)
  BY BootTyped, BootHandlers, CreateHandlers
<1> HIDE DEF a
<1>2. b \in Memory /\ HandlerInv(b)
  BY <1>1, CreateHandlers
<1> HIDE DEF b
<1>3. Keeps(b, next(b))
  BY <1>2, NextDispatches DEF Dispatches
<1>4. HandlerInv(next(b))
  BY <1>2, <1>3, KeepsHandlers
<1>5. Init => k = next(b)
  BY DEF Init, a, b
<1> QED BY <1>4, <1>5, InitActive DEF HandlerIInv

\* The calls that make, kill and signal nobody.
LEMMA TurnHandlers ==
  ASSUME HandlerIInv, NEW S, Turn(k, S, k') PROVE HandlerInv(k')
BY KeepsHandlers DEF HandlerIInv, Turn

\* SYS_SIGRETURN, with the signal that it may send again.
LEMMA SigReturnHandlers ==
  ASSUME Runs, HandlerInv(k), SigReturn PROVE HandlerInv(k')
<1>1. /\ k' = sigreturn(k, k.pcb) /\ k.frames[k.pcb] # << >>
      /\ k \in Memory /\ k.pcb \in Slots
  BY DEF SigReturn, Runs, Active
<1> DEFINE S == k.sig_ignored[k.pcb]
<1>2. PICK b : /\ Returns(k, k.pcb, b)
               /\ \/ S = {} /\ k' = b
                  \/ Greatest(S) \in S /\ k' = signal(b, k.pid[k.pcb], Greatest(S))
  BY <1>1, SigReturnEffect
<1>3. b \in Memory /\ HandlerInv(b)
  BY <1>1, <1>2, ReturnsHandlers DEF Returns
<1>4. CASE S = {} /\ k' = b
  BY <1>3, <1>4
<1>5. CASE Greatest(S) \in S /\ k' = signal(b, k.pid[k.pcb], Greatest(S))
  <2>1. Greatest(S) \in Signals
    BY <1>1, <1>5 DEF Memory
  <2> HIDE DEF S
  <2>2. k' = b \/ Signalled(b, k.pid[k.pcb], Greatest(S), k')
    BY <1>3, <1>5, <2>1, SignalEffect
  <2> QED BY <1>3, <2>2, SignalledHandlers
<1> QED BY <1>2, <1>4, <1>5

\* SYS_SIGNAL; KillSignal keeps its handler.
LEMMA SetSignalHandlers ==
  ASSUME Runs, HandlerInv(k), NEW s \in Signals, NEW handler \in BOOLEAN,
         SetSignal(s, handler)
  PROVE  HandlerInv(k')
<1>1. /\ k' = set_signal(k, k.pcb, s, handler) /\ k \in Memory /\ k.pcb \in Slots
      /\ k.pid[k.pcb] # 0
  BY DEF SetSignal, UserCall, Runs, Active
<1>2. \/ k' = k
      \/ \E T : /\ KillSignal \in k.sigTable[k.pcb] => KillSignal \in T
                /\ Handles(k, k.pcb, T, k')
  BY <1>1, SetSignalEffect
<1> QED BY <1>1, <1>2, HandlesHandlers

\* Every action of Next keeps the masks.
LEMMA StepHandlers == ASSUME SleepsFit, HandlerIInv, Next PROVE HandlerInv(k')
<1>0. Active(k) /\ HandlerInv(k) /\ k \in Memory /\ Runs
  BY TakesTurn DEF HandlerIInv, Active
<1>1. CASE Create
  BY <1>0, <1>1, CreateHandlers DEF Create
<1>2. CASE Yield
  BY <1>0, <1>2, YieldTurn, TurnHandlers
<1>3. CASE Stop
  BY <1>0, <1>3, StopStepTurn, TurnHandlers
<1>4. CASE SetPrio
  BY <1>0, <1>4, SetPrioTurn, TurnHandlers
<1>5. CASE \E s \in Semaphores : P(s)
  BY <1>0, <1>5, PTurn, TurnHandlers
<1>6. CASE \E s \in Semaphores : V(s)
  BY <1>0, <1>6, VTurn, TurnHandlers
<1>7. CASE \E s \in Signals, handler \in BOOLEAN : SetSignal(s, handler)
  BY <1>0, <1>7, SetSignalHandlers
<1>8. CASE SigReturn
  BY <1>0, <1>8, SigReturnHandlers
<1>9. CASE \E id \in 0 .. MaxPid : Wait(id)
  BY <1>0, <1>9, WaitTurn, TurnHandlers
<1>10. CASE \E id \in 0 .. MaxPid, s \in Signals : Kill(id, s)
  BY <1>0, <1>10, KillActive, SignalledHandlers
<1>11. CASE \E ms \in Millis : SysSleep(ms)
  BY <1>0, <1>11, SleepTurn, TurnHandlers DEF SleepsFit
<1>12. CASE TimerInt
  BY <1>0, <1>12, TimerTurn, TurnHandlers
<1> QED
  BY <1>1, <1>2, <1>3, <1>4, <1>5, <1>6, <1>7, <1>8, <1>9, <1>10, <1>11, <1>12
     DEF Next, OtherCall, OwnCall

\* What the invariant says in the words of module Signalling.
LEMMA HandlersShown ==
  ASSUME HandlerIInv PROVE MaskMatchesHandler /\ HandlersNestUpwards
<1>1. ASSUME NEW p \in Slots, KillSignal \in k.sigTable[p]
      PROVE  k.sig_mask[p] = IF k.frames[p] = << >> THEN Signals
                             ELSE {s \in Signals : s >= k.frames[p][Len(k.frames[p])].signum}
  <2>1. k.sig_mask[p] = From(Base(k.frames[p]))
    BY <1>1 DEF HandlerIInv, HandlerInv, SlotSignals
  <2>2. CASE k.frames[p] = << >>
    BY <2>1, <2>2, NoFrames
  <2>3. CASE k.frames[p] # << >>
    BY <2>1, <2>3 DEF Base, From
  <2> QED BY <2>2, <2>3
<1>2. ASSUME NEW p \in Slots, NEW i \in 1 .. Len(k.frames[p]), NEW j \in 1 .. Len(k.frames[p]),
             i < j
      PROVE  k.frames[p][i].signum <= k.frames[p][j].signum
  <2>1. Nested(k.frames[p])
    BY DEF HandlerIInv, HandlerInv, SlotSignals
  <2>2. i \in 1 .. j
    BY <1>2
  <2> QED BY <2>1, <2>2 DEF Nested
<1> QED BY <1>1, <1>2 DEF MaskMatchesHandler, HandlersNestUpwards

\* HandlerIInv is an invariant of every workload.
LEMMA HandlersInvariant == ASSUME SleepsFit PROVE Spec => []HandlerIInv
<1>1. Init => HandlerIInv
  BY InitHandlers
<1>2. HandlerIInv /\ [Next]_k => HandlerIInv'
  <2>1. ASSUME HandlerIInv, Next PROVE HandlerIInv'
    BY <2>1, StepHandlers, StepActive DEF HandlerIInv
  <2>2. ASSUME HandlerIInv, UNCHANGED k PROVE HandlerIInv'
    BY <2>2 DEF HandlerIInv
  <2> QED BY <2>1, <2>2
<1> QED BY <1>1, <1>2, PTL DEF Spec

(***************************************************************************)
(* SignalMasks: in every workload, signals to the idle process and reused  *)
(* slots included, the mask of a process is what the handler it is in      *)
(* stands for (signal and sigreturn in c/signal.c).  Nothing is assumed    *)
(* about the queues, so one that is linked wrongly cannot spoil a mask.    *)
(***************************************************************************)
THEOREM SignalMasks ==
  ASSUME SleepsFit
  PROVE  Spec => []MaskMatchesHandler
BY HandlersInvariant, HandlersShown, PTL

(***************************************************************************)
(* SignalsNest: in every workload, a handler is never interrupted by one   *)
(* of a lower signal, and at most by one of its own, so frames pile up in  *)
(* the order of their signals.                                             *)
(***************************************************************************)
THEOREM SignalsNest ==
  ASSUME SleepsFit
  PROVE  Spec => []HandlersNestUpwards
BY HandlersInvariant, HandlersShown, PTL
-----------------------------------------------------------------------------
(***************************************************************************)
(* Remembered signals, while handlers stay, slots are fresh and the idle   *)
(* process is spared.                                                      *)
(***************************************************************************)
PendingIInv == HandlerIInv /\ DistinctPids(k) /\ PendingInv(k)

\* A slot whose signals are untouched.
LEMMA PendingFrame ==
  ASSUME NEW m, NEW n, NEW p, Pending(m, p),
         n.sig_ignored[p] = m.sig_ignored[p], n.sigTable[p] = m.sigTable[p],
         n.sig_mask[p] = m.sig_mask[p], n.pid[p] = m.pid[p]
  PROVE  Pending(n, p)
BY DEF Pending

\* The calls that make, kill and signal nobody.
LEMMA TurnPending ==
  ASSUME PendingIInv, NEW S, Turn(k, S, k') PROVE PendingInv(k')
BY PendingFrame DEF PendingIInv, PendingInv, Turn, Keeps

\* The invariant holds when the first process is about to run.
LEMMA InitPending == Init => PendingIInv
<1> DEFINE a == create(BootMemory)
           b == create(a)
<1>1. ASSUME NEW m \in Memory PROVE create(m) \in Memory /\ create(m).sig_ignored = m.sig_ignored
  BY CreateEffect DEF Creates
<1>2. a \in Memory /\ a.sig_ignored = BootMemory.sig_ignored
  BY <1>1, BootTyped
<1> HIDE DEF a
<1>3. b \in Memory /\ b.sig_ignored = BootMemory.sig_ignored
  BY <1>1, <1>2
<1> HIDE DEF b
<1>4. Keeps(b, next(b))
  BY <1>3, NextDispatches DEF Dispatches
<1>5. Init => k.sig_ignored = BootMemory.sig_ignored
  BY <1>3, <1>4 DEF Init, a, b, Keeps
<1>6. \A p \in Slots : BootMemory.sig_ignored[p] = {}
  BY DEF BootMemory
<1>7. Init => PendingInv(k)
  BY <1>5, <1>6 DEF PendingInv, Pending
<1> QED BY <1>7, InitHandlers, InitPids DEF PendingIInv

\* A new owner's slot was fresh, so no signal was remembered for it.
LEMMA CreateFreshPending ==
  ASSUME Runs, PendingIInv, CreateFresh PROVE PendingInv(k')
<1>1. k' = k \/ \E p \in Slots : Creates(k, p, k')
  BY CreateActive DEF CreateFresh
<1>2. ASSUME NEW p \in Slots, Creates(k, p, k') PROVE PendingInv(k')
  <2>0. k \in Memory
    BY DEF Runs, Active
  <2>1. getPCB(k', k.pcb_id) = p
    BY <1>2, <2>0, CreatesPids DEF PendingIInv
  <2>2. k.pid[p] = 0
    BY <2>1 DEF CreateFresh
  <2>3. k'.sig_ignored[p] = {}
    BY <1>2, <2>2 DEF Creates, PendingIInv, PendingInv, Pending
  <2>4. Pending(k', p)
    BY <2>3 DEF Pending
  <2>5. ASSUME NEW q \in Slots, q # p PROVE Pending(k', q)
    <3>1. /\ k'.sig_ignored[q] = k.sig_ignored[q] /\ k'.sigTable[q] = k.sigTable[q]
          /\ k'.sig_mask[q] = k.sig_mask[q] /\ k'.pid[q] = k.pid[q]
      BY <1>2, <2>0, <2>5 DEF Creates, Memory
    <3> QED BY <3>1, PendingFrame DEF PendingIInv, PendingInv
  <2> QED BY <2>4, <2>5 DEF PendingInv
<1> QED BY <1>1, <1>2 DEF PendingIInv

\* A signal to p leaves what is remembered for another process alone.
LEMMA OtherPending ==
  ASSUME NEW m \in Memory, NEW n, NEW p \in Slots, NEW q \in Slots, q # p, NEW s,
         Remembers(m, p, s, n) \/ Interrupts(m, p, s, n), Pending(m, q)
  PROVE  Pending(n, q)
<1>1. CASE Remembers(m, p, s, n)
  <2>1. /\ n.sig_ignored[q] = m.sig_ignored[q] /\ n.sigTable[q] = m.sigTable[q]
        /\ n.sig_mask[q] = m.sig_mask[q] /\ n.pid[q] = m.pid[q]
    BY <1>1 DEF Remembers, Memory
  <2> QED BY <2>1, PendingFrame
<1>2. CASE Interrupts(m, p, s, n)
  <2>1. /\ n.sig_ignored[q] = m.sig_ignored[q] /\ n.sigTable[q] = m.sigTable[q]
        /\ n.sig_mask[q] = m.sig_mask[q] /\ n.pid[q] = m.pid[q]
    BY <1>2 DEF Interrupts, Memory
  <2> QED BY <2>1, PendingFrame
<1> QED BY <1>1, <1>2

(***************************************************************************)
(* A signal that is remembered for p stays masked, and one that is         *)
(* delivered raises the mask above those remembered before.                *)
(***************************************************************************)
LEMMA SignalPending ==
  ASSUME NEW m \in Memory, NEW n, NEW p \in Slots, m.pid[p] # 0, NEW s,
         SlotSignals(m, p), s \in m.sigTable[p],
         Remembers(m, p, s, n) \/ Interrupts(m, p, s, n), Pending(m, p)
  PROVE  Pending(n, p)
<1>1. CASE Remembers(m, p, s, n)
  <2>1. /\ n.sig_ignored[p] = m.sig_ignored[p] \cup {s} /\ n.sigTable[p] = m.sigTable[p]
        /\ n.sig_mask[p] = m.sig_mask[p] /\ n.pid[p] = m.pid[p]
    BY <1>1 DEF Remembers, Memory
  <2>2. s \notin m.sig_mask[p]
    BY <1>1 DEF Remembers
  <2> QED BY <2>1, <2>2 DEF Pending
<1>2. CASE Interrupts(m, p, s, n)
  <2>1. /\ n.sig_ignored[p] = m.sig_ignored[p] \ {s} /\ n.sigTable[p] = m.sigTable[p]
        /\ n.pid[p] = m.pid[p]
    BY <1>2 DEF Interrupts, Memory
  <2>2. /\ Base(m.frames[p]) <= s
        /\ n.sig_mask[p] = From(s) /\ m.sig_mask[p] = From(Base(m.frames[p]))
    BY <1>2, InterruptMask
  <2>3. s \in Signals /\ Base(m.frames[p]) \in Signals
    BY MaskOfSlot
  <2>4. From(s) \subseteq From(Base(m.frames[p]))
    BY <2>2, <2>3 DEF From, Signals
  <2> QED BY <2>1, <2>2, <2>4 DEF Pending
<1> QED BY <1>1, <1>2

\* SYS_KILL of a user process.
LEMMA KillPending ==
  ASSUME Runs, PendingIInv, KillUser PROVE PendingInv(k')
<1>1. PICK id \in 1 .. MaxPid, s \in Signals : Kill(id, s)
  BY DEF KillUser
<1>2. k' = k \/ Signalled(k, id, s, k')
  BY <1>1, KillActive
<1>3. ASSUME Signalled(k, id, s, k') PROVE PendingInv(k')
  <2>1. PICK p \in Slots : /\ k.pid[p] = id /\ s \in k.sigTable[p]
                           /\ Remembers(k, p, s, k') \/ Interrupts(k, p, s, k')
    BY <1>3 DEF Signalled
  <2>2. k.pid[p] # 0 /\ k \in Memory
    BY <2>1 DEF Runs, Active
  <2>3. Pending(k', p)
    BY <2>1, <2>2, SignalPending DEF PendingIInv, PendingInv, HandlerIInv, HandlerInv
  <2>4. ASSUME NEW q \in Slots, q # p PROVE Pending(k', q)
    BY <2>1, <2>2, <2>4, OtherPending DEF PendingIInv, PendingInv
  <2> QED BY <2>3, <2>4 DEF PendingInv
<1> QED BY <1>2, <1>3 DEF PendingIInv

\* A handler is installed: the remembered signals still have theirs.
LEMMA SetSignalPending ==
  ASSUME "UNSIGNAL" \notin Calls, Runs, PendingIInv,
         NEW s \in Signals, NEW handler \in BOOLEAN, SetSignal(s, handler)
  PROVE  PendingInv(k')
<1> DEFINE p == k.pcb
           T == k.sigTable[p] \cup {s}
<1>1. k \in Memory /\ p \in Slots /\ k' = set_signal(k, p, s, handler)
  BY DEF Runs, Active, SetSignal
<1>2. handler
  BY DEF SetSignal, UserCall
<1>3. k' = k \/ Handles(k, p, T, k')
  BY <1>1, <1>2, SetSignalEffect
<1>4. ASSUME Handles(k, p, T, k'), NEW q \in Slots PROVE Pending(k', q)
  <2>1. /\ k'.sig_ignored[q] = k.sig_ignored[q] /\ k.sigTable[q] \subseteq k'.sigTable[q]
        /\ k'.sig_mask[q] = k.sig_mask[q] /\ k'.pid[q] = k.pid[q]
    BY <1>1, <1>4 DEF Handles, Memory
  <2> QED BY <2>1 DEF PendingIInv, PendingInv, Pending
<1> QED BY <1>3, <1>4 DEF PendingIInv, PendingInv

(***************************************************************************)
(* SYS_SIGRETURN lowers the mask, perhaps below remembered signals, and    *)
(* then sends the highest of them: if that one is still masked all are,    *)
(* and if it is delivered the mask is above the rest.                      *)
(***************************************************************************)
LEMMA SigReturnPending ==
  ASSUME Runs, PendingIInv, SigReturn PROVE PendingInv(k')
<1> DEFINE p == k.pcb
           S == k.sig_ignored[p]
           g == Greatest(S)
<1>1. /\ k' = sigreturn(k, p) /\ k.frames[p] # << >> /\ k \in Memory /\ p \in Slots
      /\ k.pid[p] # 0 /\ k.state[p] # "STOPPED"
  BY DEF SigReturn, UserCall, Runs, Active
<1>2. PICK b : /\ Returns(k, p, b)
               /\ \/ S = {} /\ k' = b
                  \/ /\ g \in S /\ \A s \in S : s <= g
                     /\ k' = signal(b, k.pid[p], g)
  BY <1>1, SigReturnEffect
<1>3. /\ b \in Memory /\ b.pid[p] = k.pid[p] /\ b.state[p] = k.state[p]
      /\ b.sigTable[p] = k.sigTable[p] /\ b.sig_ignored[p] = S
  BY <1>2 DEF Returns
<1>4. HandlerInv(b) /\ DistinctPids(b)
  BY <1>1, <1>2, ReturnsHandlers, SamePids DEF Returns, PendingIInv, HandlerIInv
<1>5. Pending(k, p)
  BY <1>1 DEF PendingIInv, PendingInv
<1>6. ASSUME NEW q \in Slots, q # p PROVE Pending(b, q)
  <2>1. /\ b.sig_ignored[q] = k.sig_ignored[q] /\ b.sigTable[q] = k.sigTable[q]
        /\ b.sig_mask[q] = k.sig_mask[q] /\ b.pid[q] = k.pid[q]
    BY <1>1, <1>2, <1>6 DEF Returns, Memory
  <2> QED BY <2>1, PendingFrame DEF PendingIInv, PendingInv
<1>7. CASE S = {} /\ k' = b
  <2>1. Pending(b, p)
    BY <1>3, <1>7 DEF Pending
  <2> QED BY <1>6, <1>7, <2>1 DEF PendingInv
<1>8. CASE g \in S /\ (\A s \in S : s <= g) /\ k' = signal(b, k.pid[p], g)
  <2> HIDE DEF g, p
  <2>1. g \in b.sigTable[p]
    BY <1>3, <1>5, <1>8 DEF Pending
  <2>2. g \in Signals /\ b.sig_mask[p] = From(Base(b.frames[p])) /\ Base(b.frames[p]) \in Signals
    BY <1>1, <1>3, <1>4, <2>1, MaskOfSlot DEF HandlerInv
  <2>3. getPCB(b, b.pid[p]) = p
    BY <1>1, <1>3, <1>4, DistinctPidFinds
  <2>4. Remembers(b, p, g, k') \/ Interrupts(b, p, g, k')
    BY <1>1, <1>3, <1>8, <2>1, <2>2, <2>3, SignalReaches
  <2>5. \A s \in S : s \in Signals /\ s <= g
    <3>1. S \in SUBSET Signals
      BY <1>1 DEF Memory
    <3> QED BY <1>8, <3>1
  <2>6. Pending(k', p)
    <3>1. CASE Remembers(b, p, g, k')
      <4>1. /\ k'.sig_ignored[p] = S /\ k'.sigTable[p] = k.sigTable[p]
            /\ k'.sig_mask[p] = From(Base(b.frames[p])) /\ k'.pid[p] # 0
        <5>1. k'.sig_ignored[p] = S \cup {g}
          <6>1. b.sig_ignored \in [Slots -> SUBSET Signals]
            BY <1>3 DEF Memory
          <6> QED BY <1>1, <1>3, <3>1, <6>1 DEF Remembers
        <5>2. S \cup {g} = S
          BY <1>8
        <5> QED BY <1>1, <1>3, <2>2, <3>1, <5>1, <5>2 DEF Remembers
      <4>2. g \notin From(Base(b.frames[p]))
        BY <2>2, <3>1 DEF Remembers
      <4>3. S \cap From(Base(b.frames[p])) = {}
        <5> DEFINE c == Base(b.frames[p])
        <5>1. c \in Nat /\ g \in Nat /\ ~ (g >= c)
          BY <2>2, <4>2, SignalNumbers DEF From
        <5>2. ASSUME NEW s \in S PROVE s \notin From(c)
          <6>1. s \in Nat /\ s <= g
            BY <2>5, SignalNumbers
          <6> QED BY <5>1, <6>1 DEF From
        <5> HIDE DEF c
        <5> QED BY <5>2 DEF c
      <4> QED BY <1>5, <4>1, <4>3 DEF Pending
    <3>2. CASE Interrupts(b, p, g, k')
      <4>1. /\ k'.sig_ignored[p] = S \ {g} /\ k'.sigTable[p] = k.sigTable[p]
            /\ k'.pid[p] # 0
        <5>1. b.sig_ignored \in [Slots -> SUBSET Signals]
          BY <1>3 DEF Memory
        <5>2. /\ k'.sig_ignored = [b.sig_ignored EXCEPT ![p] = @ \ {g}]
              /\ k'.sigTable = b.sigTable /\ k'.pid = b.pid
          BY <3>2 DEF Interrupts
        <5> QED BY <1>1, <1>3, <5>1, <5>2
      <4>2. k'.sig_mask[p] = From(g)
        BY <1>1, <1>3, <1>4, <2>1, <3>2, InterruptMask DEF HandlerInv
      <4>3. (S \ {g}) \cap From(g) = {}
        BY <2>2, <2>5 DEF From, Signals
      <4> QED BY <1>5, <4>1, <4>2, <4>3 DEF Pending
    <3> QED BY <2>4, <3>1, <3>2
  <2>7. ASSUME NEW q \in Slots, q # p PROVE Pending(k', q)
    BY <1>1, <1>3, <1>6, <2>4, <2>7, OtherPending
  <2> QED BY <2>6, <2>7 DEF PendingInv
<1> QED BY <1>2, <1>7, <1>8

\* The steps of the cautious kernel are steps of the kernel.
LEMMA CautiousSteps == CautiousNext => Next
<1>1. CreateFresh => Create
  BY DEF CreateFresh
<1>2. KillUser => \E id \in 0 .. MaxPid, s \in Signals : Kill(id, s)
  <2>1. \A id \in 1 .. MaxPid : id \in 0 .. MaxPid
    BY KernelAssumption
  <2> QED BY <2>1 DEF KillUser
<1> QED BY <1>1, <1>2 DEF CautiousNext, Next, OtherCall

\* Every action of CautiousNext keeps remembered signals masked.
LEMMA StepPending ==
  ASSUME "UNSIGNAL" \notin Calls, SleepsFit, PendingIInv, CautiousNext
  PROVE  PendingInv(k')
<1>0. Runs
  BY CautiousSteps, TakesTurn DEF PendingIInv, HandlerIInv
<1>1. CASE CreateFresh
  BY <1>0, <1>1, CreateFreshPending
<1>2. CASE Yield
  BY <1>0, <1>2, YieldTurn, TurnPending
<1>3. CASE Stop
  BY <1>0, <1>3, StopStepTurn, TurnPending
<1>4. CASE SetPrio
  BY <1>0, <1>4, SetPrioTurn, TurnPending
<1>5. CASE \E s \in Semaphores : P(s)
  BY <1>0, <1>5, PTurn, TurnPending
<1>6. CASE \E s \in Semaphores : V(s)
  BY <1>0, <1>6, VTurn, TurnPending
<1>7. CASE \E s \in Signals, handler \in BOOLEAN : SetSignal(s, handler)
  BY <1>0, <1>7, SetSignalPending
<1>8. CASE SigReturn
  BY <1>0, <1>8, SigReturnPending
<1>9. CASE \E id \in 0 .. MaxPid : Wait(id)
  BY <1>0, <1>9, WaitTurn, TurnPending
<1>10. CASE KillUser
  BY <1>0, <1>10, KillPending
<1>11. CASE \E ms \in Millis : SysSleep(ms)
  BY <1>0, <1>11, SleepTurn, TurnPending DEF SleepsFit
<1>12. CASE TimerInt
  BY <1>0, <1>12, TimerTurn, TurnPending
<1> QED BY <1>1, <1>2, <1>3, <1>4, <1>5, <1>6, <1>7, <1>8, <1>9, <1>10, <1>11, <1>12
        DEF CautiousNext, OwnCall

(***************************************************************************)
(* SignalsPending: a signal that is remembered is one the process cannot   *)
(* accept now, for every number of slots and signals, however handlers     *)
(* nest and whatever the other calls do, as long as no handler is removed  *)
(* (the workload without UNSIGNAL).  The invariant says of each slot that  *)
(* remembered signals have handlers and that slots nobody has owned        *)
(* remember none, which is what fresh slots and sparing the idle process   *)
(* are for; that pids are distinct is what lets SYS_SIGRETURN reach the    *)
(* process that called it.                                                 *)
(***************************************************************************)
THEOREM SignalsPending ==
  ASSUME SleepsFit, "UNSIGNAL" \notin Calls
  PROVE  GSpec => []PendingIsMasked
<1>1. Init => PendingIInv
  BY InitPending
<1>2. PendingIInv /\ [CautiousNext]_k => PendingIInv'
  <2>1. ASSUME PendingIInv, CautiousNext PROVE PendingIInv'
    <3>1. Next
      BY <2>1, CautiousSteps
    <3> QED BY <2>1, <3>1, StepPending, StepPids, StepActive, StepHandlers
            DEF PendingIInv, HandlerIInv
  <2>2. ASSUME PendingIInv, UNCHANGED k PROVE PendingIInv'
    BY <2>2 DEF PendingIInv, HandlerIInv
  <2> QED BY <2>1, <2>2
<1>3. PendingIInv => PendingIsMasked
  BY DEF PendingIInv, PendingInv, Pending, PendingIsMasked
<1> QED BY <1>1, <1>2, <1>3, PTL DEF GSpec
=============================================================================
