---------------------------- MODULE DeviceProofs ----------------------------
(***************************************************************************)
(* Proofs about the device layer and the keyboard driver, for any number   *)
(* of slots, descriptors and characters and any calls of module Devices.   *)
(* Of the kernel below they use only what KernelEffects shows of it, so    *)
(* they hold whatever has become of the queues.  The invariant is about a  *)
(* pair of memories, km of the kernel and dm of the devices, for the       *)
(* operations of Devices change the one before the other.                  *)
(***************************************************************************)
EXTENDS Reading, KernelEffects, SequenceTheorems

\* p is blocked in a read from the keyboard.
Waits(km, p) == km.state[p] = "DEV_BLOCK"

\* The types of the keyboard's memory, and of all the device memory.
KbdMemory == [state : BOOLEAN, echo : BOOLEAN, eof : Chars,
              eof_flag : BOOLEAN, pcb : Pointers, buf : Seq(Chars)]

DeviceMemory ==
  [ fdt     : [Slots -> [Fds -> devtab \cup {NULL}]],
    rc      : [Slots -> Int \cup {Other}],
    saved   : [Slots -> Seq(Int \cup {Other})],
    request : [Slots -> [buf : Nat, bufflen : Nat] \cup {NULL}],
    text    : [Slots -> Seq(Seq(Chars) \cup {NULL})],
    kbd     : KbdMemory,
    irq     : BOOLEAN ]

\* The descriptors that refer to the keyboard.
Refs(dm) == {r \in Slots \X Fds : dm.fdt[r[1]][r[2]] = KEYBOARD}

\* What OneDescriptor says; a keyboard that is off has no end of file pending.
Described(dm) ==
  /\ Refs(dm) = {} <=> ~ dm.kbd.state
  /\ \A r, s \in Refs(dm) : r = s
  /\ \A r \in Refs(dm) : r[1] = dm.kbd.pcb
  /\ dm.irq <=> dm.kbd.state /\ ~ dm.kbd.eof_flag
  /\ ~ dm.kbd.state => ~ dm.kbd.eof_flag

\* The driver's buffer: an end of file can only be its last character.
Buffered(kbd) ==
  /\ Len(kbd.buf) <= BUF_LEN
  /\ \A i \in 1 .. Len(kbd.buf) : i < Len(kbd.buf) \/ ~ kbd.eof_flag => kbd.buf[i] \in Keys

\* The contexts of p, each with a result and a text.
Counted(km, dm, p) ==
  /\ Len(dm.saved[p]) = Len(km.frames[p])
  /\ Len(dm.text[p]) = Len(km.frames[p]) + 1
  /\ \A c \in 1 .. Len(dm.saved[p]) :
       dm.text[p][c] # NULL => dm.saved[p][c] = Len(dm.text[p][c])
  /\ LET t == dm.text[p][Len(km.frames[p]) + 1]
     IN  /\ t # NULL => dm.rc[p] = Len(t)
         /\ km.state[p] \in Suspended => t = NULL

\* The request of a blocked reader.
Requested(km, dm, p) ==
  Waits(km, p) =>
    LET r == dm.request[p]
        t == dm.text[p][r.buf]
    IN  /\ km.pid[p] # 0
        /\ dm.kbd.state
        /\ dm.kbd.pcb = p
        /\ r \in [buf : Nat, bufflen : Nat]
        /\ r.buf = Len(km.frames[p]) + 1
        /\ t \in Seq(Chars)
        /\ dm.rc[p] = Len(t)
        /\ Len(t) < r.bufflen
        /\ dm.kbd.eof \notin Keys =>
             /\ dm.kbd.buf = << >>
             /\ ~ dm.kbd.eof_flag
             /\ t # << >> => t[Len(t)] # "newline"

\* A stopped slot has no stack, so a new process is one that had none.
Owned(km) == \A p \in Slots : km.state[p] = "STOPPED" => ~ km.stack[p]

\* All that does not depend on who waits.
Framed(km, dm) ==
  /\ dm \in DeviceMemory
  /\ Described(dm)
  /\ Buffered(dm.kbd)
  /\ \A p \in Slots : Counted(km, dm, p)

Devised(km, dm) == Framed(km, dm) /\ \A p \in Slots : Requested(km, dm, p)

\* One sequence behind another.
Behind(a, s) == a \o s

\* After a step of the reader p, who had old when buf was in the driver: what
\* p has and what is left are still old and buf, and p is told how much it has.
Moved(old, buf, km, dm, p) ==
  \E t \in Seq(Chars) :
    /\ Behind(t, dm.kbd.buf) = Behind(old, buf)
    /\ dm.rc[p] = Len(t)
    /\ Waits(km, p) => dm.text[p][dm.request[p].buf] = t

\* A step after which the driver has the characters and the owner it had, no
\* other process waits, and a reader that waited can be told what it has.
Passes(km, dm, kn, e) ==
  /\ e.kbd.buf = dm.kbd.buf /\ e.kbd.pcb = dm.kbd.pcb /\ e.kbd.state = dm.kbd.state
  /\ \A q \in Slots :
       /\ Waits(kn, q) => Waits(km, q)
       /\ Waits(km, q) => e.rc[q] = dm.rc[q]
       /\ Waits(kn, q) => e.text[q] = dm.text[q] /\ e.request[q] = dm.request[q]

\* The inductive invariant.
DIInv == Active(k) /\ DistinctPids(k) /\ Owned(k) /\ Devised(k, d)
-----------------------------------------------------------------------------
\* The pairs that device operations work on.
Machines == [k : Memory, d : DeviceMemory]

\* A call of p in context c has the result x and the text t.
Answered(dm, p, c, x, t) ==
  [dm EXCEPT !.rc = [dm.rc EXCEPT ![p] = x],
             !.text = [dm.text EXCEPT ![p] = [dm.text[p] EXCEPT ![c] = t]]]

\* A call that returns a number, and one that has read a text.
LEMMA ReturnsEffect ==
  ASSUME NEW m \in Machines, NEW p \in Slots, NEW x
  PROVE  returns(m, p, x) = [m EXCEPT !.d = Answered(m.d, p, context(m, p), x, NULL)]
<1> DEFINE c == context(m, p)
<1> HIDE DEF c
<1>1. returns(m, p, x) =
        [[m EXCEPT !.d = [m.d EXCEPT !.rc = [m.d.rc EXCEPT ![p] = x]]]
           EXCEPT !.d.text[p][c] = NULL]
  BY DEF returns, c
<1>2. m.d \in DeviceMemory
  BY DEF Machines
<1> DEFINE e == [m.d EXCEPT !.rc = [m.d.rc EXCEPT ![p] = x]]
<1>3. e.text = m.d.text
  BY <1>2 DEF DeviceMemory
<1> HIDE DEF e
<1>4. returns(m, p, x) =
        [m EXCEPT !.d =
           [e EXCEPT !.text = [e.text EXCEPT ![p] = [e.text[p] EXCEPT ![c] = NULL]]]]
  BY <1>1 DEF Machines, e
<1> QED BY <1>3, <1>4 DEF Answered, e, c

LEMMA ReadsEffect ==
  ASSUME NEW m \in Machines, NEW p \in Slots, NEW t
  PROVE  reads(m, p, t) = [m EXCEPT !.d = Answered(m.d, p, context(m, p), Len(t), t)]
<1> DEFINE c == context(m, p)
           x == Len(t)
<1> HIDE DEF c, x
<1>1. reads(m, p, t) =
        [[m EXCEPT !.d = [m.d EXCEPT !.rc = [m.d.rc EXCEPT ![p] = x]]]
           EXCEPT !.d.text[p][c] = t]
  BY DEF reads, c, x
<1>2. m.d \in DeviceMemory
  BY DEF Machines
<1> DEFINE e == [m.d EXCEPT !.rc = [m.d.rc EXCEPT ![p] = x]]
<1>3. e.text = m.d.text
  BY <1>2 DEF DeviceMemory
<1> HIDE DEF e
<1>4. reads(m, p, t) =
        [m EXCEPT !.d =
           [e EXCEPT !.text = [e.text EXCEPT ![p] = [e.text[p] EXCEPT ![c] = t]]]]
  BY <1>1 DEF Machines, e
<1> QED BY <1>3, <1>4 DEF Answered, e, c, x

\* The context in which p executes.
Top(km, p) == Len(km.frames[p]) + 1

\* The result and the text of a call agree, so that every count stays right;
\* nobody else's request is touched.
LEMMA AnsweredFramed ==
  ASSUME NEW km \in Memory, NEW dm, Framed(km, dm), NEW p \in Slots,
         NEW x \in Int \cup {Other}, NEW t \in Seq(Chars) \cup {NULL},
         t # NULL => x = Len(t),
         km.state[p] \in Suspended => t = NULL
  PROVE  LET e == Answered(dm, p, Top(km, p), x, t) IN
         /\ Framed(km, e)
         /\ e.fdt = dm.fdt /\ e.saved = dm.saved /\ e.request = dm.request
         /\ e.kbd = dm.kbd /\ e.irq = dm.irq
         /\ e.rc[p] = x /\ e.text[p][Top(km, p)] = t
         /\ \A q \in Slots \ {p} : Requested(km, dm, q) => Requested(km, e, q)
<1> DEFINE c == Top(km, p)
           r == [dm.rc EXCEPT ![p] = x]
           u == [dm.text[p] EXCEPT ![c] = t]
           w == [dm.text EXCEPT ![p] = u]
           e == Answered(dm, p, c, x, t)
<1>0. Len(km.frames[p]) \in Nat /\ c = Len(km.frames[p]) + 1
  BY DEF Memory, Top
<1> HIDE DEF c
<1>1. /\ dm.rc \in [Slots -> Int \cup {Other}]
      /\ dm.text \in [Slots -> Seq(Seq(Chars) \cup {NULL})]
      /\ Len(dm.text[p]) = c /\ Len(dm.saved[p]) = Len(km.frames[p])
  BY <1>0 DEF Framed, DeviceMemory, Counted
<1> DEFINE T == Seq(Chars) \cup {NULL}
<1> HIDE DEF T
<1>2. u \in Seq(T) /\ Len(u) = c /\ u[c] = t /\ \A i \in 1 .. c - 1 : u[i] = dm.text[p][i]
  <2>1. dm.text[p] \in Seq(T) /\ t \in T
    BY <1>1 DEF T
  <2>2. c \in Nat /\ c >= 1
    BY <1>0
  <2> QED BY <1>1, <2>1, <2>2
<1> HIDE DEF u
<1>3. w \in [Slots -> Seq(T)] /\ r \in [Slots -> Int \cup {Other}]
  BY <1>1, <1>2 DEF T
<1>4. /\ w[p] = u /\ r[p] = x
      /\ \A q \in Slots : q # p => w[q] = dm.text[q] /\ r[q] = dm.rc[q]
  BY <1>1
<1>5. e = [dm EXCEPT !.rc = r, !.text = w]
  BY DEF Answered, u
<1> HIDE DEF w, r, e
<1>6. /\ e \in DeviceMemory
      /\ e.fdt = dm.fdt /\ e.saved = dm.saved /\ e.request = dm.request
      /\ e.kbd = dm.kbd /\ e.irq = dm.irq
      /\ e.rc = r /\ e.text = w
  BY <1>3, <1>5 DEF Framed, DeviceMemory, T
<1>7. Described(e) /\ Buffered(e.kbd)
  BY <1>6 DEF Framed, Described, Refs
<1>8. ASSUME NEW q \in Slots PROVE Counted(km, e, q)
  <2>1. CASE q # p
    <3>1. Counted(km, dm, q)
      BY <1>8 DEF Framed
    <3>2. e.text[q] = dm.text[q] /\ e.rc[q] = dm.rc[q] /\ e.saved[q] = dm.saved[q]
      BY <1>4, <1>6, <1>8, <2>1
    <3> QED BY <3>1, <3>2 DEF Counted
  <2>2. CASE q = p
    <3>1. ASSUME NEW i \in 1 .. Len(dm.saved[p]) PROVE e.text[p][i] = dm.text[p][i]
      <4>1. i \in 1 .. c - 1
        BY <1>0, <1>1
      <4>2. e.text[p] = u
        BY <1>4, <1>6
      <4> QED BY <1>2, <4>1, <4>2
    <3>2. e.text[p][c] = t /\ e.rc[p] = x /\ e.saved[p] = dm.saved[p] /\ Len(e.text[p]) = c
      BY <1>2, <1>4, <1>6
    <3>3. Counted(km, dm, p)
      BY DEF Framed
    <3>4. \A i \in 1 .. Len(e.saved[p]) : e.text[p][i] # NULL => e.saved[p][i] = Len(e.text[p][i])
      BY <3>1, <3>2, <3>3 DEF Counted
    <3>5. Len(e.saved[p]) = Len(km.frames[p]) /\ Len(e.text[p]) = Len(km.frames[p]) + 1
      BY <1>0, <1>1, <3>2
    <3>6. LET v == e.text[p][Len(km.frames[p]) + 1]
          IN  /\ v # NULL => e.rc[p] = Len(v)
              /\ km.state[p] \in Suspended => v = NULL
      BY <1>0, <3>2
    <3> QED BY <2>2, <3>4, <3>5, <3>6 DEF Counted
  <2> QED BY <2>1, <2>2
<1>9. ASSUME NEW q \in Slots \ {p}, Requested(km, dm, q) PROVE Requested(km, e, q)
  BY <1>4, <1>6, <1>9 DEF Requested
<1>10. Framed(km, e)
  BY <1>6, <1>7, <1>8 DEF Framed
<1>11. e.rc[p] = x /\ e.text[p][c] = t
  BY <1>2, <1>4, <1>6
<1> QED BY <1>6, <1>9, <1>10, <1>11 DEF e, c

\* The same for a caller that does not wait.
LEMMA AnsweredKeeps ==
  ASSUME NEW km \in Memory, NEW dm, Devised(km, dm), NEW p \in Slots,
         ~ Waits(km, p),
         NEW x \in Int \cup {Other}, NEW t \in Seq(Chars) \cup {NULL},
         t # NULL => x = Len(t),
         km.state[p] \in Suspended => t = NULL
  PROVE  Devised(km, Answered(dm, p, Top(km, p), x, t))
<1> DEFINE e == Answered(dm, p, Top(km, p), x, t)
<1>1. Framed(km, dm)
  BY DEF Devised
<1>2. Framed(km, e) /\ \A q \in Slots \ {p} : Requested(km, dm, q) => Requested(km, e, q)
  BY <1>1, AnsweredFramed
<1>3. Requested(km, e, p)
  BY DEF Requested
<1> HIDE DEF e
<1>4. Devised(km, e)
  BY <1>2, <1>3 DEF Devised
<1> QED BY <1>4 DEF e

\* The keyboard, and the descriptor f of p, change.
Rewired(dm, p, f, v, kbd, on) ==
  [dm EXCEPT !.fdt = [dm.fdt EXCEPT ![p] = [dm.fdt[p] EXCEPT ![f] = v]],
             !.kbd = kbd,
             !.irq = on]

\* A descriptor can be changed with the state of its device, while nobody
\* waits or the keyboard is left alone.
LEMMA RewiredKeeps ==
  ASSUME NEW km \in Memory, NEW dm, Devised(km, dm),
         NEW p \in Slots, NEW f \in Fds, NEW v \in devtab \cup {NULL},
         NEW kbd, NEW on,
         Rewired(dm, p, f, v, kbd, on) \in DeviceMemory,
         Described(Rewired(dm, p, f, v, kbd, on)),
         Buffered(kbd),
         kbd = dm.kbd \/ \A q \in Slots : ~ Waits(km, q)
  PROVE  Devised(km, Rewired(dm, p, f, v, kbd, on))
<1> DEFINE e == Rewired(dm, p, f, v, kbd, on)
<1>1. /\ e.rc = dm.rc /\ e.saved = dm.saved /\ e.request = dm.request
      /\ e.text = dm.text /\ e.kbd = kbd
  BY DEF Rewired, Devised, Framed, DeviceMemory
<1> HIDE DEF e
<1>2. ASSUME NEW q \in Slots PROVE Counted(km, e, q)
  <2>1. Counted(km, dm, q)
    BY DEF Devised, Framed
  <2> QED BY <1>1, <2>1 DEF Counted
<1>3. ASSUME NEW q \in Slots PROVE Requested(km, e, q)
  <2>1. Requested(km, dm, q)
    BY DEF Devised
  <2>2. CASE kbd = dm.kbd
    BY <1>1, <2>1, <2>2 DEF Requested
  <2>3. CASE \A r \in Slots : ~ Waits(km, r)
    BY <2>3 DEF Requested
  <2> QED BY <2>2, <2>3
<1> QED BY <1>1, <1>2, <1>3 DEF Devised, Framed, e
-----------------------------------------------------------------------------
\* p is neither suspended nor blocked by a device.
Free(km, p) == km.state[p] \notin Suspended \cup {"DEV_BLOCK"}

\* What every operation of Devices keeps.
Sound(m) == m \in Machines /\ Devised(m.k, m.d)

\* A device operation that lets the kernel and all that was typed pass.
Quiet(m, n) == n.k = m.k /\ Passes(m.k, m.d, n.k, n.d)

\* One that turns the keyboard on or off: nobody waits, and what was typed is
\* dropped unless it was off.
Toggles(m, n) ==
  /\ n.k = m.k /\ n.d.kbd.state # m.d.kbd.state
  /\ n.d.kbd.buf = << >> \/ (~ m.d.kbd.state /\ n.d.kbd.buf = m.d.kbd.buf)
  /\ \A q \in Slots : ~ Waits(m.k, q)

\* An answer to a caller that does not wait.
LEMMA AnsweredPasses ==
  ASSUME NEW km, NEW dm \in DeviceMemory, NEW p \in Slots, ~ Waits(km, p),
         NEW c, NEW x, NEW t
  PROVE  Passes(km, dm, km, Answered(dm, p, c, x, t))
<1> DEFINE u == [dm.text[p] EXCEPT ![c] = t]
           e == Answered(dm, p, c, x, t)
<1>1. e = [dm EXCEPT !.rc = [dm.rc EXCEPT ![p] = x], !.text = [dm.text EXCEPT ![p] = u]]
  BY DEF Answered
<1> HIDE DEF u, e
<1>2. /\ e.kbd = dm.kbd /\ e.request = dm.request
      /\ \A q \in Slots \ {p} : e.rc[q] = dm.rc[q] /\ e.text[q] = dm.text[q]
  BY <1>1 DEF DeviceMemory
<1>3. Passes(km, dm, km, e)
  BY <1>2 DEF Passes
<1> QED BY <1>3 DEF e

\* One quiet operation after another.
LEMMA QuietTwice ==
  ASSUME NEW a, NEW b, NEW c, Quiet(a, b), Quiet(b, c) PROVE Quiet(a, c)
BY DEF Quiet, Passes

\* Calls that answer at once.
LEMMA ReturnsKeeps ==
  ASSUME NEW m, Sound(m), NEW p \in Slots, Free(m.k, p), NEW x \in Int \cup {Other}
  PROVE  Sound(returns(m, p, x)) /\ Quiet(m, returns(m, p, x))
<1> DEFINE e == Answered(m.d, p, context(m, p), x, NULL)
           n == returns(m, p, x)
<1>1. m \in Machines /\ m.k \in Memory /\ Devised(m.k, m.d)
  BY DEF Sound, Machines
<1>2. Devised(m.k, e)
  BY <1>1, AnsweredKeeps DEF Free, Waits, context, Top
<1>2a. Passes(m.k, m.d, m.k, e)
  BY <1>1, AnsweredPasses DEF Free, Waits, Machines
<1> HIDE DEF e
<1>3. n = [m EXCEPT !.d = e]
  BY <1>1, ReturnsEffect DEF e
<1> HIDE DEF n
<1>4. n.k = m.k /\ n.d = e /\ n \in Machines
  BY <1>1, <1>2, <1>3 DEF Machines, Devised, Framed
<1>5. Sound(n) /\ Quiet(m, n)
  BY <1>2, <1>2a, <1>4 DEF Sound, Quiet
<1> QED BY <1>5 DEF n

LEMMA ReadsKeeps ==
  ASSUME NEW m, Sound(m), NEW p \in Slots, Free(m.k, p), NEW t \in Seq(Chars)
  PROVE  /\ Sound(reads(m, p, t)) /\ Quiet(m, reads(m, p, t))
         /\ reads(m, p, t).d.kbd = m.d.kbd
         /\ reads(m, p, t).d.rc[p] = Len(t)
         /\ reads(m, p, t).d.text[p][Top(m.k, p)] = t
<1> DEFINE x == Len(t)
           e == Answered(m.d, p, context(m, p), x, t)
           n == reads(m, p, t)
<1>1. m \in Machines /\ m.k \in Memory /\ Devised(m.k, m.d) /\ x \in Int
  BY DEF Sound, Machines
<1>2. n = [m EXCEPT !.d = e]
  BY <1>1, ReadsEffect
<1>3. Devised(m.k, e)
  BY <1>1, AnsweredKeeps DEF Free, Waits, context, Top
<1>3a. Passes(m.k, m.d, m.k, e)
  BY <1>1, AnsweredPasses DEF Free, Waits, Machines
<1> HIDE DEF e, n
<1>4. n.k = m.k /\ n.d = e /\ n \in Machines
  BY <1>1, <1>2, <1>3 DEF Machines, Devised, Framed
<1>5. Sound(n) /\ Quiet(m, n)
  BY <1>3, <1>3a, <1>4 DEF Sound, Quiet
<1>6. LET a == Answered(m.d, p, Top(m.k, p), x, t) IN
      a.kbd = m.d.kbd /\ a.rc[p] = x /\ a.text[p][Top(m.k, p)] = t
  <2>1. Framed(m.k, m.d) /\ m.k.state[p] \notin Suspended /\ x \in Int \cup {Other}
        /\ t \in Seq(Chars) \cup {NULL}
    BY <1>1 DEF Devised, Free
  <2> QED BY <1>1, <2>1, AnsweredFramed
<1>7. context(m, p) = Top(m.k, p)
  BY DEF context, Top
<1>8. n.d.kbd = m.d.kbd /\ n.d.rc[p] = Len(t) /\ n.d.text[p][Top(m.k, p)] = t
  BY <1>4, <1>6, <1>7 DEF e
<1> QED BY <1>5, <1>8 DEF n

\* di_write.
LEMMA WriteKeeps ==
  ASSUME NEW m, Sound(m), NEW p \in Slots, Free(m.k, p), NEW fd, NEW n \in Int
  PROVE  Sound(di_write(m, p, fd, n)) /\ Quiet(m, di_write(m, p, fd, n))
<1>1. di_write(m, p, fd, n) \in {returns(m, p, n), returns(m, p, DEV_FAIL)}
  BY DEF di_write, zero_write
<1>2. n \in Int \cup {Other} /\ DEV_FAIL \in Int \cup {Other}
  BY DEF DEV_FAIL
<1> QED BY <1>1, <1>2, ReturnsKeeps

\* The two halves of such a change, as opening and closing make them.
Switched(m, kbd, on) == [m EXCEPT !.d = [m.d EXCEPT !.kbd = kbd, !.irq = on]]
Pointed(m, p, f, v) == [m EXCEPT !.d.fdt[p][f] = v]

\* An open or a close as one change of the device memory.
LEMMA RewireEffect ==
  ASSUME NEW m \in Machines, NEW p \in Slots, NEW f \in Fds, NEW v, NEW kbd, NEW on
  PROVE  Pointed(Switched(m, kbd, on), p, f, v) =
           [m EXCEPT !.d = Rewired(m.d, p, f, v, kbd, on)]
<1> DEFINE e == [m.d EXCEPT !.kbd = kbd, !.irq = on]
           o == Switched(m, kbd, on)
<1>1. e.fdt = m.d.fdt
  BY DEF Machines, DeviceMemory
<1>2. [e EXCEPT !.fdt[p][f] = v] = Rewired(m.d, p, f, v, kbd, on)
  BY DEF Machines, DeviceMemory, Rewired
<1>3. o = [m EXCEPT !.d = e]
  BY DEF Switched
<1> HIDE DEF e, o
<1>4. [o EXCEPT !.d.fdt[p][f] = v] = [m EXCEPT !.d = [e EXCEPT !.fdt[p][f] = v]]
  BY <1>3 DEF Machines
<1> QED BY <1>2, <1>4 DEF Pointed, o

\* Replacing the device memory.
LEMMA Replaced ==
  ASSUME NEW m \in Machines, NEW e, Devised(m.k, e), NEW n, n = [m EXCEPT !.d = e]
  PROVE  Sound(n) /\ n.k = m.k /\ n.d = e
<1>1. n.k = m.k /\ n.d = e /\ n \in Machines
  BY DEF Machines, Devised, Framed
<1> QED BY <1>1 DEF Sound

\* An open or a close that leaves the descriptors as Described says.
LEMMA RewireKeeps ==
  ASSUME NEW m, Sound(m), NEW p \in Slots, NEW f \in Fds, NEW v \in devtab \cup {NULL},
         NEW kbd, NEW on,
         Rewired(m.d, p, f, v, kbd, on) \in DeviceMemory,
         Described(Rewired(m.d, p, f, v, kbd, on)),
         Buffered(kbd),
         kbd = m.d.kbd \/ \A q \in Slots : ~ Waits(m.k, q)
  PROVE  LET n == Pointed(Switched(m, kbd, on), p, f, v)
         IN  Sound(n) /\ n.k = m.k /\ n.d.kbd = kbd /\ (kbd = m.d.kbd => Quiet(m, n))
<1> DEFINE e == Rewired(m.d, p, f, v, kbd, on)
           n == Pointed(Switched(m, kbd, on), p, f, v)
<1>1. m \in Machines /\ m.k \in Memory /\ Devised(m.k, m.d)
  BY DEF Sound, Machines
<1>2. Devised(m.k, e)
  BY <1>1, RewiredKeeps
<1>3. n = [m EXCEPT !.d = e]
  BY <1>1, RewireEffect
<1>3a. e.kbd = kbd /\ e.rc = m.d.rc /\ e.text = m.d.text /\ e.request = m.d.request
  BY <1>1 DEF Rewired, Machines, DeviceMemory
<1> HIDE DEF e, n
<1>4. Sound(n) /\ n.k = m.k /\ n.d = e
  BY <1>1, <1>2, <1>3, Replaced
<1>5. kbd = m.d.kbd => Quiet(m, n)
  BY <1>3a, <1>4 DEF Quiet, Passes
<1> QED BY <1>3a, <1>4, <1>5 DEF n

\* Where the descriptors lead after one of p's has changed.
LEMMA RewiredRefs ==
  ASSUME NEW dm \in DeviceMemory, NEW p \in Slots, NEW f \in Fds, NEW v \in devtab \cup {NULL},
         NEW kbd \in KbdMemory,
         NEW on \in BOOLEAN
  PROVE  LET e == Rewired(dm, p, f, v, kbd, on) IN
         /\ e \in DeviceMemory
         /\ e.kbd = kbd /\ e.irq = on
         /\ v = KEYBOARD => Refs(e) = Refs(dm) \cup {<< p, f >>}
         /\ v # KEYBOARD => Refs(e) = Refs(dm) \ {<< p, f >>}
<1> DEFINE row == [dm.fdt[p] EXCEPT ![f] = v]
           fdt == [dm.fdt EXCEPT ![p] = row]
           e == Rewired(dm, p, f, v, kbd, on)
<1> DEFINE D == devtab \cup {NULL}
<1> HIDE DEF D
<1>1. dm.fdt \in [Slots -> [Fds -> D]] /\ v \in D
  BY DEF DeviceMemory, D
<1>2. row \in [Fds -> D] /\ row[f] = v /\ \A g \in Fds : g # f => row[g] = dm.fdt[p][g]
  BY <1>1
<1> HIDE DEF row
<1>3. /\ fdt \in [Slots -> [Fds -> D]]
      /\ fdt[p] = row /\ \A q \in Slots : q # p => fdt[q] = dm.fdt[q]
  BY <1>1, <1>2
<1>4. e = [dm EXCEPT !.fdt = fdt, !.kbd = kbd, !.irq = on]
  BY DEF Rewired, row
<1> HIDE DEF fdt, e
<1>5. e \in DeviceMemory /\ e.fdt = fdt /\ e.kbd = kbd /\ e.irq = on
  BY <1>3, <1>4 DEF DeviceMemory, D
<1>6. ASSUME NEW r \in Slots \X Fds
      PROVE  e.fdt[r[1]][r[2]] = IF r = << p, f >> THEN v ELSE dm.fdt[r[1]][r[2]]
  <2>1. r[1] \in Slots /\ r[2] \in Fds /\ r = << r[1], r[2] >>
    OBVIOUS
  <2> QED BY <1>2, <1>3, <1>5, <2>1
<1>7. << p, f >> \in Slots \X Fds
  OBVIOUS
<1>8. /\ v = KEYBOARD => Refs(e) = Refs(dm) \cup {<< p, f >>}
      /\ v # KEYBOARD => Refs(e) = Refs(dm) \ {<< p, f >>}
  BY <1>6, <1>7 DEF Refs
<1> QED BY <1>5, <1>8 DEF e

\* di_open: the keyboard is off before it is opened, so nobody waits for it.
LEMMA OpenKeeps ==
  ASSUME NEW m, Sound(m), NEW p \in Slots, Free(m.k, p), NEW dev
  PROVE  LET r == di_open(m, p, dev) IN Sound(r) /\ (Quiet(m, r) \/ Toggles(m, r))
<1> DEFINE free == {f \in Fds : m.d.fdt[p][f] = NULL}
           f == Least(free)
           o == IF dev = KEYBOARD THEN kbd_open(m, p) ELSE m
           kbd == IF dev = KEYBOARD THEN [m.d.kbd EXCEPT !.state = TRUE, !.pcb = p] ELSE m.d.kbd
           on == IF dev = KEYBOARD THEN TRUE ELSE m.d.irq
           e == Rewired(m.d, p, f, dev, kbd, on)
           n == Pointed(o, p, f, dev)
<1>0. m.d \in DeviceMemory /\ Described(m.d) /\ m \in Machines /\ Buffered(m.d.kbd)
  BY DEF Sound, Devised, Framed
<1>1. CASE free = {} \/ dev \notin Available(m)
  <2>1. di_open(m, p, dev) = returns(m, p, DEV_FAIL)
    BY <1>1 DEF di_open
  <2> QED BY <2>1, ReturnsKeeps DEF DEV_FAIL
<1>2. CASE free # {} /\ dev \in Available(m)
  <2>1. f \in free
    <3>1. free \in SUBSET Nat
      BY DEF Fds
    <3> HIDE DEF free
    <3> QED BY <1>2, <3>1, LeastElement
  <2>2. f \in Fds /\ m.d.fdt[p][f] = NULL /\ f \in Int
    BY <2>1 DEF Fds
  <2>3. dev \in devtab /\ (dev = KEYBOARD => ~ m.d.kbd.state)
    BY <1>2 DEF Available
  <2>4. di_open(m, p, dev) = returns(n, p, f)
    BY <1>2 DEF di_open, Pointed
  <2> HIDE DEF f, free
  <2>5. /\ kbd \in KbdMemory
        /\ on \in BOOLEAN
        /\ kbd.buf = m.d.kbd.buf /\ kbd.eof_flag = m.d.kbd.eof_flag
        /\ dev = KEYBOARD => kbd.state /\ kbd.pcb = p /\ on
        /\ dev # KEYBOARD => kbd = m.d.kbd /\ on = m.d.irq
    <3>1. m.d.kbd \in KbdMemory /\ m.d.irq \in BOOLEAN /\ p \in Pointers
      BY <1>0, ConstantTypes DEF DeviceMemory
    <3> QED BY <3>1 DEF KbdMemory
  <2>6. o = Switched(m, kbd, on)
    <3>1. CASE dev = KEYBOARD
      BY ZenonT(60), <1>0, <3>1 DEF kbd_open, enable_irq, Switched, Machines, DeviceMemory
    <3>2. CASE dev # KEYBOARD
      BY <1>0, <3>2 DEF Switched, Machines, DeviceMemory
    <3> QED BY <3>1, <3>2
  <2> HIDE DEF kbd, on, o
  <2>7. /\ e \in DeviceMemory /\ e.kbd = kbd /\ e.irq = on
        /\ dev = KEYBOARD => Refs(e) = Refs(m.d) \cup {<< p, f >>}
        /\ dev # KEYBOARD => Refs(e) = Refs(m.d) \ {<< p, f >>}
    BY <1>0, <2>2, <2>3, <2>5, RewiredRefs
  <2>8. << p, f >> \notin Refs(m.d)
    BY <2>2, DevtabAssumption DEF Refs, devtab, KEYBOARD
  <2>9. Described(e)
    <3> HIDE DEF e
    <3> QED BY <1>0, <2>3, <2>5, <2>7, <2>8 DEF Described
  <2>10. kbd = m.d.kbd \/ \A q \in Slots : ~ Waits(m.k, q)
    BY <2>3, <2>5 DEF Sound, Devised, Framed, Requested
  <2>11. Sound(n) /\ n.k = m.k /\ n.d.kbd = kbd /\ (kbd = m.d.kbd => Quiet(m, n))
    <3>1. Buffered(kbd)
      BY <1>0, <2>5 DEF Buffered
    <3> QED BY <2>2, <2>3, <2>6, <2>7, <2>9, <2>10, <3>1, RewireKeeps
  <2> HIDE DEF n
  <2>12. Sound(returns(n, p, f)) /\ Quiet(n, returns(n, p, f))
    BY <2>2, <2>11, ReturnsKeeps
  <2>13. CASE dev # KEYBOARD
    BY <2>4, <2>5, <2>11, <2>12, <2>13, QuietTwice
  <2>14. CASE dev = KEYBOARD
    <3>1. \A q \in Slots : ~ Waits(m.k, q)
      BY <2>3, <2>14 DEF Sound, Devised, Requested
    <3> DEFINE r == returns(n, p, f)
    <3>2. r.k = m.k /\ r.d.kbd.state = kbd.state /\ r.d.kbd.buf = kbd.buf
      BY <2>11, <2>12 DEF Quiet, Passes
    <3> HIDE DEF r
    <3>3. Toggles(m, r)
      BY <2>3, <2>5, <2>14, <3>1, <3>2 DEF Toggles
    <3> QED BY <2>4, <2>12, <3>3 DEF r
  <2> QED BY <2>13, <2>14
<1> QED BY <1>1, <1>2

\* di_close: the only descriptor of the keyboard is the one closed, and its
\* owner is running, so nobody waits.
LEMMA CloseKeeps ==
  ASSUME NEW m, Sound(m), NEW p \in Slots, Free(m.k, p), NEW fd
  PROVE  LET r == di_close(m, p, fd) IN Sound(r) /\ (Quiet(m, r) \/ Toggles(m, r))
<1> DEFINE dev == DeviceOf(m, p, fd)
           o == IF dev = KEYBOARD THEN kbd_close(m) ELSE m
           kbd == IF dev = KEYBOARD THEN KbdOff ELSE m.d.kbd
           on == IF dev = KEYBOARD THEN FALSE ELSE m.d.irq
           e == Rewired(m.d, p, fd, NULL, kbd, on)
           n == Pointed(o, p, fd, NULL)
<1>0. m.d \in DeviceMemory /\ Described(m.d) /\ m \in Machines /\ Buffered(m.d.kbd)
  BY DEF Sound, Devised, Framed
<1>1. CASE dev = NULL \/ (dev = KEYBOARD /\ ~ m.d.kbd.state)
  <2>1. di_close(m, p, fd) = returns(m, p, DEV_FAIL)
    BY <1>1 DEF di_close
  <2> QED BY <2>1, ReturnsKeeps DEF DEV_FAIL
<1>2. CASE dev # NULL /\ (dev = KEYBOARD => m.d.kbd.state)
  <2>1. fd \in Fds /\ m.d.fdt[p][fd] = dev
    BY <1>2 DEF DeviceOf
  <2>2. di_close(m, p, fd) = returns(n, p, DEV_OK)
    BY <1>2 DEF di_close, Pointed
  <2>3. NULL # KEYBOARD
    BY DevtabAssumption DEF devtab
  <2> HIDE DEF dev
  <2>4. /\ kbd \in KbdMemory /\ Buffered(kbd)
        /\ on \in BOOLEAN
        /\ dev = KEYBOARD => /\ kbd = KbdOff /\ ~ on /\ ~ kbd.state /\ ~ kbd.eof_flag
                             /\ kbd.buf = << >>
        /\ dev # KEYBOARD => kbd = m.d.kbd /\ on = m.d.irq
    <3>1. KbdOff \in KbdMemory
      BY ConstantTypes DEF KbdMemory, KbdOff, Chars
    <3>2. /\ Len(KbdOff.buf) = 0 /\ KbdOff.state = FALSE /\ KbdOff.eof_flag = FALSE
          /\ KbdOff.buf = << >>
      BY DEF KbdOff
    <3>3. Buffered(KbdOff)
      BY <3>2, DevicesAssumption DEF Buffered
    <3> QED BY <1>0, <3>1, <3>2, <3>3 DEF DeviceMemory
  <2>5. o = Switched(m, kbd, on)
    <3>1. CASE dev = KEYBOARD
      BY <1>0, <3>1 DEF kbd_close, enable_irq, Switched, Machines, DeviceMemory
    <3>2. CASE dev # KEYBOARD
      BY <1>0, <3>2 DEF Switched, Machines, DeviceMemory
    <3> QED BY <3>1, <3>2
  <2> HIDE DEF kbd, on, o
  <2>6. /\ e \in DeviceMemory /\ e.kbd = kbd /\ e.irq = on
        /\ Refs(e) = Refs(m.d) \ {<< p, fd >>}
    <3>0. kbd \in KbdMemory /\ on \in BOOLEAN /\ fd \in Fds /\ m.d \in DeviceMemory
      BY <1>0, <2>1, <2>4
    <3>1. ASSUME NEW v \in devtab \cup {NULL}, v # KEYBOARD
          PROVE  LET r == Rewired(m.d, p, fd, v, kbd, on) IN
                 /\ r \in DeviceMemory /\ r.kbd = kbd /\ r.irq = on
                 /\ Refs(r) = Refs(m.d) \ {<< p, fd >>}
      BY <3>0, <3>1, RewiredRefs
    <3> QED BY <2>3, <3>1
  <2>7. << p, fd >> \in Refs(m.d) <=> dev = KEYBOARD
    BY <2>1 DEF Refs
  <2>8. Described(e)
    <3> HIDE DEF e
    <3>1. CASE dev = KEYBOARD
      <4>1. Refs(m.d) = {<< p, fd >>}
        BY <1>0, <2>7, <3>1 DEF Described
      <4> QED BY <2>4, <2>6, <3>1, <4>1 DEF Described
    <3>2. CASE dev # KEYBOARD
      BY <1>0, <2>4, <2>6, <2>7, <3>2 DEF Described
    <3> QED BY <3>1, <3>2
  <2>9. /\ dev = KEYBOARD => \A q \in Slots : ~ Waits(m.k, q)
        /\ kbd = m.d.kbd \/ \A q \in Slots : ~ Waits(m.k, q)
    <3>1. CASE dev = KEYBOARD
      <4>1. m.d.kbd.pcb = p
        BY <1>0, <2>7, <3>1 DEF Described
      <4> QED BY <4>1 DEF Sound, Devised, Framed, Requested, Waits, Free
    <3> QED BY <2>4, <3>1
  <2>10. Sound(n) /\ n.k = m.k /\ n.d.kbd = kbd /\ (kbd = m.d.kbd => Quiet(m, n))
    <3>1. /\ Buffered(kbd) /\ fd \in Fds /\ e \in DeviceMemory
          /\ kbd = m.d.kbd \/ \A q \in Slots : ~ Waits(m.k, q)
      BY <2>1, <2>4, <2>6, <2>9
    <3>2. n = Pointed(Switched(m, kbd, on), p, fd, NULL)
      BY <2>5
    <3> HIDE DEF n
    <3> QED BY <2>8, <3>1, <3>2, RewireKeeps
  <2> HIDE DEF n
  <2>11. Sound(returns(n, p, DEV_OK)) /\ Quiet(n, returns(n, p, DEV_OK))
    BY <2>10, ReturnsKeeps DEF DEV_OK
  <2>12. CASE dev # KEYBOARD
    BY <2>2, <2>4, <2>10, <2>11, <2>12, QuietTwice
  <2>13. CASE dev = KEYBOARD
    <3> DEFINE r == returns(n, p, DEV_OK)
    <3>1. r.k = m.k /\ r.d.kbd.state = kbd.state /\ r.d.kbd.buf = kbd.buf
      BY <2>10, <2>11 DEF Quiet, Passes
    <3> HIDE DEF r
    <3>2. m.d.kbd.state
      BY <1>2, <2>13 DEF dev
    <3>3. Toggles(m, r)
      BY <2>4, <2>9, <2>13, <3>1, <3>2 DEF Toggles
    <3> QED BY <2>2, <2>11, <3>3 DEF r
  <2> QED BY <2>12, <2>13
<1> QED BY <1>1, <1>2

\* The owner sets a field of the keyboard that no descriptor depends on.
LEMMA SwitchKeeps ==
  ASSUME NEW m, Sound(m), NEW kbd \in KbdMemory, Buffered(kbd),
         kbd.state = m.d.kbd.state, kbd.pcb = m.d.kbd.pcb, kbd.eof_flag = m.d.kbd.eof_flag,
         kbd.buf = m.d.kbd.buf,
         \A q \in Slots : ~ Waits(m.k, q)
  PROVE  LET n == [m EXCEPT !.d.kbd = kbd] IN Sound(n) /\ Quiet(m, n)
<1> DEFINE e == [m.d EXCEPT !.kbd = kbd]
           n == [m EXCEPT !.d.kbd = kbd]
<1>1. m \in Machines /\ Devised(m.k, m.d) /\ m.d \in DeviceMemory
  BY DEF Sound, Devised, Framed
<1>2. /\ e \in DeviceMemory /\ e.fdt = m.d.fdt /\ e.kbd = kbd /\ e.irq = m.d.irq
      /\ e.rc = m.d.rc /\ e.text = m.d.text /\ e.saved = m.d.saved
  BY <1>1 DEF DeviceMemory
<1>3. n = [m EXCEPT !.d = e]
  BY <1>1 DEF Machines
<1> HIDE DEF e, n
<1>4. Described(e)
  <2>1. Described(m.d)
    BY <1>1 DEF Devised, Framed
  <2>2. Refs(e) = Refs(m.d)
    BY <1>2 DEF Refs
  <2> QED BY <1>2, <2>1, <2>2 DEF Described
<1>5. ASSUME NEW q \in Slots PROVE Counted(m.k, e, q)
  <2>1. Counted(m.k, m.d, q)
    BY <1>1 DEF Devised, Framed
  <2> QED BY <1>2, <2>1 DEF Counted
<1>6. Devised(m.k, e)
  BY <1>2, <1>4, <1>5 DEF Devised, Framed, Requested
<1>7. Sound(n) /\ n.k = m.k /\ n.d = e
  BY <1>1, <1>3, <1>6, Replaced
<1>8. Quiet(m, n)
  BY <1>2, <1>7 DEF Quiet, Passes
<1> QED BY <1>7, <1>8 DEF n

\* di_ioctl: only the owner of the keyboard reaches it, so nobody waits and
\* the end-of-file character may change.
LEMMA IoctlKeeps ==
  ASSUME NEW m, Sound(m), NEW p \in Slots, Free(m.k, p), NEW fd, NEW command,
         NEW args \in Arguments
  PROVE  LET n == di_ioctl(m, p, fd, command, args) IN Sound(n) /\ Quiet(m, n)
<1> DEFINE dev == IF args = NULL THEN NULL ELSE DeviceOf(m, p, fd)
           n == di_ioctl(m, p, fd, command, args)
<1>1. /\ m.d \in DeviceMemory /\ Described(m.d) /\ m \in Machines /\ Buffered(m.d.kbd)
      /\ m.d.kbd \in KbdMemory
  BY DEF Sound, Devised, Framed, DeviceMemory
<1>2. DEV_FAIL \in Int \cup {Other} /\ DEV_OK \in Int \cup {Other}
  BY DEF DEV_FAIL, DEV_OK
<1>3. dev \in devtab \cup {NULL}
  BY <1>1 DEF DeviceOf, DeviceMemory
<1>4. CASE dev # KEYBOARD
  <2>1. n \in {returns(m, p, DEV_FAIL), returns(m, p, DEV_OK)}
    <3>1. CASE dev = RAND
      BY <3>1 DEF di_ioctl, rand_ioctl, RAND, ZERO, KEYBOARD
    <3>2. CASE dev \in {ZERO, NULL}
      <4>1. dev # RAND
        BY <3>2, DevtabAssumption DEF devtab, RAND, ZERO
      <4> QED BY <1>4, <3>2, <4>1 DEF di_ioctl
    <3> QED BY <1>3, <1>4, <3>1, <3>2 DEF devtab
  <2> QED BY <1>2, <2>1, ReturnsKeeps
<1>5. CASE dev = KEYBOARD
  <2>0. args \in Eofs /\ dev = DeviceOf(m, p, fd)
    BY <1>5, DevtabAssumption DEF Arguments, devtab
  <2>1. n = kbd_ioctl(m, p, command, args)
    <3>1. dev # RAND /\ dev \notin {ZERO, NULL}
      BY <1>5, DevtabAssumption DEF devtab, RAND, ZERO, KEYBOARD
    <3> QED BY <1>5, <3>1 DEF di_ioctl
  <2>2. \A q \in Slots : ~ Waits(m.k, q)
    <3>1. fd \in Fds /\ m.d.fdt[p][fd] = KEYBOARD
      BY <1>5, <2>0, DevtabAssumption DEF DeviceOf, devtab
    <3>2. << p, fd >> \in Refs(m.d)
      BY <3>1 DEF Refs
    <3>3. m.d.kbd.pcb = p
      BY <1>1, <3>2 DEF Described
    <3> QED BY <3>3 DEF Sound, Devised, Framed, Requested, Waits, Free
  <2> DEFINE K == {[m.d.kbd EXCEPT !.eof = args], [m.d.kbd EXCEPT !.echo = TRUE],
                   [m.d.kbd EXCEPT !.echo = FALSE]}
  <2>3. ASSUME NEW kbd \in K
        PROVE  LET o == [m EXCEPT !.d.kbd = kbd] IN Sound(o) /\ Quiet(m, o)
    <3>1. kbd \in KbdMemory
      BY <1>1, <2>0 DEF KbdMemory, Chars
    <3>2. /\ kbd.state = m.d.kbd.state /\ kbd.pcb = m.d.kbd.pcb
          /\ kbd.eof_flag = m.d.kbd.eof_flag /\ kbd.buf = m.d.kbd.buf
      BY <1>1 DEF KbdMemory
    <3>3. Buffered(kbd)
      BY <1>1, <3>2 DEF Buffered
    <3> HIDE DEF K
    <3> QED BY <2>2, <3>1, <3>2, <3>3, SwitchKeeps
  <2>4. ASSUME NEW o, Sound(o), Quiet(m, o), n = returns(o, p, DEV_OK)
        PROVE  Sound(n) /\ Quiet(m, n)
    <3> HIDE DEF n
    <3>1. Free(o.k, p)
      BY <2>4 DEF Quiet
    <3>2. Sound(n) /\ Quiet(o, n)
      BY <1>2, <2>4, <3>1, ReturnsKeeps
    <3> QED BY <2>4, <3>2, QuietTwice
  <2>5. \/ n = returns(m, p, DEV_FAIL)
        \/ \E kbd \in K : n = returns([m EXCEPT !.d.kbd = kbd], p, DEV_OK)
    BY <2>1 DEF kbd_ioctl
  <2>6. ASSUME n = returns(m, p, DEV_FAIL) PROVE Sound(n) /\ Quiet(m, n)
    <3> HIDE DEF n
    <3> QED BY <1>2, <2>6, ReturnsKeeps
  <2>7. ASSUME NEW kbd \in K, n = returns([m EXCEPT !.d.kbd = kbd], p, DEV_OK)
        PROVE  Sound(n) /\ Quiet(m, n)
    <3> DEFINE o == [m EXCEPT !.d.kbd = kbd]
    <3>1. Sound(o) /\ Quiet(m, o)
      BY <2>3
    <3>2. n = returns(o, p, DEV_OK)
      BY <2>7
    <3> HIDE DEF n, o
    <3> QED BY <2>4, <3>1, <3>2
  <2> QED BY <2>5, <2>6, <2>7
<1> QED BY <1>4, <1>5
-----------------------------------------------------------------------------
(* The keyboard driver.                                                    *)

\* A change of the keyboard and of its interrupt alone.
KbdSet(dm, kbd, on) == [dm EXCEPT !.kbd = kbd, !.irq = on]

\* The keyboard has the owner it had, and its interrupt is enabled while it
\* is on and not at its end.
Heard(dm, kbd, on) ==
  /\ kbd.state = dm.kbd.state /\ kbd.pcb = dm.kbd.pcb
  /\ on \in BOOLEAN
  /\ on <=> kbd.state /\ ~ kbd.eof_flag
  /\ ~ kbd.state => ~ kbd.eof_flag

\* A keyboard that keeps its owner can be filled, emptied and silenced.
LEMMA SwitchFramed ==
  ASSUME NEW km, NEW dm, Framed(km, dm), NEW kbd \in KbdMemory, Buffered(kbd), NEW on,
         Heard(dm, kbd, on)
  PROVE  LET e == KbdSet(dm, kbd, on) IN
         /\ Framed(km, e)
         /\ e.fdt = dm.fdt /\ e.kbd = kbd /\ e.irq = on
         /\ e.rc = dm.rc /\ e.text = dm.text /\ e.saved = dm.saved /\ e.request = dm.request
<1> DEFINE e == KbdSet(dm, kbd, on)
<1>1. dm \in DeviceMemory /\ Described(dm)
  BY DEF Framed
<1>2. /\ e \in DeviceMemory /\ e.fdt = dm.fdt /\ e.kbd = kbd /\ e.irq = on
      /\ e.rc = dm.rc /\ e.text = dm.text /\ e.saved = dm.saved /\ e.request = dm.request
  BY <1>1 DEF DeviceMemory, KbdSet, Heard
<1> HIDE DEF e
<1>3. Described(e)
  BY <1>1, <1>2 DEF Described, Refs, Heard
<1>4. ASSUME NEW q \in Slots PROVE Counted(km, e, q)
  <2>1. Counted(km, dm, q)
    BY DEF Framed
  <2> QED BY <1>2, <2>1 DEF Counted
<1>5. Framed(km, e)
  BY <1>2, <1>3, <1>4 DEF Framed
<1> QED BY <1>2, <1>5 DEF e

\* How many characters buf_copy moves, and why it stops there.
LEMMA CopyLength ==
  ASSUME NEW kbd \in KbdMemory, NEW n \in Nat
  PROVE  LET len == buf_copy(kbd, n) IN
         /\ len \in Nat /\ len <= n /\ len <= Len(kbd.buf)
         /\ \/ len = n
            \/ len = Len(kbd.buf)
            \/ len >= 1 /\ kbd.buf[len] = "newline"
            \/ len >= 1 /\ kbd.buf[len] = kbd.eof /\ kbd.eof_flag
<1> DEFINE b == Len(kbd.buf)
           all == Least({n, b})
           ends == {i \in 1 .. all : \/ kbd.buf[i] = "newline"
                                     \/ kbd.buf[i] = kbd.eof /\ kbd.eof_flag}
           len == Least({all} \cup ends)
<1>1. b \in Nat
  BY DEF KbdMemory
<1>2. all \in {n, b} /\ all <= n /\ all <= b
  <2> HIDE DEF b
  <2>1. {n, b} \in SUBSET Nat /\ {n, b} # {}
    BY <1>1
  <2> QED BY <2>1, LeastElement
<1> HIDE DEF all
<1>3. len \in {all} \cup ends /\ len <= all
  <2>1. {all} \cup ends \in SUBSET Nat /\ {all} \cup ends # {}
    BY <1>1, <1>2
  <2> HIDE DEF ends
  <2> QED BY <2>1, LeastElement
<1>4. buf_copy(kbd, n) = len
  BY DEF buf_copy, all
<1> HIDE DEF len
<1>5. len \in Nat /\ len <= n /\ len <= b
  BY <1>1, <1>2, <1>3
<1>6. CASE len = all
  BY <1>2, <1>4, <1>5, <1>6
<1>7. CASE len \in ends
  BY <1>4, <1>5, <1>7
<1> QED BY <1>3, <1>6, <1>7

\* What concatenation gives.
LEMMA Joined ==
  ASSUME NEW C, NEW a \in Seq(C), NEW s \in Seq(C)
  PROVE  /\ Behind(a, s) \in Seq(C) /\ Len(Behind(a, s)) = Len(a) + Len(s)
         /\ \A i \in 1 .. Len(s) : Behind(a, s)[Len(a) + i] = s[i]
<1>1. /\ Len(a) \in Nat /\ Len(s) \in Nat
      /\ a \o s \in Seq(C) /\ Len(a \o s) = Len(a) + Len(s)
      /\ \A i \in 1 .. Len(a) + Len(s) :
           (a \o s)[i] = IF i <= Len(a) THEN a[i] ELSE s[i - Len(a)]
  BY ConcatProperties, LenProperties
<1> DEFINE x == a \o s
<1> HIDE DEF x
<1>2. ASSUME NEW i \in 1 .. Len(s) PROVE x[Len(a) + i] = s[i]
  <2> DEFINE j == Len(a) + i
  <2>1. j \in 1 .. Len(a) + Len(s) /\ ~ (j <= Len(a)) /\ j - Len(a) = i
    BY <1>1
  <2> HIDE DEF j
  <2>2. x[j] = s[i]
    BY <1>1, <2>1 DEF x
  <2> QED BY <2>2 DEF j
<1> QED BY <1>1, <1>2 DEF x, Behind

\* Two sequences behind one another behind a third.
LEMMA Regrouped ==
  ASSUME NEW C, NEW a \in Seq(C), NEW u \in Seq(C), NEW v \in Seq(C)
  PROVE  Behind(Behind(a, u), v) = Behind(a, Behind(u, v))
BY ConcatAssociative DEF Behind

\* Characters that go from the front of one sequence to the end of another.
LEMMA CutJoins ==
  ASSUME NEW C, NEW a \in Seq(C), NEW s \in Seq(C), NEW n \in Nat, n <= Len(s)
  PROVE  Behind(Behind(a, SubSeq(s, 1, n)), SubSeq(s, n + 1, Len(s))) = Behind(a, s)
<1> DEFINE u == SubSeq(s, 1, n)
           v == SubSeq(s, n + 1, Len(s))
<1>1. Len(s) \in Nat
  OBVIOUS
<1>2. 1 \in 1 .. Len(s) + 1 /\ n \in 1 - 1 .. Len(s) /\ Len(s) \in n .. Len(s)
  BY <1>1
<1>3. Behind(u, v) = s
  BY <1>2, ConcatAdjacentSubSeq, SubSeqFull DEF Behind
<1>4. u \in Seq(C)
  BY <1>1
<1>5. v \in Seq(C)
  <2>1. n + 1 \in Int /\ Len(s) \in Int
    BY <1>1
  <2>2. ASSUME NEW i \in n + 1 .. Len(s) PROVE s[i] \in C
    <3>1. i \in 1 .. Len(s)
      BY <1>1
    <3> QED BY <3>1, ElementOfSeq
  <2> QED BY <2>1, <2>2, SubSeqProperties
<1> HIDE DEF u, v
<1>6. Behind(Behind(a, u), v) = Behind(a, Behind(u, v))
  BY <1>4, <1>5, Regrouped
<1> QED BY <1>3, <1>6 DEF u, v

\* What is behind the first part of a sequence.
LEMMA BehindFirst ==
  ASSUME NEW C, NEW a \in Seq(C), NEW s \in Seq(C)
  PROVE  SubSeq(Behind(a, s), Len(a) + 1, Len(Behind(a, s))) = s
<1> DEFINE x == Behind(a, s)
<1>1. Len(a) \in Nat /\ Len(s) \in Nat /\ Len(x) = Len(a) + Len(s)
  BY Joined, LenProperties
<1> HIDE DEF x
<1>2. CASE s = << >>
  <2>1. Len(s) = 0
    BY <1>2
  <2>2. Len(a) + 1 \in Int /\ Len(x) \in Int /\ Len(x) < Len(a) + 1
    BY <1>1, <2>1
  <2> QED BY <1>2, <2>2, SubSeqEmpty DEF x
<1>3. CASE s # << >>
  <2>1. Len(s) # 0
    BY <1>3, EmptySeq
  <2>2. /\ Len(a) + 1 \in Len(a) + 1 .. Len(a) + Len(s)
        /\ Len(a) + Len(s) \in Len(a) + 1 .. Len(a) + Len(s)
    BY <1>1, <2>1
  <2>3. SubSeq(x, Len(a) + 1, Len(a) + Len(s)) =
          SubSeq(s, (Len(a) + 1) - Len(a), (Len(a) + Len(s)) - Len(a))
    BY <2>2, SubSeqOfConcat2 DEF x, Behind
  <2>4. (Len(a) + 1) - Len(a) = 1 /\ (Len(a) + Len(s)) - Len(a) = Len(s)
    BY <1>1
  <2> QED BY <1>1, <2>3, <2>4, SubSeqFull DEF x
<1> QED BY <1>2, <1>3

\* A character that is appended to the second of two sequences.
LEMMA AppendBehind ==
  ASSUME NEW C, NEW a \in Seq(C), NEW s \in Seq(C), NEW c \in C
  PROVE  Append(Behind(a, s), c) = Behind(a, Append(s, c))
<1>1. Behind(a, s) \in Seq(C) /\ << c >> \in Seq(C)
  BY Joined
<1>2. Append(Behind(a, s), c) = Behind(Behind(a, s), << c >>)
  BY <1>1, AppendIsConcat DEF Behind
<1>3. Append(s, c) = Behind(s, << c >>)
  BY AppendIsConcat DEF Behind
<1> DEFINE e == << c >>
<1>4. e \in Seq(C)
  BY <1>1
<1> HIDE DEF e
<1>5. Behind(Behind(a, s), e) = Behind(a, Behind(s, e))
  BY <1>4, Regrouped
<1> QED BY <1>2, <1>3, <1>5 DEF e

\* What give puts into the buffer of a read, and what it leaves behind.
GivenText(old, kbd, n) ==
  SubSeq(old, 1, Len(old)) \o SubSeq(kbd.buf, 1, buf_copy(kbd, n - Len(old)))
GivenRest(old, kbd, n) == SubSeq(kbd.buf, buf_copy(kbd, n - Len(old)) + 1, Len(kbd.buf))

\* The reader's buffer is not overrun, what is left still fits the driver's,
\* and only a full buffer, a line or the end of the input stops the copy.
LEMMA GivenFits ==
  ASSUME NEW old \in Seq(Chars), NEW n \in Nat, Len(old) <= n,
         NEW kbd \in KbdMemory, Buffered(kbd)
  PROVE  LET t == GivenText(old, kbd, n)
             rest == GivenRest(old, kbd, n)
             left == [kbd EXCEPT !.buf = rest]
         IN  /\ t \in Seq(Chars) /\ Len(t) <= n
             /\ left \in KbdMemory /\ Buffered(left)
             /\ Behind(t, rest) = Behind(old, kbd.buf)
             /\ kbd.eof \notin Keys =>
                  \/ Len(t) = n
                  \/ t # << >> /\ t[Len(t)] = "newline"
                  \/ rest = << >>
<1> DEFINE at == Len(old)
           len == buf_copy(kbd, n - at)
           t == GivenText(old, kbd, n)
           rest == GivenRest(old, kbd, n)
           left == [kbd EXCEPT !.buf = rest]
           b == kbd.buf
<1>1. at \in Nat /\ n - at \in Nat /\ b \in Seq(Chars) /\ Len(b) \in Nat
  BY DEF KbdMemory
<1>2. /\ len \in Nat /\ len <= n - at /\ len <= Len(b)
      /\ \/ len = n - at
         \/ len = Len(b)
         \/ len >= 1 /\ b[len] = "newline"
         \/ len >= 1 /\ b[len] = kbd.eof /\ kbd.eof_flag
  <2> HIDE DEF at
  <2> QED BY <1>1, CopyLength
<1>3. t = SubSeq(old, 1, at) \o SubSeq(b, 1, len) /\ rest = SubSeq(b, len + 1, Len(b))
  BY DEF GivenText, GivenRest
<1>4. \A i \in Int : i < Len(b) /\ i >= 1 => b[i] \in Keys
  BY DEF Buffered
<1>4a. kbd.eof_flag = FALSE => \A i \in 1 .. Len(b) : b[i] \in Keys
  BY DEF Buffered
<1> HIDE DEF len, t, rest
<1> DEFINE C == Chars
<1> HIDE DEF C
<1>5. old \in Seq(C) /\ b \in Seq(C)
  BY <1>1 DEF C
<1> HIDE DEF b
<1>6. /\ SubSeq(old, 1, at) = old
      /\ SubSeq(b, 1, len) \in Seq(C) /\ Len(SubSeq(b, 1, len)) = len
      /\ \A i \in 1 .. len : SubSeq(b, 1, len)[i] = b[i]
  BY <1>1, <1>2, <1>5
<1>7. /\ rest \in Seq(C) /\ Len(rest) = Len(b) - len
      /\ \A i \in 1 .. Len(b) - len : rest[i] = b[len + i]
  BY <1>1, <1>2, <1>3, <1>5
<1>8. t \in Seq(C) /\ Len(t) = at + len /\ (len >= 1 => t[at + len] = b[len])
  <2> DEFINE s == SubSeq(b, 1, len)
  <2>1. s \in Seq(C) /\ Len(s) = len /\ t = Behind(old, s)
    BY <1>3, <1>6 DEF Behind
  <2>2. len >= 1 => len \in 1 .. len /\ s[len] = b[len]
    BY <1>2, <1>6
  <2> HIDE DEF s
  <2>3. /\ Behind(old, s) \in Seq(C) /\ Len(Behind(old, s)) = Len(old) + Len(s)
        /\ \A i \in 1 .. Len(s) : Behind(old, s)[Len(old) + i] = s[i]
    BY <1>5, <2>1, Joined
  <2> QED BY <2>1, <2>2, <2>3
<1>8a. Behind(t, rest) = Behind(old, b)
  <2>1. t = Behind(old, SubSeq(b, 1, len)) /\ rest = SubSeq(b, len + 1, Len(b))
    BY <1>3, <1>6 DEF Behind
  <2> QED BY <1>2, <1>5, <2>1, CutJoins
<1>9. left \in KbdMemory /\ left.buf = rest /\ left.eof_flag = kbd.eof_flag
  BY <1>7 DEF KbdMemory, C
<1>10. Buffered(left)
  <2>1. Len(rest) <= BUF_LEN
    <3>1. Len(b) <= BUF_LEN /\ BUF_LEN \in Nat
      BY DevicesAssumption DEF Buffered, b
    <3> QED BY <1>1, <1>2, <1>7, <3>1
  <2>2. ASSUME NEW i \in 1 .. Len(rest), i < Len(rest) \/ ~ kbd.eof_flag
        PROVE  rest[i] \in Keys
    <3>1. i \in 1 .. Len(b) - len /\ len + i \in 1 .. Len(b) /\ len + i \in Int
      BY <1>1, <1>2, <1>7
    <3>2. i < Len(rest) => len + i < Len(b) /\ len + i >= 1
      BY <1>1, <1>2, <1>7
    <3>3. rest[i] = b[len + i]
      BY <1>7, <3>1
    <3>4. kbd.eof_flag \in BOOLEAN
      BY DEF KbdMemory
    <3> QED BY <1>4, <1>4a, <2>2, <3>1, <3>2, <3>3, <3>4
  <2> QED BY <1>9, <2>1, <2>2 DEF Buffered
<1>11. ASSUME kbd.eof \notin Keys
       PROVE  Len(t) = n \/ (t # << >> /\ t[Len(t)] = "newline") \/ rest = << >>
  <2>1. CASE len = n - at
    BY <1>1, <1>8, <2>1
  <2>2. CASE len = Len(b)
    <3>1. Len(rest) = 0
      BY <1>1, <1>7, <2>2
    <3> QED BY <1>7, <3>1
  <2>3. CASE len >= 1 /\ b[len] = "newline"
    <3>1. Len(t) = at + len /\ t[at + len] = "newline" /\ Len(t) # 0
      BY <1>1, <1>2, <1>8, <2>3
    <3> QED BY <3>1
  <2>4. CASE len >= 1 /\ b[len] = kbd.eof /\ kbd.eof_flag
    <3>1. ~ (len < Len(b))
      BY <1>2, <1>4, <1>11, <2>4
    <3>2. len = Len(b)
      BY <1>1, <1>2, <3>1
    <3> QED BY <2>2, <3>2
  <2> QED BY <1>2, <2>1, <2>2, <2>3, <2>4
<1> QED BY <1>1, <1>2, <1>8, <1>8a, <1>9, <1>10, <1>11 DEF t, rest, C, at, b

\* The memory of the devices after the read of p in context c got t, and rest
\* is left.
Given(dm, p, c, t, rest) == Answered([dm EXCEPT !.kbd.buf = rest], p, c, Len(t), t)

\* A pair with another device memory.
WithDevices(m, dm) == [m EXCEPT !.d = dm]

\* give as one change: the reader's text and result, and the driver's buffer.
LEMMA GiveEffect ==
  ASSUME NEW m \in Machines, NEW p \in Slots, NEW c, NEW n, NEW old,
         old = m.d.text[p][c]
  PROVE  give(m, p, c, Len(old), n) =
           WithDevices(m, Given(m.d, p, c, GivenText(old, m.d.kbd, n), GivenRest(old, m.d.kbd, n)))
<1> DEFINE t == GivenText(old, m.d.kbd, n)
           rest == GivenRest(old, m.d.kbd, n)
           x == Len(t)
           buf == m.d.kbd.buf
           len == buf_copy(m.d.kbd, n - Len(old))
<1>1. t = SubSeq(m.d.text[p][c], 1, Len(old)) \o SubSeq(buf, 1, len)
  BY DEF GivenText
<1>2. rest = SubSeq(buf, len + 1, Len(buf))
  BY DEF GivenRest
<1>3. give(m, p, c, Len(old), n) =
        [[[m EXCEPT !.d.kbd.buf = rest] EXCEPT !.d.text[p][c] = t] EXCEPT !.d.rc[p] = x]
  BY <1>1, <1>2 DEF give
<1> HIDE DEF t, rest, x
<1>4. m.d \in DeviceMemory /\ m.d.kbd \in KbdMemory
  BY DEF Machines, DeviceMemory
<1> DEFINE e1 == [m.d EXCEPT !.kbd.buf = rest]
           e2 == [e1 EXCEPT !.text = [e1.text EXCEPT ![p] = [e1.text[p] EXCEPT ![c] = t]]]
           e3 == [e2 EXCEPT !.rc = [e2.rc EXCEPT ![p] = x]]
<1>5. [m EXCEPT !.d.kbd.buf = rest] = [m EXCEPT !.d = e1]
  BY DEF Machines
<1>6. e1.text = m.d.text /\ e1.rc = m.d.rc
  BY <1>4 DEF DeviceMemory
<1>7. e3 = Answered(e1, p, c, x, t)
  <2>1. e2.rc = e1.rc
    BY <1>4 DEF DeviceMemory
  <2>2. e3 = [[e1 EXCEPT !.text = [e1.text EXCEPT ![p] = [e1.text[p] EXCEPT ![c] = t]]]
                EXCEPT !.rc = [e1.rc EXCEPT ![p] = x]]
    BY <2>1
  <2> QED BY <1>4, <2>2 DEF Answered, DeviceMemory
<1> HIDE DEF e1
<1>8. [[m EXCEPT !.d = e1] EXCEPT !.d.text[p][c] = t] = [m EXCEPT !.d = e2]
  BY DEF Machines
<1> HIDE DEF e2
<1>9. [[m EXCEPT !.d = e2] EXCEPT !.d.rc[p] = x] = [m EXCEPT !.d = e3]
  BY DEF Machines
<1>10. give(m, p, c, Len(old), n) = [m EXCEPT !.d = Answered(e1, p, c, x, t)]
  BY <1>3, <1>5, <1>7, <1>8, <1>9
<1> QED BY <1>10 DEF Given, WithDevices, e1, x, t, rest

\* What give leaves, g, when p has read old and wants n characters.
Gives(m, p, old, n) ==
  /\ m \in Machines /\ Framed(m.k, m.d) /\ p \in Slots /\ m.k.state[p] \notin Suspended
  /\ old = m.d.text[p][context(m, p)] /\ old \in Seq(Chars)
  /\ n \in Nat /\ Len(old) <= n

Gave(m, p, n, t, rest, g) ==
  /\ g.k = m.k /\ g \in Machines /\ Framed(m.k, g.d)
  /\ g.d.kbd = [m.d.kbd EXCEPT !.buf = rest] /\ g.d.request = m.d.request
  /\ g.d.irq = m.d.irq /\ g.d.fdt = m.d.fdt
  /\ g.d.text[p][context(m, p)] = t /\ g.d.rc[p] = Len(t)
  /\ t \in Seq(Chars) /\ Len(t) <= n
  /\ Behind(t, rest) = Behind(m.d.text[p][context(m, p)], m.d.kbd.buf)
  /\ m.d.kbd.eof \notin Keys =>
       \/ Len(t) = n
       \/ t # << >> /\ t[Len(t)] = "newline"
       \/ rest = << >>

\* Giving p what there is keeps what is known, but for p's own request.
\* give, when the reader's count is the length of what it has.
LEMMA GiveFramed ==
  ASSUME NEW m, NEW p, NEW old, NEW n, Gives(m, p, old, n)
  PROVE  Gave(m, p, n, GivenText(old, m.d.kbd, n), GivenRest(old, m.d.kbd, n),
              give(m, p, context(m, p), Len(old), n))
<1> DEFINE t == GivenText(old, m.d.kbd, n)
           rest == GivenRest(old, m.d.kbd, n)
           c == context(m, p)
           g == give(m, p, c, Len(old), n)
           left == [m.d.kbd EXCEPT !.buf = rest]
           e1 == [m.d EXCEPT !.kbd.buf = rest]
           e == Given(m.d, p, c, t, rest)
<1>0. /\ m \in Machines /\ Framed(m.k, m.d) /\ p \in Slots /\ m.k.state[p] \notin Suspended
      /\ old = m.d.text[p][context(m, p)] /\ old \in Seq(Chars)
      /\ n \in Nat /\ Len(old) <= n
  BY DEF Gives
<1>1. /\ m.d \in DeviceMemory /\ m.d.kbd \in KbdMemory /\ Buffered(m.d.kbd) /\ m.k \in Memory
      /\ m.d.irq \in BOOLEAN /\ Described(m.d)
  BY <1>0 DEF Framed, Machines, DeviceMemory
<1>2. /\ t \in Seq(Chars) /\ Len(t) <= n /\ left \in KbdMemory /\ Buffered(left)
      /\ Behind(t, rest) = Behind(m.d.text[p][c], m.d.kbd.buf)
      /\ m.d.kbd.eof \notin Keys =>
           \/ Len(t) = n
           \/ t # << >> /\ t[Len(t)] = "newline"
           \/ rest = << >>
  BY <1>0, <1>1, GivenFits
<1>3. g = WithDevices(m, e)
  BY <1>0, GiveEffect
<1>4. e = Answered(e1, p, c, Len(t), t)
  BY DEF Given
<1> HIDE DEF t, rest, g, e
<1>5. left.state = m.d.kbd.state /\ left.pcb = m.d.kbd.pcb /\ left.eof_flag = m.d.kbd.eof_flag
  BY <1>1 DEF KbdMemory
<1>6. e1 = KbdSet(m.d, left, m.d.irq)
  BY <1>1 DEF DeviceMemory, KbdSet
<1> HIDE DEF left, e1
<1>7. /\ Framed(m.k, e1) /\ e1.fdt = m.d.fdt /\ e1.kbd = left /\ e1.irq = m.d.irq
      /\ e1.request = m.d.request
  <2>1. m.d.irq \in BOOLEAN
    BY <1>1 DEF DeviceMemory
  <2>2. Heard(m.d, left, m.d.irq)
    BY <1>1, <1>5, <2>1 DEF Described, Heard
  <2> QED BY <1>0, <1>1, <1>2, <1>5, <1>6, <2>2, SwitchFramed
<1>8. /\ Framed(m.k, e) /\ e.fdt = m.d.fdt /\ e.kbd = left /\ e.irq = m.d.irq
      /\ e.request = m.d.request
      /\ e.rc[p] = Len(t) /\ e.text[p][c] = t
  <2>1. c = Top(m.k, p) /\ Len(t) \in Int \cup {Other} /\ t \in Seq(Chars) \cup {NULL}
    <3>1. c = Top(m.k, p)
      BY DEF context, Top
    <3>2. t \in Seq(Chars)
      BY <1>2
    <3>3. Len(t) \in Int
      <4> DEFINE C == Chars
      <4>1. t \in Seq(C)
        BY <3>2
      <4> HIDE DEF C
      <4> QED BY <4>1
    <3> QED BY <3>1, <3>2, <3>3
  <2>2. Framed(m.k, e1) /\ m.k \in Memory
    BY <1>1, <1>7
  <2> HIDE DEF c
  <2>3. LET a == Answered(e1, p, Top(m.k, p), Len(t), t) IN
        /\ Framed(m.k, a) /\ a.fdt = e1.fdt /\ a.kbd = e1.kbd /\ a.irq = e1.irq
        /\ a.request = e1.request
        /\ a.rc[p] = Len(t) /\ a.text[p][Top(m.k, p)] = t
    BY <1>0, <2>1, <2>2, AnsweredFramed
  <2> QED BY <1>4, <1>7, <2>1, <2>3
<1>9. g.k = m.k /\ g.d = e /\ g \in Machines
  BY <1>0, <1>3, <1>8 DEF Machines, Framed, WithDevices
<1>10. /\ g.k = m.k /\ g \in Machines /\ Framed(m.k, g.d)
       /\ g.d.kbd = [m.d.kbd EXCEPT !.buf = rest] /\ g.d.request = m.d.request
       /\ g.d.irq = m.d.irq /\ g.d.fdt = m.d.fdt
       /\ g.d.text[p][c] = t /\ g.d.rc[p] = Len(t)
  BY <1>8, <1>9 DEF left
<1>11. Gave(m, p, n, t, rest, g)
  BY <1>2, <1>10 DEF Gave, c
<1> QED BY <1>11 DEF t, rest, g

\* The kernel memory when p blocks.
Blocked(km, p) == [km EXCEPT !.state = [km.state EXCEPT ![p] = "DEV_BLOCK"]]

\* Reading p's request before it blocks keeps what is known.
BlocksOn(m, p, c, n) ==
  [m EXCEPT !.k.state[p] = "DEV_BLOCK", !.d.request[p] = [buf |-> c, bufflen |-> n]]

\* p has read a part of the n characters it wants and waits for the others.
Partial(m, p, n) ==
  LET t == m.d.text[p][Top(m.k, p)] IN
  /\ m.k.pid[p] # 0 /\ m.d.kbd.state /\ m.d.kbd.pcb = p
  /\ t \in Seq(Chars) /\ m.d.rc[p] = Len(t) /\ Len(t) < n
  /\ m.d.kbd.eof \notin Keys =>
       /\ m.d.kbd.buf = << >> /\ ~ m.d.kbd.eof_flag
       /\ t # << >> => t[Len(t)] # "newline"

\* Blocking the one reader there can be.
LEMMA BlocksKeeps ==
  ASSUME NEW m \in Machines, Framed(m.k, m.d), NEW p \in Slots,
         \A q \in Slots : ~ Waits(m.k, q),
         NEW n \in Nat, Partial(m, p, n)
  PROVE  LET r == BlocksOn(m, p, Top(m.k, p), n)
         IN  /\ Sound(r) /\ r.k = Blocked(m.k, p)
             /\ r.d.kbd = m.d.kbd /\ r.d.rc = m.d.rc /\ r.d.text = m.d.text
             /\ r.d.request[p].buf = Top(m.k, p)
<1> DEFINE c == Top(m.k, p)
           t == m.d.text[p][c]
           rec == [buf |-> c, bufflen |-> n]
           req == [m.d.request EXCEPT ![p] = rec]
           r == BlocksOn(m, p, c, n)
           st == [m.k.state EXCEPT ![p] = "DEV_BLOCK"]
           km == Blocked(m.k, p)
           e == [m.d EXCEPT !.request = req]
<1>1. m.k \in Memory /\ m.d \in DeviceMemory /\ c \in Nat
  <2>1. m.k \in Memory /\ m.d \in DeviceMemory
    BY DEF Machines
  <2>2. Len(m.k.frames[p]) \in Nat
    BY <2>1 DEF Memory
  <2> QED BY <2>1, <2>2 DEF Top
<1>1a. /\ m.k.pid[p] # 0 /\ m.d.kbd.state /\ m.d.kbd.pcb = p
       /\ t \in Seq(Chars) /\ m.d.rc[p] = Len(t) /\ Len(t) < n
       /\ m.d.kbd.eof \notin Keys =>
            /\ m.d.kbd.buf = << >> /\ ~ m.d.kbd.eof_flag
            /\ t # << >> => t[Len(t)] # "newline"
  BY DEF Partial
<1>1b. c = Len(m.k.frames[p]) + 1 /\ t = m.d.text[p][c]
  BY DEF Top
<1> HIDE DEF c, t
<1>2. r = [[m EXCEPT !.k = km] EXCEPT !.d = e]
  <2>1. r = [m EXCEPT !.k.state[p] = "DEV_BLOCK", !.d.request[p] = rec]
    BY DEF BlocksOn
  <2> HIDE DEF rec, r
  <2> QED BY <2>1 DEF Machines, Blocked
<1>3. rec \in [buf : Nat, bufflen : Nat] /\ rec.buf = c /\ rec.bufflen = n
  BY <1>1
<1> HIDE DEF rec
<1>4. /\ req \in [Slots -> [buf : Nat, bufflen : Nat] \cup {NULL}]
      /\ req[p] = rec
  BY <1>1, <1>3 DEF DeviceMemory
<1>5. /\ st \in [Slots -> States] /\ st[p] = "DEV_BLOCK"
      /\ \A q \in Slots : q # p => st[q] = m.k.state[q]
  BY <1>1 DEF Memory, States
<1>5a. km = [m.k EXCEPT !.state = st]
  BY DEF Blocked
<1> HIDE DEF st, req, km
<1>6. km \in Memory /\ km.state = st /\ km.frames = m.k.frames /\ km.pid = m.k.pid
  BY <1>1, <1>5, <1>5a DEF Memory
<1>7. /\ e \in DeviceMemory /\ e.fdt = m.d.fdt /\ e.kbd = m.d.kbd /\ e.irq = m.d.irq
      /\ e.rc = m.d.rc /\ e.text = m.d.text /\ e.saved = m.d.saved /\ e.request = req
  BY <1>1, <1>4 DEF DeviceMemory
<1> HIDE DEF e
<1>8. r.k = km /\ r.d = e /\ r \in Machines
  BY <1>2, <1>6, <1>7 DEF Machines
<1> HIDE DEF r
<1>9. Described(e) /\ Buffered(e.kbd)
  <2>1. Described(m.d) /\ Buffered(m.d.kbd)
    BY DEF Framed
  <2>2. Refs(e) = Refs(m.d)
    BY <1>7 DEF Refs
  <2> QED BY <1>7, <2>1, <2>2 DEF Described
<1>10. ASSUME NEW q \in Slots PROVE Counted(km, e, q)
  <2>1. Counted(m.k, m.d, q)
    BY DEF Framed
  <2>2. km.state[q] \in Suspended => m.k.state[q] \in Suspended
    BY <1>5, <1>6 DEF Suspended
  <2> QED BY <1>6, <1>7, <2>1, <2>2 DEF Counted
<1>11. ASSUME NEW q \in Slots PROVE Requested(km, e, q)
  <2>1. CASE q # p
    BY <1>5, <1>6, <2>1 DEF Requested, Waits
  <2>2. CASE q = p
    <3>1. e.request[q] = rec /\ e.text[q][rec.buf] = t
      BY <1>1b, <1>3, <1>4, <1>7, <2>2
    <3>2. /\ rec.buf = Len(km.frames[q]) + 1 /\ rec \in [buf : Nat, bufflen : Nat]
          /\ Len(t) < rec.bufflen
      BY <1>1a, <1>1b, <1>3, <1>6, <2>2
    <3>3. km.pid[q] # 0 /\ e.kbd.state /\ e.kbd.pcb = q /\ e.rc[q] = Len(t)
      BY <1>1a, <1>6, <1>7, <2>2
    <3>4. e.kbd.eof \notin Keys =>
             /\ e.kbd.buf = << >>
             /\ ~ e.kbd.eof_flag
             /\ t # << >> => t[Len(t)] # "newline"
      BY <1>1a, <1>7
    <3> QED BY <1>1a, <3>1, <3>2, <3>3, <3>4 DEF Requested
  <2> QED BY <2>1, <2>2
<1>12. Sound(r) /\ r.k = km
  BY <1>6, <1>7, <1>8, <1>9, <1>10, <1>11 DEF Sound, Devised, Framed
<1>13. /\ r.d.kbd = m.d.kbd /\ r.d.rc = m.d.rc /\ r.d.text = m.d.text
       /\ r.d.request[p].buf = c
  BY <1>3, <1>4, <1>7, <1>8
<1> QED BY <1>12, <1>13 DEF r, rec, km, c, t

\* kbd_read: a reader blocks only on an empty driver, short of its line.
LEMMA KbdReadKeeps ==
  ASSUME NEW m, Sound(m), NEW p \in Slots, Free(m.k, p), m.k.pid[p] # 0,
         m.d.kbd.state, m.d.kbd.pcb = p, NEW n \in Nat
  PROVE  LET r == kbd_read(m, p, n) IN
         /\ Sound(r) /\ r.k \in {m.k, Blocked(m.k, p)}
         /\ r.d.kbd.state /\ r.d.kbd.pcb = p
         /\ Moved(<< >>, m.d.kbd.buf, r.k, r.d, p)
<1> DEFINE c == context(m, p)
           none == reads(m, p, << >>)
           t == GivenText(<< >>, none.d.kbd, n)
           rest == GivenRest(<< >>, none.d.kbd, n)
           given == give(none, p, c, 0, n)
           r == kbd_read(m, p, n)
           block == BlocksOn(given, p, c, n)
<1>1. /\ m \in Machines /\ m.k \in Memory /\ m.d \in DeviceMemory /\ Framed(m.k, m.d)
      /\ c = Top(m.k, p)
  BY DEF Sound, Devised, Machines, Framed, context, Top
<1>2. << >> \in Seq(Chars) /\ Len(<< >>) = 0
  OBVIOUS
<1>3. Sound(none) /\ none.k = m.k
  <2>1. ASSUME NEW u \in Seq(Chars), u = << >>
        PROVE  Sound(reads(m, p, u)) /\ reads(m, p, u).k = m.k
    BY ReadsKeeps DEF Quiet
  <2> HIDE DEF t, rest, given, r, block, c
  <2> QED BY <1>2, <2>1
<1>4. /\ none.d.text[p][c] = << >> /\ none.d.kbd = m.d.kbd /\ none.d.rc[p] = 0
      /\ none \in Machines /\ Framed(none.k, none.d)
  <2>1. ASSUME NEW u \in Seq(Chars), u = << >>
        PROVE  /\ reads(m, p, u).d.text[p][Top(m.k, p)] = u /\ reads(m, p, u).d.kbd = m.d.kbd
               /\ reads(m, p, u).d.rc[p] = Len(u)
    BY ReadsKeeps
  <2>2. none.d.text[p][Top(m.k, p)] = << >> /\ none.d.kbd = m.d.kbd /\ none.d.rc[p] = 0
    BY <1>2, <2>1
  <2> HIDE DEF none, c
  <2> QED BY <1>1, <1>3, <2>2 DEF Sound, Devised
<1>5. \A q \in Slots : ~ Waits(m.k, q)
  BY DEF Sound, Devised, Requested, Waits, Free
<1>6. context(none, p) = c
  BY <1>3 DEF context
<1> HIDE DEF none, c
<1>7. /\ given.k = m.k /\ given \in Machines /\ Framed(m.k, given.d)
      /\ given.d.kbd = [m.d.kbd EXCEPT !.buf = rest]
      /\ given.d.text[p][c] = t /\ given.d.rc[p] = Len(t)
      /\ t \in Seq(Chars) /\ Len(t) <= n
      /\ Behind(t, rest) = Behind(<< >>, m.d.kbd.buf)
      /\ m.d.kbd.eof \notin Keys =>
           \/ Len(t) = n
           \/ t # << >> /\ t[Len(t)] = "newline"
           \/ rest = << >>
  <2> DEFINE old == << >>
  <2>1. old = none.d.text[p][context(none, p)] /\ old \in Seq(Chars) /\ Len(old) <= n
    BY <1>2, <1>4, <1>6
  <2>2. none.k.state[p] \notin Suspended
    BY <1>3 DEF Free
  <2> DEFINE g == give(none, p, context(none, p), Len(old), n)
             u == GivenText(old, none.d.kbd, n)
             w == GivenRest(old, none.d.kbd, n)
  <2>3. g = given
    BY <1>2, <1>6
  <2>4. u = t /\ w = rest
    OBVIOUS
  <2> HIDE DEF old, given, t, rest
  <2>5. /\ g.k = none.k /\ g \in Machines /\ Framed(none.k, g.d)
        /\ g.d.kbd = [none.d.kbd EXCEPT !.buf = w]
        /\ g.d.text[p][context(none, p)] = u /\ g.d.rc[p] = Len(u)
        /\ u \in Seq(Chars) /\ Len(u) <= n
        /\ Behind(u, w) = Behind(none.d.text[p][context(none, p)], none.d.kbd.buf)
        /\ none.d.kbd.eof \notin Keys =>
             \/ Len(u) = n
             \/ u # << >> /\ u[Len(u)] = "newline"
             \/ w = << >>
    <3>1. Gives(none, p, old, n)
      BY <1>4, <2>1, <2>2 DEF Gives
    <3>2. Gave(none, p, n, u, w, g)
      BY <3>1, GiveFramed
    <3> QED BY <3>2 DEF Gave
  <2> QED BY <1>3, <1>4, <1>6, <2>3, <2>4, <2>5
<1>8. r = IF n = 0 \/ (m.d.kbd.eof_flag /\ m.d.kbd.buf = << >>) THEN none
          ELSE IF Done(given, p, c, n) THEN given ELSE block
  BY DEF kbd_read, none, c, BlocksOn
<1> HIDE DEF given, t, rest
<1>9. given.d.kbd.buf = rest /\ given.d.kbd.eof_flag = m.d.kbd.eof_flag
      /\ given.d.kbd.eof = m.d.kbd.eof /\ given.d.kbd.state = m.d.kbd.state
      /\ given.d.kbd.pcb = m.d.kbd.pcb
  BY <1>1, <1>7 DEF DeviceMemory, KbdMemory
<1>10. Sound(given)
  BY <1>5, <1>7 DEF Sound, Devised, Requested
<1>11. ASSUME ~ Done(given, p, c, n)
       PROVE  /\ Sound(block) /\ block.k = Blocked(m.k, p)
              /\ block.d.kbd = given.d.kbd /\ block.d.rc = given.d.rc
              /\ block.d.text = given.d.text /\ block.d.request[p].buf = c
  <2>1. /\ Len(t) # n
        /\ t # << >> => t[Len(t)] # "newline"
        /\ ~ (given.d.kbd.eof_flag /\ given.d.kbd.buf = << >>)
    BY <1>7, <1>11 DEF Done
  <2>2. Len(t) < n
    BY <1>7, <2>1
  <2>3. given.d.kbd.eof \notin Keys =>
           /\ given.d.kbd.buf = << >> /\ ~ given.d.kbd.eof_flag
           /\ t # << >> => t[Len(t)] # "newline"
    BY <1>7, <1>9, <2>1
  <2>4. c = Top(given.k, p) /\ given.k.pid[p] # 0 /\ given.d.kbd.state /\ given.d.kbd.pcb = p
    BY <1>1, <1>7, <1>9
  <2>5. \A q \in Slots : ~ Waits(given.k, q)
    BY <1>5, <1>7
  <2>6. Framed(given.k, given.d) /\ given \in Machines
    BY <1>7
  <2>7. Partial(given, p, n)
    BY <1>7, <2>2, <2>3, <2>4 DEF Partial
  <2>8. LET b == BlocksOn(given, p, Top(given.k, p), n)
        IN  /\ Sound(b) /\ b.k = Blocked(given.k, p)
            /\ b.d.kbd = given.d.kbd /\ b.d.rc = given.d.rc /\ b.d.text = given.d.text
            /\ b.d.request[p].buf = Top(given.k, p)
    BY <2>5, <2>6, <2>7, BlocksKeeps
  <2> QED BY <1>7, <2>4, <2>8
<1> HIDE DEF r, block
<1>12. r \in {none, given} \/ (r = block /\ ~ Done(given, p, c, n))
  BY <1>8
<1>13. Sound(r) /\ r.k \in {m.k, Blocked(m.k, p)}
  BY <1>3, <1>7, <1>10, <1>11, <1>12
<1>14. r.d.kbd.state /\ r.d.kbd.pcb = p
  BY <1>4, <1>9, <1>11, <1>12
<1>15. Moved(<< >>, m.d.kbd.buf, r.k, r.d, p)
  <2>1. CASE r = none
    BY <1>2, <1>3, <1>4, <1>5, <2>1 DEF Moved
  <2>2. CASE r = given
    BY <1>5, <1>7, <1>9, <2>2 DEF Moved
  <2>3. CASE r = block /\ ~ Done(given, p, c, n)
    <3>1. /\ r.d.kbd = given.d.kbd /\ r.d.rc[p] = Len(t)
          /\ r.d.request[p].buf = c /\ r.d.text[p][c] = t
      BY <1>7, <1>11, <2>3
    <3>2. t \in Seq(Chars) /\ Behind(t, rest) = Behind(<< >>, m.d.kbd.buf)
      BY <1>7
    <3>3. r.d.kbd.buf = rest
      BY <1>9, <3>1
    <3> QED BY <3>1, <3>2, <3>3 DEF Moved
  <2> QED BY <1>12, <2>1, <2>2, <2>3
<1> QED BY <1>13, <1>14, <1>15 DEF r

\* What p has read when it reads n characters of fd: keys, or nothing typed.
ReadOut(m, p, fd, n, r) ==
  IF n >= 0 /\ m.d.fdt[p][fd] = KEYBOARD
  THEN /\ m.d.kbd.state /\ m.d.kbd.pcb = p /\ r.d.kbd.state /\ r.d.kbd.pcb = p
       /\ Moved(<< >>, m.d.kbd.buf, r.k, r.d, p)
  ELSE Quiet(m, r)

\* di_read: only the owner reaches the keyboard driver.
LEMMA DiReadKeeps ==
  ASSUME NEW m, Sound(m), NEW p \in Slots, Free(m.k, p), m.k.pid[p] # 0,
         NEW fd \in Fds, NEW n \in Int
  PROVE  LET r == di_read(m, p, fd, n)
         IN  Sound(r) /\ r.k \in {m.k, Blocked(m.k, p)} /\ ReadOut(m, p, fd, n, r)
<1> DEFINE dev == DeviceOf(m, p, fd)
           r == di_read(m, p, fd, n)
<1>1. m.d \in DeviceMemory /\ Described(m.d)
  BY DEF Sound, Devised, Framed
<1>2. dev \in devtab \cup {NULL} /\ dev = m.d.fdt[p][fd]
  BY <1>1 DEF DeviceOf, DeviceMemory
<1>3. NULL \notin {ZERO, RAND, KEYBOARD} /\ ZERO # RAND /\ ZERO # KEYBOARD /\ RAND # KEYBOARD
  BY DevtabAssumption DEF devtab, ZERO, RAND, KEYBOARD
<1> DEFINE fail == returns(m, p, DEV_FAIL)
           zero == zero_read(m, p, n)
           rand == rand_read(m, p, n)
           kbd == kbd_read(m, p, n)
<1>4. r = CASE n < 0 \/ dev = NULL     -> fail
            [] n >= 0 /\ dev = ZERO     -> zero
            [] n >= 0 /\ dev = RAND     -> rand
            [] n >= 0 /\ dev = KEYBOARD -> kbd
  BY DEF di_read
<1>5. \/ (n < 0 \/ dev = NULL) /\ r = fail
      \/ n \in Nat /\ dev = ZERO /\ r = zero
      \/ n \in Nat /\ dev = RAND /\ r = rand
      \/ n \in Nat /\ dev = KEYBOARD /\ r = kbd
  <2> HIDE DEF dev, fail, zero, rand, kbd, r
  <2>1. CASE n < 0 \/ dev = NULL
    BY <1>3, <1>4, <2>1
  <2>2. CASE n >= 0 /\ dev # NULL
    <3>1. dev = ZERO \/ dev = RAND \/ dev = KEYBOARD
      BY <1>2, <2>2 DEF devtab
    <3>2. n \in Nat
      BY <1>3, <2>2
    <3> QED BY <1>4, <2>2, <3>1, <3>2
  <2> QED BY <2>1, <2>2
<1>6. ASSUME r = fail PROVE Sound(r) /\ Quiet(m, r)
  <2> HIDE DEF r
  <2>1. DEV_FAIL \in Int \cup {Other}
    BY DEF DEV_FAIL
  <2> QED BY <1>6, <2>1, ReturnsKeeps
<1>7. ASSUME n \in Nat, NEW t \in Seq(Chars), r = reads(m, p, t)
      PROVE  Sound(r) /\ Quiet(m, r)
  <2> HIDE DEF r
  <2> QED BY <1>7, ReadsKeeps
<1>8. ASSUME n \in Nat, dev = ZERO, r = zero PROVE Sound(r) /\ Quiet(m, r)
  <2> DEFINE t == [i \in 1 .. n |-> "zero"]
  <2>1. t \in Seq(Chars)
    BY <1>8 DEF Chars
  <2>2. r = reads(m, p, t)
    BY <1>8 DEF zero_read
  <2> HIDE DEF t, r
  <2> QED BY <1>7, <1>8, <2>1, <2>2
<1>9. ASSUME n \in Nat, dev = RAND, r = rand PROVE Sound(r) /\ Quiet(m, r)
  <2> DEFINE t == [i \in 1 .. n |-> IF (i - 1) % 4 < 2 THEN "random" ELSE "zero"]
  <2>1. t \in Seq(Chars)
    BY <1>9 DEF Chars
  <2>2. r = reads(m, p, t)
    BY <1>9 DEF rand_read
  <2> HIDE DEF t, r
  <2> QED BY <1>7, <1>9, <2>1, <2>2
<1>10. ASSUME n \in Nat, dev = KEYBOARD, r = kbd
       PROVE  Sound(r) /\ r.k \in {m.k, Blocked(m.k, p)} /\ ReadOut(m, p, fd, n, r)
  <2>1. << p, fd >> \in Refs(m.d)
    BY <1>2, <1>10 DEF Refs
  <2>2. m.d.kbd.state /\ m.d.kbd.pcb = p
    BY <1>1, <2>1 DEF Described
  <2> HIDE DEF r
  <2>3. /\ Sound(r) /\ r.k \in {m.k, Blocked(m.k, p)}
        /\ r.d.kbd.state /\ r.d.kbd.pcb = p
        /\ Moved(<< >>, m.d.kbd.buf, r.k, r.d, p)
    BY <1>10, <2>2, KbdReadKeeps
  <2>4. n >= 0 /\ m.d.fdt[p][fd] = KEYBOARD
    BY <1>2, <1>10
  <2>5. ReadOut(m, p, fd, n, r)
    BY <2>2, <2>3, <2>4 DEF ReadOut
  <2> QED BY <2>3, <2>5
<1>11. ASSUME Quiet(m, r), n < 0 \/ dev # KEYBOARD
       PROVE  r.k = m.k /\ ReadOut(m, p, fd, n, r)
  <2>1. ~ (n >= 0 /\ m.d.fdt[p][fd] = KEYBOARD)
    BY <1>2, <1>11
  <2> HIDE DEF r
  <2> QED BY <1>11, <2>1 DEF ReadOut, Quiet
<1> HIDE DEF r, fail, zero, rand, kbd, dev
<1>12. (n < 0 \/ dev = NULL) /\ r = fail =>
         Sound(r) /\ r.k \in {m.k, Blocked(m.k, p)} /\ ReadOut(m, p, fd, n, r)
  BY <1>3, <1>6, <1>11
<1>13. n \in Nat /\ dev = ZERO /\ r = zero =>
         Sound(r) /\ r.k \in {m.k, Blocked(m.k, p)} /\ ReadOut(m, p, fd, n, r)
  BY <1>3, <1>8, <1>11
<1>14. n \in Nat /\ dev = RAND /\ r = rand =>
         Sound(r) /\ r.k \in {m.k, Blocked(m.k, p)} /\ ReadOut(m, p, fd, n, r)
  BY <1>3, <1>9, <1>11
<1>15. n \in Nat /\ dev = KEYBOARD /\ r = kbd =>
         Sound(r) /\ r.k \in {m.k, Blocked(m.k, p)} /\ ReadOut(m, p, fd, n, r)
  BY <1>10
<1>16. Sound(r) /\ r.k \in {m.k, Blocked(m.k, p)} /\ ReadOut(m, p, fd, n, r)
  BY <1>5, <1>12, <1>13, <1>14, <1>15
<1> QED BY <1>16 DEF r

\* The driver's buffer after one more character.
LEMMA AppendBuffered ==
  ASSUME NEW kbd \in KbdMemory, Buffered(kbd), ~ kbd.eof_flag, Len(kbd.buf) # BUF_LEN,
         NEW char \in Chars, NEW flag \in BOOLEAN, char \in Keys \/ flag,
         NEW new \in KbdMemory, new.buf = Append(kbd.buf, char), new.eof_flag = flag
  PROVE  Buffered(new)
<1> DEFINE b == kbd.buf
           L == Len(b)
           C == Chars
<1>1. b \in Seq(C) /\ L \in Nat /\ L <= BUF_LEN /\ BUF_LEN \in Nat /\ char \in C
  BY DevicesAssumption DEF KbdMemory, Buffered
<1>2. ASSUME NEW i \in 1 .. L PROVE b[i] \in Keys
  BY DEF Buffered
<1> HIDE DEF C, b
<1>3. /\ Len(new.buf) = L + 1 /\ new.buf[L + 1] = char
      /\ \A i \in 1 .. L : new.buf[i] = b[i]
  BY <1>1 DEF b
<1>4. L + 1 <= BUF_LEN
  <2>1. L # BUF_LEN
    BY DEF b
  <2> HIDE DEF L
  <2> QED BY <1>1, <2>1
<1>5. ASSUME NEW i \in 1 .. L + 1, i < L + 1 \/ ~ flag PROVE new.buf[i] \in Keys
  <2>1. CASE i = L + 1
    BY <1>3, <1>5, <2>1
  <2>2. CASE i # L + 1
    <3>1. i \in 1 .. L
      BY <1>1, <2>2
    <3> QED BY <1>2, <1>3, <3>1
  <2> QED BY <2>1, <2>2
<1> HIDE DEF L
<1> QED BY <1>3, <1>4, <1>5 DEF Buffered

\* What the first half of the interrupt handler leaves as it was.
Accepts(m, a) ==
  /\ a \in Machines /\ a.k = m.k /\ Framed(a.k, a.d)
  /\ a.d.rc = m.d.rc /\ a.d.text = m.d.text /\ a.d.request = m.d.request
  /\ a.d.kbd.pcb = m.d.kbd.pcb /\ a.d.kbd.state /\ a.d.kbd.eof = m.d.kbd.eof
  /\ a = m \/ a.d.kbd.buf # << >>

\* The character that a key is stored as, and the buffer after the key.
KeyChar(kbd, c) == IF c = "CTRL_D" THEN kbd.eof ELSE c
KeyBuffer(kbd, c) ==
  IF Len(kbd.buf) = BUF_LEN \/ c = "none" THEN kbd.buf ELSE Append(kbd.buf, KeyChar(kbd, c))

\* accept: an interrupt comes only before the end of file, so there is room
\* for it to be the last character.
LEMMA AcceptEffect ==
  ASSUME NEW m, Sound(m), m.d.kbd.state, m.d.irq, NEW c \in Keys
  PROVE  Accepts(m, accept(m, c)) /\ accept(m, c).d.kbd.buf = KeyBuffer(m.d.kbd, c)
<1> DEFINE a == accept(m, c)
           char == IF c = "CTRL_D" THEN m.d.kbd.eof ELSE c
           flag == IF c = "CTRL_D" THEN TRUE ELSE m.d.kbd.eof_flag
           buf == Append(m.d.kbd.buf, char)
           new == [m.d.kbd EXCEPT !.buf = buf, !.eof_flag = flag]
           on == IF c = "CTRL_D" THEN FALSE ELSE m.d.irq
           e == KbdSet(m.d, new, on)
<1>1. /\ m \in Machines /\ m.d \in DeviceMemory /\ m.d.kbd \in KbdMemory
      /\ Framed(m.k, m.d) /\ Buffered(m.d.kbd) /\ ~ m.d.kbd.eof_flag
  BY DEF Sound, Devised, Framed, DeviceMemory, Described
<1>2. CASE Len(m.d.kbd.buf) = BUF_LEN \/ c = "none"
  <2>1. a = m
    BY <1>2 DEF accept
  <2>2. KeyBuffer(m.d.kbd, c) = m.d.kbd.buf
    BY <1>2 DEF KeyBuffer
  <2> QED BY <1>1, <2>1, <2>2 DEF Accepts
<1>3. CASE ~ (Len(m.d.kbd.buf) = BUF_LEN \/ c = "none")
  <2>1. a = WithDevices(m, e)
    <3>1. CASE c = "CTRL_D"
      <4>1. a = [enable_irq(m, TRUE) EXCEPT !.d.kbd.buf = Append(@, m.d.kbd.eof),
                                            !.d.kbd.eof_flag = TRUE]
        BY <1>3, <3>1 DEF accept
      <4> HIDE DEF a
      <4>2. enable_irq(m, TRUE) = [m EXCEPT !.d = [m.d EXCEPT !.irq = FALSE]]
        BY DEF enable_irq, Machines
      <4> DEFINE m2 == enable_irq(m, TRUE)
                 d2 == [m.d EXCEPT !.irq = FALSE]
      <4>3. d2.kbd = m.d.kbd
        BY <1>1 DEF DeviceMemory
      <4>4. m2.d = d2
        BY <1>1, <4>2 DEF Machines
      <4>5. a = [m2 EXCEPT !.d.kbd = [m.d.kbd EXCEPT !.buf = Append(@, m.d.kbd.eof),
                                                     !.eof_flag = TRUE]]
        <5> HIDE DEF m2, d2
        <5> QED BY <4>1, <4>3, <4>4 DEF m2
      <4>6. a = [m2 EXCEPT !.d.kbd = new]
        BY <3>1, <4>5
      <4> HIDE DEF new
      <4>7. a = [m EXCEPT !.d = [d2 EXCEPT !.kbd = new]]
        BY <4>2, <4>6 DEF Machines
      <4>8. [d2 EXCEPT !.kbd = new] = e
        BY <1>1, <3>1 DEF KbdSet, DeviceMemory
      <4> QED BY <4>7, <4>8 DEF WithDevices
    <3>2. CASE c # "CTRL_D"
      <4>1. a = [m EXCEPT !.d.kbd.buf = Append(@, c)]
        BY <1>3, <3>2 DEF accept
      <4> HIDE DEF a
      <4>2. new = [m.d.kbd EXCEPT !.buf = Append(m.d.kbd.buf, c)]
        BY <1>1, <3>2 DEF KbdMemory
      <4>3. e = [m.d EXCEPT !.kbd = new]
        BY <1>1, <3>2 DEF KbdSet, DeviceMemory
      <4> HIDE DEF e, new
      <4> QED BY <1>1, <4>1, <4>2, <4>3 DEF WithDevices, Machines
    <3> QED BY <3>1, <3>2
  <2>1a. buf = KeyBuffer(m.d.kbd, c)
    BY <1>3 DEF KeyBuffer, KeyChar
  <2>2. char \in Chars /\ flag \in BOOLEAN /\ on \in BOOLEAN /\ (char \in Keys \/ flag)
    BY <1>1 DEF Chars, KbdMemory, DeviceMemory
  <2>3. /\ on <=> ~ flag
        /\ on <=> m.d.kbd.state /\ ~ flag
    BY <1>1
  <2> HIDE DEF char, flag, on
  <2>4. buf \in Seq(Chars) /\ buf # << >>
    <3> DEFINE C == Chars
    <3>1. m.d.kbd.buf \in Seq(C) /\ char \in C
      BY <1>1, <2>2 DEF KbdMemory
    <3> HIDE DEF C
    <3>2. buf \in Seq(C) /\ Len(buf) = Len(m.d.kbd.buf) + 1 /\ Len(m.d.kbd.buf) \in Nat
      BY <3>1
    <3>3. Len(buf) # 0
      BY <3>2
    <3> QED BY <3>2, <3>3 DEF C
  <2>5. /\ new \in KbdMemory /\ new.buf = buf /\ new.eof_flag = flag
        /\ new.state = m.d.kbd.state /\ new.pcb = m.d.kbd.pcb /\ new.eof = m.d.kbd.eof
    <3> HIDE DEF buf
    <3> QED BY <1>1, <2>2, <2>4 DEF KbdMemory
  <2> HIDE DEF new
  <2>6. Buffered(new)
    BY <1>1, <1>3, <2>2, <2>5, AppendBuffered
  <2>7. /\ Framed(m.k, e) /\ e.kbd = new
        /\ e.rc = m.d.rc /\ e.text = m.d.text /\ e.request = m.d.request
    <3>1. Heard(m.d, new, on)
      BY <2>2, <2>3, <2>5 DEF Heard
    <3> HIDE DEF buf
    <3> QED BY <1>1, <2>5, <2>6, <3>1, SwitchFramed
  <2> HIDE DEF e, a, buf
  <2>8. a.k = m.k /\ a.d = e /\ a \in Machines
    BY <1>1, <2>1, <2>7 DEF WithDevices, Machines, Framed
  <2>9. Accepts(m, a) /\ a.d.kbd.buf = KeyBuffer(m.d.kbd, c)
    BY <2>1a, <2>4, <2>5, <2>7, <2>8 DEF Accepts
  <2> QED BY <2>9 DEF a
<1> QED BY <1>2, <1>3

\* The device memory does not mind which processes are ready or run.
LEMMA FramedMoves ==
  ASSUME NEW km, NEW kn, NEW dm, Framed(km, dm), kn.frames = km.frames,
         \A q \in Slots : kn.state[q] \in Suspended =>
           km.state[q] \in Suspended \/ dm.text[q][Top(km, q)] = NULL
  PROVE  Framed(kn, dm)
<1>1. ASSUME NEW q \in Slots PROVE Counted(kn, dm, q)
  <2>1. Counted(km, dm, q)
    BY DEF Framed
  <2> QED BY <2>1 DEF Counted, Top
<1> QED BY <1>1 DEF Framed

\* The only process that can wait is the owner of the keyboard.
LEMMA OwnerWaits ==
  ASSUME NEW m, Sound(m), NEW q \in Slots, Waits(m.k, q)
  PROVE  q = m.d.kbd.pcb
BY DEF Sound, Devised, Requested

\* wake: nobody waits after it.
LEMMA WakeKeeps ==
  ASSUME NEW g \in Machines, Framed(g.k, g.d), NEW p \in Slots, g.k.pid[p] # 0,
         \A q \in Slots \ {p} : ~ Waits(g.k, q)
  PROVE  LET w == wake(g, p)
         IN  /\ Sound(w) /\ w.k = ready(g.k, p)
             /\ w.d.kbd = g.d.kbd /\ w.d.rc = g.d.rc
             /\ \A q \in Slots : ~ Waits(w.k, q)
<1> DEFINE kn == ready(g.k, p)
           req == [g.d.request EXCEPT ![p] = NULL]
           dn == [g.d EXCEPT !.request = req]
           w == wake(g, p)
<1>1. g.k \in Memory /\ g.d \in DeviceMemory
  BY DEF Machines
<1>2. Readies(g.k, p, kn)
  BY <1>1, ReadyKeeps
<1> HIDE DEF kn
<1>3. w = [g EXCEPT !.k = kn, !.d = dn]
  BY <1>1 DEF wake, kn, Machines
<1>4. /\ kn \in Memory /\ kn.frames = g.k.frames
      /\ kn.state = [g.k.state EXCEPT ![p] = "READY"]
  BY <1>2 DEF Readies, Keeps
<1>5. /\ dn \in DeviceMemory /\ dn.fdt = g.d.fdt /\ dn.rc = g.d.rc /\ dn.saved = g.d.saved
      /\ dn.text = g.d.text /\ dn.kbd = g.d.kbd /\ dn.irq = g.d.irq
  BY <1>1 DEF DeviceMemory
<1> HIDE DEF dn
<1>6. Framed(g.k, dn)
  <2>1. ASSUME NEW q \in Slots PROVE Counted(g.k, dn, q)
    <3>1. Counted(g.k, g.d, q)
      BY DEF Framed
    <3> QED BY <1>5, <3>1 DEF Counted
  <2>2. Described(dn) /\ Buffered(dn.kbd)
    <3>1. Described(g.d) /\ Buffered(g.d.kbd)
      BY DEF Framed
    <3>2. Refs(dn) = Refs(g.d)
      BY <1>5 DEF Refs
    <3> QED BY <1>5, <3>1, <3>2 DEF Described
  <2> QED BY <1>5, <2>1, <2>2 DEF Framed
<1>7. \A q \in Slots : kn.state[q] \in {g.k.state[q], "READY"}
  BY <1>1, <1>4 DEF Memory
<1>8. Framed(kn, dn)
  <2>1. \A q \in Slots : kn.state[q] \in Suspended => g.k.state[q] \in Suspended
    BY <1>7 DEF Suspended
  <2> QED BY <1>4, <1>6, <2>1, FramedMoves
<1>9. \A q \in Slots : ~ Waits(kn, q)
  BY <1>1, <1>4 DEF Waits, Memory
<1>10. Devised(kn, dn)
  BY <1>8, <1>9 DEF Devised, Requested
<1>11. w \in Machines /\ w.k = kn /\ w.d = dn
  BY <1>3, <1>4, <1>5 DEF Machines
<1> HIDE DEF w
<1>12. /\ Sound(w) /\ w.k = kn /\ w.d.kbd = g.d.kbd /\ w.d.rc = g.d.rc
       /\ \A q \in Slots : ~ Waits(w.k, q)
  BY <1>5, <1>9, <1>10, <1>11 DEF Sound
<1> QED BY <1>12 DEF w, kn

\* What the owner of the keyboard has after the second half of the interrupt
\* handler.
ServeOut(a, s) ==
  LET p == a.d.kbd.pcb IN
  /\ p \in Slots /\ s.d.kbd.pcb = p /\ s.d.kbd.state
  /\ IF Waits(a.k, p)
     THEN /\ a.d.text[p][a.d.request[p].buf] \in Seq(Chars)
          /\ Moved(a.d.text[p][a.d.request[p].buf], a.d.kbd.buf, s.k, s.d, p)
     ELSE s = a

\* serve: whoever waits is the owner, and gets what is there.
LEMMA ServeKeeps ==
  ASSUME NEW m, Sound(m), NEW a, Accepts(m, a)
  PROVE  /\ Sound(serve(a)) /\ (serve(a).k = m.k \/ \E p \in Slots : serve(a).k = ready(m.k, p))
         /\ ServeOut(a, serve(a))
<1> DEFINE p == a.d.kbd.pcb
           r == a.d.request[p]
           g == give(a, p, r.buf, a.d.rc[p], r.bufflen)
<1>1. /\ a \in Machines /\ a.k = m.k /\ Framed(a.k, a.d) /\ Described(a.d)
      /\ a.d \in DeviceMemory /\ m \in Machines
      /\ a.d.rc = m.d.rc /\ a.d.text = m.d.text /\ a.d.request = m.d.request
      /\ p = m.d.kbd.pcb /\ a.d.kbd.eof = m.d.kbd.eof
      /\ a = m \/ a.d.kbd.buf # << >>
  BY DEF Accepts, Framed, Sound
<1>2. p \in Slots
  <2>1. PICK x \in Refs(a.d) : TRUE
    BY <1>1 DEF Described, Accepts
  <2> QED BY <1>1, <2>1 DEF Described, Refs
<1>3. ASSUME NEW q \in Slots, Waits(a.k, q) PROVE q = p
  BY <1>1, <1>3, OwnerWaits
<1>3a. p = a.d.kbd.pcb /\ a.d.kbd.state
  BY DEF Accepts
<1> HIDE DEF p
<1>4. CASE ~ Waits(a.k, p)
  <2>1. serve(a) = a
    BY <1>4 DEF serve, Waits, p
  <2>2. Devised(a.k, a.d)
    BY <1>1, <1>3, <1>4 DEF Devised, Requested
  <2>3. ServeOut(a, a)
    BY <1>2, <1>3a, <1>4 DEF ServeOut
  <2> QED BY <1>1, <2>1, <2>2, <2>3 DEF Sound
<1>5. CASE Waits(a.k, p) /\ a.d.kbd.buf = << >>
  <2>1. serve(a) = a
    BY <1>5 DEF serve, p
  <2> DEFINE old == a.d.text[p][r.buf]
  <2>2. a = m
    BY <1>1, <1>5
  <2>3. old \in Seq(Chars) /\ a.d.rc[p] = Len(old)
    <3>1. Requested(m.k, m.d, p)
      BY <1>2 DEF Sound, Devised
    <3> QED BY <1>5, <2>2, <3>1 DEF Requested
  <2>4. Moved(old, a.d.kbd.buf, a.k, a.d, p)
    BY <2>3 DEF Moved
  <2>5. ServeOut(a, a)
    BY <1>2, <1>3a, <1>5, <2>3, <2>4 DEF ServeOut
  <2> QED BY <2>1, <2>2, <2>5
<1>6. CASE Waits(a.k, p) /\ a.d.kbd.buf # << >>
  <2> DEFINE old == a.d.text[p][r.buf]
             n == r.bufflen
  <2>1. Requested(m.k, m.d, p)
    BY <1>2 DEF Sound, Devised
  <2>2. /\ m.k.pid[p] # 0 /\ m.d.kbd.state
        /\ r \in [buf : Nat, bufflen : Nat] /\ r.buf = Len(m.k.frames[p]) + 1
        /\ old \in Seq(Chars) /\ a.d.rc[p] = Len(old) /\ Len(old) < n
    BY <1>1, <1>6, <2>1 DEF Requested
  <2>1a. r = a.d.request[p] /\ old \in Seq(Chars) /\ old = a.d.text[p][a.d.request[p].buf]
    BY <2>2
  <2>3. r.buf = context(a, p) /\ r.buf = Top(a.k, p) /\ n \in Nat
    BY <1>1, <2>2 DEF context, Top
  <2>4. a.k.state[p] \notin Suspended
    BY <1>6 DEF Waits, Suspended
  <2>5. Len(old) <= n
    <3> DEFINE C == Chars
               nn == n
    <3>1. old \in Seq(C) /\ nn \in Nat /\ Len(old) < nn
      BY <2>2, <2>3
    <3> HIDE DEF C, old, nn
    <3>2. Len(old) <= nn
      BY <3>1
    <3> QED BY <3>2 DEF nn
  <2> DEFINE t == GivenText(old, a.d.kbd, n)
             rest == GivenRest(old, a.d.kbd, n)
  <2>6. g = give(a, p, context(a, p), Len(old), n)
    BY <2>2, <2>3
  <2> HIDE DEF t, rest, g
  <2>7. /\ g.k = a.k /\ g \in Machines /\ Framed(a.k, g.d)
        /\ g.d.kbd = [a.d.kbd EXCEPT !.buf = rest] /\ g.d.request = a.d.request
        /\ g.d.text[p][context(a, p)] = t /\ g.d.rc[p] = Len(t)
        /\ t \in Seq(Chars) /\ Len(t) <= n
        /\ Behind(t, rest) = Behind(old, a.d.kbd.buf)
        /\ a.d.kbd.eof \notin Keys =>
             \/ Len(t) = n
             \/ t # << >> /\ t[Len(t)] = "newline"
             \/ rest = << >>
    <3>1. old = a.d.text[p][context(a, p)]
      BY <2>3
    <3>2. a \in Machines /\ Framed(a.k, a.d) /\ old \in Seq(Chars) /\ n \in Nat
      BY <1>1, <2>2, <2>3
    <3>3. p \in Slots
      BY <1>2
    <3> HIDE DEF old, n, p
    <3>4. Gives(a, p, old, n)
      BY <2>4, <2>5, <3>1, <3>2, <3>3 DEF Gives
    <3>5. Gave(a, p, n, GivenText(old, a.d.kbd, n), GivenRest(old, a.d.kbd, n),
               give(a, p, context(a, p), Len(old), n))
      BY <3>4, GiveFramed
    <3>6. Gave(a, p, n, t, rest, g)
      BY <2>6, <3>5 DEF t, rest
    <3> QED BY <3>1, <3>6 DEF Gave
  <2>8. /\ g.d.kbd.buf = rest /\ g.d.kbd.eof_flag = a.d.kbd.eof_flag
        /\ g.d.kbd.eof = a.d.kbd.eof /\ g.d.kbd.state /\ g.d.kbd.pcb = p
    BY <1>1, <2>7 DEF DeviceMemory, KbdMemory, Accepts, p
  <2>9. \A q \in Slots \ {p} : ~ Waits(g.k, q)
    BY <1>3, <2>7
  <2>10. serve(a) = IF Done(g, p, r.buf, n) THEN wake(g, p) ELSE g
    BY <1>6 DEF serve, Waits, g, p
  <2> HIDE DEF r
  <2>11. CASE Done(g, p, r.buf, n)
    <3> DEFINE w == wake(g, p)
    <3>1. /\ Sound(w) /\ w.k = ready(g.k, p)
          /\ w.d.kbd = g.d.kbd /\ w.d.rc = g.d.rc /\ ~ Waits(w.k, p)
      <4>1. Framed(g.k, g.d) /\ g.k.pid[p] # 0
        BY <1>1, <2>2, <2>7
      <4> QED BY <1>2, <2>7, <2>9, <4>1, WakeKeeps
    <3>2. serve(a) = w
      BY <2>10, <2>11
    <3> HIDE DEF w
    <3>3. Moved(old, a.d.kbd.buf, w.k, w.d, p)
      <4>1. w.d.kbd.buf = rest /\ w.d.rc[p] = Len(t)
        BY <2>7, <2>8, <3>1
      <4> QED BY <2>7, <3>1, <4>1 DEF Moved
    <3>4. ServeOut(a, w)
      BY <1>2, <1>3a, <1>6, <2>1a, <2>8, <3>1, <3>3 DEF ServeOut
    <3> QED BY <1>1, <1>2, <2>7, <3>1, <3>2, <3>4
  <2>12. CASE ~ Done(g, p, r.buf, n)
    <3>1. g.d.text[p][r.buf] = t
      BY <2>3, <2>7
    <3>2. /\ Len(t) # n
          /\ t # << >> => t[Len(t)] # "newline"
          /\ ~ (g.d.kbd.eof_flag /\ g.d.kbd.buf = << >>)
      BY <2>12, <3>1 DEF Done
    <3>3. Len(t) < n
      BY <2>3, <2>7, <3>2
    <3>4. g.d.kbd.eof \notin Keys => g.d.kbd.buf = << >> /\ ~ g.d.kbd.eof_flag
      BY <2>7, <2>8, <3>2
    <3>5. g.d.request[p] = r
      BY <2>7 DEF r
    <3>6. Requested(g.k, g.d, p)
      <4>1. g.k.pid[p] # 0 /\ r.buf = Len(g.k.frames[p]) + 1
        BY <1>1, <2>2, <2>7
      <4> QED BY <2>2, <2>7, <2>8, <3>1, <3>2, <3>3, <3>4, <3>5, <4>1 DEF Requested
    <3>7. Devised(g.k, g.d)
      BY <2>7, <2>9, <3>6 DEF Devised, Requested
    <3>8. Moved(old, a.d.kbd.buf, g.k, g.d, p)
      <4>1. g.d.text[p][g.d.request[p].buf] = t
        BY <3>1, <3>5
      <4> QED BY <2>7, <2>8, <4>1 DEF Moved
    <3>9. ServeOut(a, g)
      BY <1>2, <1>3a, <1>6, <2>1a, <2>8, <3>8 DEF ServeOut
    <3> QED BY <1>1, <2>7, <2>10, <2>12, <3>7, <3>9 DEF Sound
  <2> QED BY <2>11, <2>12
<1> QED BY <1>4, <1>5, <1>6

\* KBD_INT: what a key does, whoever waits for it.
LEMMA KeyKeeps ==
  ASSUME NEW m, Sound(m), m.d.irq, NEW c \in Keys
  PROVE  LET n == kbdint_handler(m, c)
         IN  /\ Sound(n) /\ (n.k = m.k \/ \E p \in Slots : n.k = ready(m.k, p))
             /\ \E a : /\ Accepts(m, a) /\ a.d.kbd.buf = KeyBuffer(m.d.kbd, c)
                       /\ ServeOut(a, n)
<1> DEFINE a == accept(m, c)
<1>1. m.d.kbd.state
  BY DEF Sound, Devised, Framed, Described
<1>2. kbdint_handler(m, c) = serve(a)
  BY <1>1 DEF kbdint_handler
<1>3. Accepts(m, a) /\ a.d.kbd.buf = KeyBuffer(m.d.kbd, c)
  BY <1>1, AcceptEffect
<1> HIDE DEF a
<1> QED BY <1>2, <1>3, ServeKeeps
-----------------------------------------------------------------------------
(***************************************************************************)
(* The steps of the kernel proper.  Stays(m, S, n): no process enters or   *)
(* leaves a context, and only the running one is suspended, to a state of  *)
(* S, or stopped.                                                          *)
(***************************************************************************)
Stays(m, S, n) ==
  /\ n.pid = m.pid /\ n.frames = m.frames
  /\ \A q \in Slots :
       \/ n.stack[q] = m.stack[q] /\ n.state[q] \in {m.state[q], "READY", "RUNNING"}
       \/ n.stack[q] = m.stack[q] /\ q = m.pcb /\ n.state[q] \in S
       \/ ~ n.stack[q] /\ q = m.pcb /\ n.state[q] \in {"STOPPED", "RUNNING"}

\* What a step of the kernel is shown to keep.
Kept(km, dm) == Owned(km) /\ Devised(km, dm)

\* The turns of KernelEffects are such steps.
LEMMA TurnStays ==
  ASSUME NEW m, NEW S, NEW n, Turn(m, S, n) PROVE Stays(m, S, n)
BY DEF Turn, Keeps, Stays

\* A process that is suspended must have read nothing.
LEMMA StaysKeeps ==
  ASSUME NEW m, NEW dm, Kept(m, dm), NEW S, S \subseteq Suspended, NEW n, Stays(m, S, n),
         S = {} \/ dm.text[m.pcb][Top(m, m.pcb)] = NULL
  PROVE  Kept(n, dm)
<1>1. ASSUME NEW q \in Slots, n.state[q] \in Suspended
      PROVE  m.state[q] \in Suspended \/ dm.text[q][Top(m, q)] = NULL
  BY <1>1 DEF Stays, Suspended
<1>2. Framed(n, dm)
  BY <1>1, FramedMoves DEF Kept, Devised, Stays
<1>3. ASSUME NEW q \in Slots PROVE Requested(n, dm, q)
  <2>1. Requested(m, dm, q)
    BY DEF Kept, Devised
  <2>2. Waits(n, q) => Waits(m, q)
    BY DEF Stays, Waits, Suspended
  <2>3. n.pid = m.pid /\ n.frames = m.frames
    BY DEF Stays
  <2> QED BY <2>1, <2>2, <2>3 DEF Requested
<1>4. ASSUME NEW q \in Slots, n.state[q] = "STOPPED" PROVE ~ n.stack[q]
  BY <1>4 DEF Stays, Suspended, Kept, Owned
<1> QED BY <1>2, <1>3, <1>4 DEF Kept, Devised, Owned

\* Such a step lets what was typed pass.
LEMMA StaysPasses ==
  ASSUME NEW m, NEW S, S \subseteq Suspended, NEW n, Stays(m, S, n), NEW dm
  PROVE  Passes(m, dm, n, dm)
<1>1. ASSUME NEW q \in Slots, Waits(n, q) PROVE Waits(m, q)
  BY <1>1 DEF Stays, Waits, Suspended
<1> QED BY <1>1 DEF Passes

\* follow, when no process enters a handler and no stack is given out.
LEMMA FollowStays ==
  ASSUME k \in Memory, NEW dm, NEW n, n.frames = k.frames,
         \A q \in Slots : n.stack[q] => k.stack[q]
  PROVE  follow(dm, n) = dm
<1>1. {q \in Slots : Len(n.frames[q]) > Len(k.frames[q])} = {}
  <2>1. ASSUME NEW q \in Slots PROVE ~ (Len(n.frames[q]) > Len(k.frames[q]))
    <3>1. Len(k.frames[q]) \in Nat
      BY DEF Memory
    <3> QED BY <3>1
  <2> QED BY <2>1
<1>2. {q \in Slots : n.stack[q] /\ ~ k.stack[q]} = {}
  OBVIOUS
<1> QED BY <1>1, <1>2 DEF follow

\* interrupt: the result of the call that is broken off goes to the frame.
LEMMA InterruptFramed ==
  ASSUME NEW m \in Memory, m.state = k.state, NEW dm, Kept(m, dm), NEW p \in Slots,
         NEW s, NEW n, Interrupts(m, p, s, n)
  PROVE  LET e == interrupt(dm, p) IN Kept(n, e) /\ e.text[p][Top(n, p)] = NULL
<1> DEFINE x == IF m.state[p] \in Suspended THEN Other ELSE dm.rc[p]
           rc == [dm.rc EXCEPT ![p] = x]
           req == [dm.request EXCEPT ![p] = NULL]
           sp == Append(dm.saved[p], x)
           tp == Append(dm.text[p], NULL)
           saved == [dm.saved EXCEPT ![p] = sp]
           text == [dm.text EXCEPT ![p] = tp]
           e == interrupt(dm, p)
           L == Len(m.frames[p])
<1>1. /\ dm \in DeviceMemory /\ Described(dm) /\ Buffered(dm.kbd) /\ Counted(m, dm, p)
      /\ L \in Nat
  BY DEF Kept, Devised, Framed, Memory
<1>2. e = [dm EXCEPT !.rc = rc, !.request = req, !.saved = saved, !.text = text]
  BY <1>1 DEF interrupt, Suspended, DeviceMemory
<1>3. /\ n.pid = m.pid /\ n.stack = m.stack
      /\ \A q \in Slots : n.state[q] \in {m.state[q], "READY"}
      /\ m.pid[p] # 0 => n.state[p] \in {"READY", "RUNNING"}
  BY DEF Interrupts
<1>4. Len(n.frames[p]) = L + 1 /\ \A q \in Slots \ {p} : n.frames[q] = m.frames[q]
  <2> DEFINE F == [signum : Signals, prevSigShift : Nat]
             x1 == [signum |-> s, prevSigShift |-> Shift(m, p, s)]
  <2>1. n.frames = [m.frames EXCEPT ![p] = Append(@, x1)] /\ n \in Memory
    BY DEF Interrupts
  <2>2. m.frames \in [Slots -> Seq(F)]
    BY DEF Memory
  <2> HIDE DEF x1, F, L
  <2>3. n.frames[p] = Append(m.frames[p], x1)
    BY <2>1, <2>2
  <2>4. Len(n.frames[p]) = Len(m.frames[p]) + 1
    BY <2>2, <2>3
  <2> QED BY <2>1, <2>2, <2>4 DEF L
<1> DEFINE X == Int \cup {Other}
           T == Seq(Chars) \cup {NULL}
<1>5. /\ x \in X /\ dm.saved \in [Slots -> Seq(X)] /\ dm.text \in [Slots -> Seq(T)]
      /\ dm.rc \in [Slots -> X]
  BY <1>1 DEF DeviceMemory
<1>6. NULL \in T
  OBVIOUS
<1>7. /\ Len(dm.saved[p]) = L /\ Len(dm.text[p]) = L + 1
      /\ \A c \in 1 .. L : dm.text[p][c] # NULL => dm.saved[p][c] = Len(dm.text[p][c])
      /\ dm.text[p][L + 1] # NULL => x = Len(dm.text[p][L + 1])
  BY <1>1 DEF Counted
<1> HIDE DEF x, X, T, L
<1>8. /\ sp \in Seq(X) /\ Len(sp) = L + 1 /\ sp[L + 1] = x
      /\ \A c \in 1 .. L : sp[c] = dm.saved[p][c]
  BY <1>1, <1>5, <1>7
<1>9. /\ tp \in Seq(T) /\ Len(tp) = L + 2 /\ tp[L + 2] = NULL
      /\ \A c \in 1 .. L + 1 : tp[c] = dm.text[p][c]
  BY <1>1, <1>5, <1>6, <1>7
<1> HIDE DEF sp, tp
<1>10. /\ saved \in [Slots -> Seq(X)] /\ saved[p] = sp
       /\ text \in [Slots -> Seq(T)] /\ text[p] = tp
       /\ rc \in [Slots -> X]
       /\ \A q \in Slots \ {p} : /\ saved[q] = dm.saved[q] /\ text[q] = dm.text[q]
                                 /\ rc[q] = dm.rc[q] /\ req[q] = dm.request[q]
  BY <1>1, <1>5, <1>8, <1>9 DEF DeviceMemory
<1>11. req \in [Slots -> [buf : Nat, bufflen : Nat] \cup {NULL}]
  BY <1>1 DEF DeviceMemory
<1> HIDE DEF saved, text, rc, req, e
<1>12. /\ e \in DeviceMemory /\ e.rc = rc /\ e.request = req /\ e.saved = saved
       /\ e.text = text /\ e.fdt = dm.fdt /\ e.kbd = dm.kbd /\ e.irq = dm.irq
  BY <1>1, <1>2, <1>10, <1>11 DEF DeviceMemory, X, T
<1>13. Counted(n, e, p)
  <2>1. Len(e.saved[p]) = L + 1 /\ Len(e.text[p]) = L + 2 /\ e.text[p][L + 2] = NULL
    BY <1>8, <1>9, <1>10, <1>12
  <2>2. ASSUME NEW c \in 1 .. L + 1, e.text[p][c] # NULL
        PROVE  e.saved[p][c] = Len(e.text[p][c])
    <3>1. e.text[p][c] = dm.text[p][c] /\ e.saved[p] = sp
      BY <1>9, <1>10, <1>12
    <3>2. CASE c = L + 1
      BY <1>7, <1>8, <2>2, <3>1, <3>2
    <3>3. CASE c # L + 1
      <4>1. c \in 1 .. L
        BY <1>1, <3>3
      <4> QED BY <1>7, <1>8, <2>2, <3>1, <4>1
    <3> QED BY <3>2, <3>3
  <2>3. Len(n.frames[p]) + 1 = L + 2
    BY <1>1, <1>4
  <2> QED BY <1>4, <2>1, <2>2, <2>3 DEF Counted
<1>14. ASSUME NEW q \in Slots \ {p} PROVE Counted(n, e, q) /\ Requested(n, e, q)
  <2>1. Counted(m, dm, q) /\ Requested(m, dm, q)
    BY DEF Kept, Devised, Framed
  <2>2. /\ e.saved[q] = dm.saved[q] /\ e.text[q] = dm.text[q] /\ e.rc[q] = dm.rc[q]
        /\ e.request[q] = dm.request[q] /\ n.frames[q] = m.frames[q] /\ e.kbd = dm.kbd
    BY <1>4, <1>10, <1>12
  <2>3. n.state[q] \in Suspended => m.state[q] \in Suspended
    BY <1>3 DEF Suspended
  <2>4. Waits(n, q) => Waits(m, q)
    BY <1>3 DEF Waits
  <2>5. Counted(n, e, q)
    BY <2>1, <2>2, <2>3 DEF Counted
  <2> QED BY <1>3, <2>1, <2>2, <2>4, <2>5 DEF Requested
<1>15. Requested(n, e, p)
  <2>1. Requested(m, dm, p)
    BY DEF Kept, Devised
  <2>2. ~ Waits(n, p)
    BY <1>3, <2>1 DEF Requested, Waits
  <2> QED BY <2>2 DEF Requested
<1>16. Described(e) /\ Buffered(e.kbd)
  BY <1>1, <1>12 DEF Described, Refs
<1>17. Devised(n, e)
  BY <1>12, <1>13, <1>14, <1>15, <1>16 DEF Devised, Framed
<1>18. Owned(n)
  BY <1>3 DEF Kept, Owned
<1>19. e.text[p][Top(n, p)] = NULL
  <2>1. Top(n, p) = L + 2
    BY <1>1, <1>4 DEF Top
  <2> QED BY <1>9, <1>10, <1>12, <2>1
<1> QED BY <1>17, <1>18, <1>19 DEF Kept, e

\* A signal that breaks off a read leaves the count of what was read.
LEMMA InterruptPasses ==
  ASSUME NEW m \in Memory, m.state = k.state, NEW dm, Kept(m, dm), NEW p \in Slots,
         NEW s, NEW n, Interrupts(m, p, s, n)
  PROVE  Passes(m, dm, n, interrupt(dm, p))
<1> DEFINE x == IF m.state[p] \in Suspended THEN Other ELSE dm.rc[p]
           e == interrupt(dm, p)
<1>1. dm \in DeviceMemory /\ Requested(m, dm, p)
  BY DEF Kept, Devised, Framed
<1>2. e = [dm EXCEPT !.rc = [dm.rc EXCEPT ![p] = x],
                     !.request = [dm.request EXCEPT ![p] = NULL],
                     !.saved = [dm.saved EXCEPT ![p] = Append(@, x)],
                     !.text = [dm.text EXCEPT ![p] = Append(@, NULL)]]
  BY <1>1 DEF interrupt, Suspended, DeviceMemory
<1>3. Waits(m, p) => x = dm.rc[p]
  BY DEF Waits, Suspended
<1> HIDE DEF x, e
<1>4. /\ e.kbd = dm.kbd /\ e.rc[p] = x
      /\ \A q \in Slots \ {p} : /\ e.rc[q] = dm.rc[q] /\ e.text[q] = dm.text[q]
                                /\ e.request[q] = dm.request[q]
  BY <1>1, <1>2 DEF DeviceMemory
<1>5. /\ \A q \in Slots : n.state[q] \in {m.state[q], "READY"}
      /\ m.pid[p] # 0 => n.state[p] \in {"READY", "RUNNING"}
  BY DEF Interrupts
<1>6. \A q \in Slots : Waits(n, q) => Waits(m, q) /\ q # p
  <2>1. ~ Waits(n, p)
    BY <1>1, <1>5 DEF Requested, Waits
  <2> QED BY <1>5, <2>1 DEF Waits
<1>7. Passes(m, dm, n, e)
  BY <1>3, <1>4, <1>6 DEF Passes
<1> QED BY <1>7 DEF e

\* The least element of a set of one.
LEMMA LeastOfOne == ASSUME NEW p \in Nat PROVE Least({p}) = p
BY DEF Least

\* follow, when a signal interrupts p.
LEMMA FollowInterrupts ==
  ASSUME k \in Memory, NEW p \in Slots, NEW s, NEW n, Interrupts(k, p, s, n), NEW dm
  PROVE  follow(dm, n) = interrupt(dm, p)
<1> DEFINE x1 == [signum |-> s, prevSigShift |-> Shift(k, p, s)]
           hit == {q \in Slots : Len(n.frames[q]) > Len(k.frames[q])}
           F == [signum : Signals, prevSigShift : Nat]
<1>1. n.frames = [k.frames EXCEPT ![p] = Append(@, x1)] /\ k.frames \in [Slots -> Seq(F)]
  BY DEF Interrupts, Memory
<1> HIDE DEF x1, F
<1>2. n.frames[p] = Append(k.frames[p], x1) /\ \A q \in Slots \ {p} : n.frames[q] = k.frames[q]
  BY <1>1
<1>3. Len(n.frames[p]) = Len(k.frames[p]) + 1 /\ \A q \in Slots : Len(k.frames[q]) \in Nat
  BY <1>1, <1>2
<1>4. Len(n.frames[p]) > Len(k.frames[p])
  BY <1>3
<1>5. ASSUME NEW q \in Slots \ {p} PROVE ~ (Len(n.frames[q]) > Len(k.frames[q]))
  BY <1>2, <1>3
<1>6. hit = {p}
  BY <1>4, <1>5
<1> HIDE DEF hit
<1>7. Least(hit) = p /\ hit # {}
  BY <1>6, LeastOfOne, ConstantTypes
<1> QED BY <1>7 DEF follow, hit

\* A slot with its contexts cleared.
Cleared(dm, p) ==
  [dm EXCEPT !.saved = [dm.saved EXCEPT ![p] = << >>],
             !.text = [dm.text EXCEPT ![p] = << NULL >>]]

\* follow, when the slot p gets a process.
LEMMA FollowCreates ==
  ASSUME k \in Memory, Owned(k), NEW p \in Slots, NEW n, Creates(k, p, n),
         NEW dm \in DeviceMemory
  PROVE  follow(dm, n) = Cleared(dm, p)
<1> DEFINE hit == {q \in Slots : Len(n.frames[q]) > Len(k.frames[q])}
           born == {q \in Slots : n.stack[q] /\ ~ k.stack[q]}
<1>1. /\ n.frames = [k.frames EXCEPT ![p] = << >>]
      /\ n.stack = [k.stack EXCEPT ![p] = TRUE] /\ ~ k.stack[p]
      /\ k.stack \in [Slots -> BOOLEAN]
  BY DEF Creates, Owned, Memory
<1>2. ASSUME NEW q \in Slots PROVE Len(k.frames[q]) \in Nat
  BY DEF Memory
<1>3. ASSUME NEW q \in Slots PROVE ~ (Len(n.frames[q]) > Len(k.frames[q]))
  <2>1. CASE q = p
    <3>1. n.frames[q] = << >>
      BY <1>1, <2>1 DEF Memory
    <3>2. Len(n.frames[q]) = 0
      BY <3>1
    <3> QED BY <1>2, <3>2
  <2>2. CASE q # p
    <3>1. n.frames[q] = k.frames[q]
      BY <1>1, <2>2 DEF Memory
    <3> QED BY <1>2, <3>1
  <2> QED BY <2>1, <2>2
<1>4. hit = {}
  BY <1>3
<1>5. born = {p}
  BY <1>1
<1> HIDE DEF hit, born
<1>6. Least(born) = p
  BY <1>5, LeastOfOne, ConstantTypes
<1>7. follow(dm, n) = [dm EXCEPT !.saved[p] = << >>, !.text[p] = << NULL >>]
  BY <1>4, <1>5, <1>6 DEF follow, hit, born
<1> QED BY <1>7 DEF Cleared, DeviceMemory

\* A new process starts with no frame to save, no text and no request.
LEMMA CreatesKeeps ==
  ASSUME NEW m \in Memory, DistinctPids(m), NEW dm, Kept(m, dm), NEW p \in Slots,
         NEW n, Creates(m, p, n)
  PROVE  LET e == Cleared(dm, p) IN
         Kept(n, e) /\ \A q \in Slots \ {p} : e.text[q] = dm.text[q]
<1> DEFINE e == Cleared(dm, p)
<1>1. /\ dm \in DeviceMemory /\ Described(dm) /\ Buffered(dm.kbd)
  BY DEF Kept, Devised, Framed
<1>2. /\ n.frames = [m.frames EXCEPT ![p] = << >>]
      /\ n.stack = [m.stack EXCEPT ![p] = TRUE]
      /\ n.pid = [m.pid EXCEPT ![p] = m.pcb_id]
      /\ n.state = [m.state EXCEPT ![p] = "READY"]
      /\ m.stack \in [Slots -> BOOLEAN]
  BY DEF Creates, DistinctPids, Memory
<1> DEFINE X == Int \cup {Other}
           T == Seq(Chars) \cup {NULL}
<1>3. << >> \in Seq(X) /\ << NULL >> \in Seq(T)
  <2>1. NULL \in T
    OBVIOUS
  <2> HIDE DEF X, T
  <2> QED BY <2>1
<1>4. /\ e \in DeviceMemory /\ e.rc = dm.rc /\ e.request = dm.request
      /\ e.saved = [dm.saved EXCEPT ![p] = << >>]
      /\ e.text = [dm.text EXCEPT ![p] = << NULL >>]
      /\ e.fdt = dm.fdt /\ e.kbd = dm.kbd /\ e.irq = dm.irq
  BY <1>1, <1>3 DEF DeviceMemory, Cleared
<1> HIDE DEF e
<1>5. Counted(n, e, p)
  <2>1. e.saved[p] = << >> /\ e.text[p] = << NULL >> /\ n.frames[p] = << >>
    BY <1>1, <1>2, <1>4 DEF DeviceMemory, Memory
  <2>2. Len(e.saved[p]) = 0 /\ Len(n.frames[p]) = 0 /\ Len(e.text[p]) = 1 /\ e.text[p][1] = NULL
    BY <2>1
  <2> QED BY <2>2 DEF Counted
<1>6. ASSUME NEW q \in Slots \ {p} PROVE Counted(n, e, q) /\ Requested(n, e, q)
  <2>1. Counted(m, dm, q) /\ Requested(m, dm, q)
    BY DEF Kept, Devised, Framed
  <2>2. /\ e.saved[q] = dm.saved[q] /\ e.text[q] = dm.text[q]
        /\ n.frames[q] = m.frames[q] /\ n.state[q] = m.state[q] /\ n.pid[q] = m.pid[q]
    BY <1>1, <1>2, <1>4 DEF DeviceMemory, Memory
  <2>3. Counted(n, e, q)
    BY <1>4, <2>1, <2>2 DEF Counted
  <2>4. Waits(n, q) <=> Waits(m, q)
    BY <2>2 DEF Waits
  <2>5. e.request = dm.request /\ e.kbd = dm.kbd /\ e.rc = dm.rc
    BY <1>4
  <2>6. Requested(n, e, q)
    <3>1. CASE Waits(m, q)
      BY <2>1, <2>2, <2>5, <3>1 DEF Requested
    <3>2. CASE ~ Waits(m, q)
      BY <2>4, <3>2 DEF Requested
    <3> QED BY <3>1, <3>2
  <2> QED BY <2>3, <2>6
<1>7. Requested(n, e, p)
  BY <1>2 DEF Requested, Waits, Memory
<1>8. Described(e) /\ Buffered(e.kbd)
  BY <1>1, <1>4 DEF Described, Refs
<1>9. Devised(n, e)
  BY <1>4, <1>5, <1>6, <1>7, <1>8 DEF Devised, Framed
<1>10. Owned(n)
  BY <1>2 DEF Kept, Owned, Memory
<1>11. \A q \in Slots \ {p} : e.text[q] = dm.text[q]
  BY <1>1, <1>4 DEF DeviceMemory
<1> QED BY <1>9, <1>10, <1>11 DEF Kept, e

\* A new process has not waited.
LEMMA CreatesPasses ==
  ASSUME NEW m \in Memory, DistinctPids(m), NEW dm \in DeviceMemory, NEW p \in Slots,
         NEW n, Creates(m, p, n)
  PROVE  Passes(m, dm, n, Cleared(dm, p))
<1> DEFINE e == Cleared(dm, p)
<1>1. /\ e.rc = dm.rc /\ e.request = dm.request /\ e.kbd = dm.kbd
      /\ \A q \in Slots \ {p} : e.text[q] = dm.text[q]
  BY DEF DeviceMemory, Cleared
<1> HIDE DEF e
<1>2. n.state = [m.state EXCEPT ![p] = "READY"]
  BY DEF Creates, DistinctPids
<1>3. \A q \in Slots : Waits(n, q) => Waits(m, q) /\ q # p
  BY <1>2 DEF Waits, Memory
<1>4. Passes(m, dm, n, e)
  BY <1>1, <1>3 DEF Passes
<1> QED BY <1>4 DEF e

\* The running process waits for nothing.
LEMMA RunsFree ==
  ASSUME Runs PROVE k \in Memory /\ k.pcb \in Slots /\ Free(k, k.pcb) /\ ~ Waits(k, k.pcb)
BY DEF Runs, Active, Free, Waits, Suspended

\* The call has no text, whatever its result.
LEMMA AskedKeeps ==
  ASSUME NEW km \in Memory, NEW dm, Kept(km, dm), NEW p \in Slots, ~ Waits(km, p),
         NEW e, e = [dm EXCEPT !.text[p][Top(km, p)] = NULL]
  PROVE  Kept(km, e) /\ e.text[p][Top(km, p)] = NULL
<1>1. dm \in DeviceMemory /\ Framed(km, dm) /\ Devised(km, dm)
  BY DEF Kept, Devised, Framed
<1> DEFINE c == Top(km, p)
           f == Answered(dm, p, c, dm.rc[p], NULL)
           w == [dm.text EXCEPT ![p] = [dm.text[p] EXCEPT ![c] = NULL]]
<1>2. dm.rc[p] \in Int \cup {Other} /\ dm.rc = [dm.rc EXCEPT ![p] = dm.rc[p]]
  BY <1>1 DEF DeviceMemory
<1>3. e = f
  <2>1. e = [dm EXCEPT !.text = w]
    BY <1>1 DEF DeviceMemory
  <2>2. f = [dm EXCEPT !.rc = dm.rc, !.text = w]
    BY <1>2 DEF Answered
  <2> HIDE DEF w, f
  <2> QED BY <1>1, <2>1, <2>2 DEF DeviceMemory
<1>4. Devised(km, f)
  BY <1>1, <1>2, AnsweredKeeps
<1>5. f.text[p][c] = NULL
  BY <1>1, <1>2, AnsweredFramed
<1> HIDE DEF f
<1> QED BY <1>3, <1>4, <1>5 DEF Kept

\* The result of a call of the kernel proper is no count.
LEMMA OtherKeeps ==
  ASSUME NEW km \in Memory, NEW dm, Kept(km, dm), NEW p \in Slots, ~ Waits(km, p),
         dm.text[p][Top(km, p)] = NULL
  PROVE  Kept(km, [dm EXCEPT !.rc[p] = Other])
<1>1. dm \in DeviceMemory /\ Devised(km, dm) /\ Other \in Int \cup {Other}
  BY DEF Kept, Devised, Framed
<1> DEFINE c == Top(km, p)
           f == Answered(dm, p, c, Other, NULL)
           e == [dm EXCEPT !.rc[p] = Other]
<1>2. [dm.text EXCEPT ![p] = [dm.text[p] EXCEPT ![c] = NULL]] = dm.text
  <2>1. [dm.text[p] EXCEPT ![c] = NULL] = dm.text[p]
    <3> DEFINE T == Seq(Chars) \cup {NULL}
               u == dm.text[p]
    <3>1. u \in Seq(T) /\ u[c] = NULL
      BY <1>1 DEF DeviceMemory
    <3> HIDE DEF T, u, c
    <3> QED BY <3>1 DEF u
  <2> QED BY <1>1, <2>1 DEF DeviceMemory
<1>3. e = f
  BY <1>1, <1>2 DEF Answered, DeviceMemory
<1>4. Devised(km, f)
  BY <1>1, AnsweredKeeps
<1> HIDE DEF f, e
<1>5. Kept(km, e)
  BY <1>3, <1>4 DEF Kept
<1> QED BY <1>5 DEF e

\* follow keeps what is known when it is applied to what the call asked.
Follows ==
  \A dm : Kept(k, dm) /\ dm.text[k.pcb][Top(k, k.pcb)] = NULL =>
    LET e == follow(dm, k') IN
    /\ Kept(k', e) /\ e.text[k.pcb][Top(k', k.pcb)] = NULL /\ ~ Waits(k', k.pcb)
    /\ Passes(k, dm, k', e)

\* Called: its three changes of the device memory, in the order of the code.
LEMMA CalledKeeps ==
  ASSUME Runs, Kept(k, d), Active(k'), Called, Follows
  PROVE  Kept(k', d') /\ Passes(k, d, k', d')
<1> DEFINE p == k.pcb
           asked == [d EXCEPT !.text[p][Top(k, p)] = NULL]
           e == follow(asked, k')
<1>1. d' = [e EXCEPT !.rc[p] = Other]
  BY DEF Called, context, Machine, Top
<1>2. k \in Memory /\ p \in Slots /\ ~ Waits(k, p) /\ k' \in Memory
  BY RunsFree DEF Active
<1>3. Kept(k, asked) /\ asked.text[p][Top(k, p)] = NULL
  BY <1>2, AskedKeeps
<1>4. /\ Kept(k', e) /\ e.text[p][Top(k', p)] = NULL /\ ~ Waits(k', p)
      /\ Passes(k, asked, k', e)
  <2> HIDE DEF asked
  <2> QED BY <1>3 DEF Follows
<1>5. d \in DeviceMemory /\ e \in DeviceMemory
  BY <1>4 DEF Kept, Devised, Framed
<1>6. /\ asked.kbd = d.kbd /\ asked.rc = d.rc /\ asked.request = d.request
      /\ \A q \in Slots \ {p} : asked.text[q] = d.text[q]
  BY <1>5 DEF DeviceMemory
<1> HIDE DEF asked, e, p
<1>7. /\ d'.kbd = e.kbd /\ d'.request = e.request /\ d'.text = e.text
      /\ \A q \in Slots \ {p} : d'.rc[q] = e.rc[q]
  BY <1>1, <1>5 DEF DeviceMemory
<1>8. Passes(k, d, k', d')
  <2>1. /\ d'.kbd.buf = d.kbd.buf /\ d'.kbd.pcb = d.kbd.pcb /\ d'.kbd.state = d.kbd.state
    BY <1>4, <1>6, <1>7 DEF Passes
  <2>2. ASSUME NEW q \in Slots, q # p
        PROVE  /\ Waits(k', q) => Waits(k, q)
               /\ Waits(k, q) => d'.rc[q] = d.rc[q]
               /\ Waits(k', q) => d'.text[q] = d.text[q] /\ d'.request[q] = d.request[q]
    BY <1>4, <1>6, <1>7, <2>2 DEF Passes
  <2> QED BY <1>2, <1>4, <2>1, <2>2 DEF Passes
<1>9. Kept(k', d')
  BY <1>1, <1>2, <1>4, OtherKeeps
<1> QED BY <1>8, <1>9

\* Each kind of step of the kernel gives what CalledKeeps asks for.
LEMMA StaysFollows ==
  ASSUME Runs, NEW S, S \subseteq Suspended, Stays(k, S, k') PROVE Follows
<1> DEFINE p == k.pcb
<1>1. k \in Memory /\ p \in Slots /\ ~ Waits(k, p)
  BY RunsFree
<1>2. k'.frames = k.frames /\ \A q \in Slots : k'.stack[q] => k.stack[q]
  BY DEF Stays
<1>3. ~ Waits(k', p) /\ Top(k', p) = Top(k, p)
  BY <1>1 DEF Stays, Waits, Suspended, Top
<1>4. ASSUME NEW dm, Kept(k, dm), dm.text[p][Top(k, p)] = NULL
      PROVE  LET e == follow(dm, k')
             IN  Kept(k', e) /\ e.text[p][Top(k', p)] = NULL /\ Passes(k, dm, k', e)
  <2>1. follow(dm, k') = dm
    BY <1>1, <1>2, FollowStays
  <2>2. Kept(k', dm)
    BY <1>4, StaysKeeps
  <2>3. Passes(k, dm, k', dm)
    BY StaysPasses
  <2> QED BY <1>3, <1>4, <2>1, <2>2, <2>3
<1> QED BY <1>3, <1>4 DEF Follows

\* Turns that suspend the caller, or nobody.
LEMMA TurnFollows ==
  ASSUME Runs, Turn(k, {}, k') \/ Turn(k, Suspended, k') PROVE Follows
<1>1. CASE Turn(k, {}, k')
  <2>1. \E S : S \subseteq Suspended /\ Stays(k, S, k')
    BY <1>1, TurnStays
  <2> QED BY <2>1, StaysFollows
<1>2. CASE Turn(k, Suspended, k')
  BY <1>2, TurnStays, StaysFollows
<1> QED BY <1>1, <1>2

\* Calls that change nothing.
LEMMA SameFollows == ASSUME Runs, k' = k PROVE Follows
<1>1. \E S : S \subseteq Suspended /\ Stays(k, S, k')
  <2>1. Stays(k, {}, k')
    BY DEF Stays
  <2> QED BY <2>1
<1> QED BY <1>1, StaysFollows

\* SYS_CREATE: the new process is not the one that runs.
LEMMA CreatesFollows ==
  ASSUME Runs, DistinctPids(k), NEW p \in Slots, Creates(k, p, k') PROVE Follows
<1> DEFINE c == k.pcb
<1>1. k \in Memory /\ c \in Slots /\ ~ Waits(k, c) /\ Free(k, c)
  BY RunsFree
<1>2. c # p /\ k'.state[c] = k.state[c] /\ k'.frames[c] = k.frames[c]
  <2>1. k.state[c] \in {"RUNNING", "READY"} /\ k.state[p] = "STOPPED"
    BY DEF Runs, Active, Creates
  <2> QED BY <1>1, <2>1 DEF Creates, DistinctPids, Memory
<1>3. ASSUME NEW dm, Kept(k, dm), dm.text[c][Top(k, c)] = NULL
      PROVE  LET e == follow(dm, k')
             IN  Kept(k', e) /\ e.text[c][Top(k', c)] = NULL /\ Passes(k, dm, k', e)
  <2>1. dm \in DeviceMemory /\ Owned(k)
    BY <1>3 DEF Kept, Devised, Framed
  <2>2. follow(dm, k') = Cleared(dm, p)
    BY <1>1, <2>1, FollowCreates
  <2>3. Kept(k', Cleared(dm, p)) /\ \A q \in Slots \ {p} : Cleared(dm, p).text[q] = dm.text[q]
    BY <1>1, <1>3, CreatesKeeps
  <2>4. Passes(k, dm, k', Cleared(dm, p))
    BY <1>1, <2>1, CreatesPasses
  <2> QED BY <1>1, <1>2, <1>3, <2>2, <2>3, <2>4 DEF Top
<1>4. ~ Waits(k', c)
  BY <1>1, <1>2 DEF Waits
<1> QED BY <1>3, <1>4 DEF Follows

\* A signal that is remembered.
LEMMA RemembersStays ==
  ASSUME NEW m, NEW p, NEW s, NEW n, Remembers(m, p, s, n) PROVE Stays(m, {}, n)
BY DEF Remembers, Stays

\* SYS_KILL: also a process that signals itself.
LEMMA SignalledFollows ==
  ASSUME Runs, NEW id, NEW s, Signalled(k, id, s, k') PROVE Follows
<1>1. PICK p \in Slots : Remembers(k, p, s, k') \/ Interrupts(k, p, s, k')
  BY DEF Signalled
<1>2. CASE Remembers(k, p, s, k')
  <2>1. \E S : S \subseteq Suspended /\ Stays(k, S, k')
    BY <1>2, RemembersStays
  <2> QED BY <2>1, StaysFollows
<1>3. CASE Interrupts(k, p, s, k')
  <2> DEFINE c == k.pcb
  <2>1. k \in Memory /\ c \in Slots /\ ~ Waits(k, c)
    BY RunsFree
  <2>2. ~ Waits(k', c)
    BY <1>3, <2>1 DEF Interrupts, Waits
  <2>3. ASSUME NEW dm, Kept(k, dm), dm.text[c][Top(k, c)] = NULL
        PROVE  LET e == follow(dm, k')
               IN  Kept(k', e) /\ e.text[c][Top(k', c)] = NULL /\ Passes(k, dm, k', e)
    <3> DEFINE e == interrupt(dm, p)
    <3>1. follow(dm, k') = e
      BY <1>3, <2>1, FollowInterrupts
    <3>2. Kept(k', e) /\ e.text[p][Top(k', p)] = NULL /\ Passes(k, dm, k', e)
      BY <1>3, <2>1, <2>3, InterruptFramed, InterruptPasses
    <3>3. CASE c = p
      BY <3>1, <3>2, <3>3
    <3>4. CASE c # p
      <4>1. e.text[c] = dm.text[c]
        <5>1. dm \in DeviceMemory
          BY <2>3 DEF Kept, Devised, Framed
        <5> QED BY <2>1, <3>4, <5>1 DEF interrupt, DeviceMemory
      <4>2. Top(k', c) = Top(k, c)
        BY <1>3, <2>1, <3>4 DEF Interrupts, Top, Memory
      <4> HIDE DEF e
      <4> QED BY <2>3, <3>1, <3>2, <4>1, <4>2
    <3> QED BY <3>3, <3>4
  <2> QED BY <2>2, <2>3 DEF Follows
<1> QED BY <1>1, <1>2, <1>3

\* A new handler.
LEMMA HandlesStays ==
  ASSUME NEW m, NEW p, NEW T, NEW n, Handles(m, p, T, n) PROVE Stays(m, {}, n)
BY DEF Handles, Stays

\* SYS_SIGNAL.
LEMMA SetSignalFollows ==
  ASSUME Runs, NEW s \in Signals, NEW handler \in BOOLEAN, SetSignal(s, handler) PROVE Follows
<1>1. k' = k \/ \E T : Handles(k, k.pcb, T, k')
  BY RunsFree, SetSignalEffect DEF SetSignal
<1>2. ASSUME NEW T, Handles(k, k.pcb, T, k') PROVE Follows
  <2>1. \E S : S \subseteq Suspended /\ Stays(k, S, k')
    BY <1>2, HandlesStays
  <2> QED BY <2>1, StaysFollows
<1> QED BY <1>1, <1>2, SameFollows

\* Every call of the kernel proper.
LEMMA KernelCallKeeps ==
  ASSUME SleepsFit, Runs, DIInv, KernelCall PROVE DIInv' /\ Passes(k, d, k', d')
<1>0. Kept(k, d) /\ DistinctPids(k) /\ Active(k) /\ Called
  BY DEF DIInv, Kept, KernelCall
<1>1. Next
  BY DEF KernelCall, Next, OtherCall, OwnCall, KillUser
<1>2. Active(k') /\ DistinctPids(k')
  BY <1>0, <1>1, StepActive, StepPids
<1>3. Follows
  <2>1. CASE Create
    BY <1>0, <2>1, CreateActive, SameFollows, CreatesFollows
  <2>2. CASE SetPrio
    BY <2>2, SetPrioTurn, TurnFollows
  <2>3. CASE \E s \in Semaphores : P(s)
    BY <2>3, PTurn, TurnFollows
  <2>4. CASE \E s \in Semaphores : V(s)
    BY <2>4, VTurn, TurnFollows
  <2>5. CASE \E s \in Signals, handler \in BOOLEAN : SetSignal(s, handler)
    BY <2>5, SetSignalFollows
  <2>6. CASE \E id \in 0 .. MaxPid : Wait(id)
    BY <2>6, WaitTurn, TurnFollows
  <2>7. CASE KillUser
    <3>1. PICK id \in 1 .. MaxPid, s \in Signals : Kill(id, s)
      BY <2>7 DEF KillUser
    <3> QED BY <3>1, KillActive, SameFollows, SignalledFollows
  <2>8. CASE \E ms \in Millis : SysSleep(ms)
    BY <2>8, SleepTurn, TurnFollows DEF SleepsFit
  <2> QED BY <2>1, <2>2, <2>3, <2>4, <2>5, <2>6, <2>7, <2>8 DEF KernelCall
<1>4. Kept(k', d') /\ Passes(k, d, k', d')
  BY <1>0, <1>2, <1>3, CalledKeeps
<1> QED BY <1>2, <1>4 DEF DIInv, Kept

\* SYS_YIELD, SYS_STOP and the timer.
LEMMA SilentKeeps ==
  ASSUME SleepsFit, Runs, DIInv, Silent PROVE DIInv' /\ Passes(k, d, k', d')
<1>0. Kept(k, d) /\ DistinctPids(k) /\ Active(k) /\ d' = d
  BY DEF DIInv, Kept, Silent
<1>1. Next
  BY DEF Silent, Next, OtherCall, OwnCall
<1>2. Active(k') /\ DistinctPids(k')
  BY <1>0, <1>1, StepActive, StepPids
<1>3. Turn(k, {}, k')
  BY YieldTurn, StopStepTurn, TimerTurn DEF Silent
<1>4. Kept(k', d) /\ Passes(k, d, k', d)
  <2>1. ASSUME NEW S, S = {}
        PROVE  /\ S \subseteq Suspended
               /\ Stays(k, S, k') => Kept(k', d) /\ Passes(k, d, k', d)
    <3>1. S \subseteq Suspended
      BY <2>1
    <3>2. ASSUME Stays(k, S, k') PROVE Kept(k', d) /\ Passes(k, d, k', d)
      BY <1>0, <2>1, <3>1, <3>2, StaysKeeps, StaysPasses
    <3> QED BY <3>1, <3>2
  <2> QED BY <1>3, <2>1, TurnStays
<1> QED BY <1>0, <1>2, <1>4 DEF DIInv, Kept

\* The device memory when the handler on top of p is left.
Back(dm, p) ==
  LET n == Len(dm.saved[p])
  IN  [dm EXCEPT !.rc = [dm.rc EXCEPT ![p] = dm.saved[p][n]],
                 !.saved = [dm.saved EXCEPT ![p] = SubSeq(dm.saved[p], 1, n - 1)],
                 !.text = [dm.text EXCEPT ![p] = SubSeq(dm.text[p], 1, n)]]

\* Leaving a handler restores the result its frame has saved, which is the
\* count of the text below.
LEMMA BackKeeps ==
  ASSUME NEW m \in Memory, NEW dm, Kept(m, dm), NEW p \in Slots, Free(m, p),
         m.frames[p] # << >>, NEW b, Returns(m, p, b)
  PROVE  /\ Kept(b, Back(dm, p))
         /\ Len(m.frames[p]) \in Nat /\ Len(b.frames[p]) = Len(m.frames[p]) - 1
<1> DEFINE n == Len(dm.saved[p])
           s1 == SubSeq(dm.saved[p], 1, n - 1)
           t1 == SubSeq(dm.text[p], 1, n)
           x == dm.saved[p][n]
           rc == [dm.rc EXCEPT ![p] = x]
           saved == [dm.saved EXCEPT ![p] = s1]
           text == [dm.text EXCEPT ![p] = t1]
           e == Back(dm, p)
           X == Int \cup {Other}
           T == Seq(Chars) \cup {NULL}
           F == [signum : Signals, prevSigShift : Nat]
<1>1. /\ dm \in DeviceMemory /\ Described(dm) /\ Buffered(dm.kbd) /\ Counted(m, dm, p)
  BY DEF Kept, Devised, Framed
<1>2. /\ dm.saved[p] \in Seq(X) /\ dm.text[p] \in Seq(T) /\ m.frames[p] \in Seq(F)
      /\ n = Len(m.frames[p]) /\ Len(dm.text[p]) = n + 1
  BY <1>1 DEF DeviceMemory, Counted, Memory
<1>3. /\ b.pid = m.pid /\ b.stack = m.stack /\ b.state = m.state
      /\ b.frames = [m.frames EXCEPT ![p] = SubSeq(m.frames[p], 1, Len(m.frames[p]) - 1)]
  BY DEF Returns
<1> HIDE DEF X, T, F
<1>4. n \in Nat /\ n >= 1
  BY <1>2
<1>5. Len(b.frames[p]) = n - 1 /\ \A q \in Slots \ {p} : b.frames[q] = m.frames[q]
  <2>1. /\ b.frames[p] = SubSeq(m.frames[p], 1, n - 1)
        /\ \A q \in Slots \ {p} : b.frames[q] = m.frames[q]
    BY <1>2, <1>3 DEF Memory
  <2> QED BY <1>2, <1>4, <2>1
<1>6. /\ \A c \in 1 .. n : dm.text[p][c] # NULL => dm.saved[p][c] = Len(dm.text[p][c])
  BY <1>1, <1>2 DEF Counted
<1> HIDE DEF n
<1>7. /\ s1 \in Seq(X) /\ Len(s1) = n - 1 /\ x \in X
      /\ \A c \in 1 .. n - 1 : s1[c] = dm.saved[p][c]
  BY <1>2, <1>4 DEF n
<1>8. /\ t1 \in Seq(T) /\ Len(t1) = n
      /\ \A c \in 1 .. n : t1[c] = dm.text[p][c]
  BY <1>2, <1>4
<1> HIDE DEF s1, t1, x
<1>9. /\ saved \in [Slots -> Seq(X)] /\ saved[p] = s1
      /\ text \in [Slots -> Seq(T)] /\ text[p] = t1
      /\ rc \in [Slots -> X] /\ rc[p] = x
      /\ \A q \in Slots \ {p} : saved[q] = dm.saved[q] /\ text[q] = dm.text[q] /\ rc[q] = dm.rc[q]
  BY <1>1, <1>7, <1>8 DEF DeviceMemory, X, T
<1>10. e = [dm EXCEPT !.rc = rc, !.saved = saved, !.text = text]
  BY DEF Back, s1, t1, x, n
<1> HIDE DEF saved, text, rc, e
<1>11. /\ e \in DeviceMemory /\ e.rc = rc /\ e.request = dm.request /\ e.saved = saved
       /\ e.text = text /\ e.fdt = dm.fdt /\ e.kbd = dm.kbd /\ e.irq = dm.irq
  BY <1>1, <1>9, <1>10 DEF DeviceMemory, X, T
<1>12. Counted(b, e, p)
  <2>1. Len(e.saved[p]) = n - 1 /\ Len(e.text[p]) = n
    BY <1>7, <1>8, <1>9, <1>11
  <2>2. ASSUME NEW c \in 1 .. n - 1, e.text[p][c] # NULL
        PROVE  e.saved[p][c] = Len(e.text[p][c])
    <3>1. c \in 1 .. n
      BY <1>4
    <3> QED BY <1>6, <1>7, <1>8, <1>9, <1>11, <2>2, <3>1
  <2>3. e.text[p][n] # NULL => e.rc[p] = Len(e.text[p][n])
    <3>1. n \in 1 .. n
      BY <1>4
    <3> QED BY <1>6, <1>8, <1>9, <1>11, <3>1 DEF x
  <2>4. Len(b.frames[p]) + 1 = n /\ b.state[p] \notin Suspended
    BY <1>3, <1>4, <1>5 DEF Free
  <2> QED BY <1>5, <2>1, <2>2, <2>3, <2>4 DEF Counted
<1>13. ASSUME NEW q \in Slots \ {p} PROVE Counted(b, e, q) /\ Requested(b, e, q)
  <2>1. Counted(m, dm, q) /\ Requested(m, dm, q)
    BY DEF Kept, Devised, Framed
  <2>2. /\ e.saved[q] = dm.saved[q] /\ e.text[q] = dm.text[q] /\ e.rc[q] = dm.rc[q]
        /\ b.frames[q] = m.frames[q] /\ b.pid[q] = m.pid[q] /\ b.state[q] = m.state[q]
    BY <1>3, <1>5, <1>9, <1>11
  <2>3. Counted(b, e, q)
    BY <2>1, <2>2 DEF Counted
  <2>4. Waits(b, q) <=> Waits(m, q)
    BY <2>2 DEF Waits
  <2>5. e.request[q] = dm.request[q] /\ e.kbd = dm.kbd
    BY <1>11
  <2> QED BY <2>1, <2>2, <2>3, <2>4, <2>5 DEF Requested
<1>14. Requested(b, e, p)
  BY <1>3 DEF Requested, Waits, Free
<1>15. Described(e) /\ Buffered(e.kbd)
  BY <1>1, <1>11 DEF Described, Refs
<1>16. Devised(b, e)
  BY <1>11, <1>12, <1>13, <1>14, <1>15 DEF Devised, Framed
<1>17. Owned(b)
  BY <1>3 DEF Kept, Owned
<1> QED BY <1>2, <1>4, <1>5, <1>16, <1>17 DEF Kept, e

\* The process that leaves a handler does not wait.
LEMMA BackPasses ==
  ASSUME NEW m, NEW dm \in DeviceMemory, NEW p \in Slots, Free(m, p),
         NEW b, b.state = m.state
  PROVE  Passes(m, dm, b, Back(dm, p))
<1> DEFINE e == Back(dm, p)
<1>1. /\ e.kbd = dm.kbd /\ e.request = dm.request
      /\ \A q \in Slots \ {p} : e.rc[q] = dm.rc[q] /\ e.text[q] = dm.text[q]
  BY DEF Back, DeviceMemory
<1> HIDE DEF e
<1>2. \A q \in Slots : Waits(b, q) <=> Waits(m, q)
  BY DEF Waits
<1>3. ~ Waits(m, p)
  BY DEF Waits, Free
<1>4. Passes(m, dm, b, e)
  BY <1>1, <1>2, <1>3 DEF Passes
<1> QED BY <1>4 DEF e

\* What was typed passes one such step after another.
LEMMA PassesOn ==
  ASSUME NEW ka, NEW da, NEW kb, NEW db, NEW kc, NEW dc, kb.state = ka.state,
         Passes(ka, da, kb, db), Passes(kb, db, kc, dc)
  PROVE  Passes(ka, da, kc, dc)
<1>1. \A q \in Slots : Waits(kb, q) <=> Waits(ka, q)
  BY DEF Waits
<1> QED BY <1>1 DEF Passes

\* SYS_SIGRETURN, and a remembered signal that interrupts at once.
LEMMA ResumeKeeps ==
  ASSUME SleepsFit, Runs, DIInv, Resume PROVE DIInv' /\ Passes(k, d, k', d')
<1> DEFINE p == k.pcb
           S == k.sig_ignored[p]
           s == Greatest(S)
<1>0. Kept(k, d) /\ DistinctPids(k) /\ Active(k) /\ SigReturn /\ d \in DeviceMemory
  BY DEF DIInv, Kept, Resume, Devised, Framed
<1>1. Next
  BY <1>0 DEF Next, OtherCall, OwnCall
<1>2. Active(k') /\ DistinctPids(k')
  BY <1>0, <1>1, StepActive, StepPids
<1>3. /\ k \in Memory /\ p \in Slots /\ Free(k, p)
      /\ k.frames[p] # << >> /\ k.pid[p] # 0 /\ k' = sigreturn(k, p)
  BY <1>0, RunsFree DEF SigReturn, UserCall
<1>4. d' = IF Len(k'.frames[p]) = Len(k.frames[p]) THEN interrupt(Back(d, p), p) ELSE Back(d, p)
  BY <1>0 DEF Resume, Back, DeviceMemory
<1> HIDE DEF p
<1>5. PICK b : /\ Returns(k, p, b)
               /\ \/ k' = b
                  \/ s \in S /\ k' = signal(b, k.pid[p], s)
  BY <1>3, SigReturnEffect
<1>6. /\ Kept(b, Back(d, p))
      /\ Len(k.frames[p]) \in Nat /\ Len(b.frames[p]) = Len(k.frames[p]) - 1
  BY <1>0, <1>3, <1>5, BackKeeps
<1>7. b \in Memory /\ b.pid = k.pid /\ b.state = k.state
  BY <1>5 DEF Returns
<1>7a. Passes(k, d, b, Back(d, p))
  BY <1>0, <1>3, <1>7, BackPasses
<1>8. CASE k' = b
  <2>1. d' = Back(d, p)
    BY <1>4, <1>6, <1>8
  <2> QED BY <1>2, <1>6, <1>7a, <1>8, <2>1 DEF DIInv, Kept
<1>9. CASE s \in S /\ k' = signal(b, k.pid[p], s) /\ k' # b
  <2>1. s \in Signals
    BY <1>3, <1>9 DEF Memory
  <2> HIDE DEF s, S
  <2>2. Signalled(b, k.pid[p], s, k')
    BY <1>7, <1>9, <2>1, SignalEffect
  <2>3. getPCB(b, b.pid[p]) = p
    <3>1. DistinctPids(b)
      BY <1>0, <1>5, SamePids DEF Returns
    <3> QED BY <1>3, <1>7, <3>1, DistinctPidFinds
  <2>4. Remembers(b, p, s, k') \/ Interrupts(b, p, s, k')
    BY <1>7, <2>2, <2>3 DEF Signalled
  <2>5. CASE Remembers(b, p, s, k')
    <3>1. k'.frames = b.frames
      BY <2>5 DEF Remembers
    <3>2. d' = Back(d, p)
      BY <1>4, <1>6, <3>1
    <3>3. ASSUME NEW N, N = {}
          PROVE  /\ N \subseteq Suspended
                 /\ Stays(b, N, k') => /\ Kept(k', Back(d, p))
                                       /\ Passes(b, Back(d, p), k', Back(d, p))
      <4>1. N \subseteq Suspended
        BY <3>3
      <4>2. ASSUME Stays(b, N, k')
            PROVE  Kept(k', Back(d, p)) /\ Passes(b, Back(d, p), k', Back(d, p))
        BY <1>6, <3>3, <4>1, <4>2, StaysKeeps, StaysPasses
      <4> QED BY <4>1, <4>2
    <3>4. Kept(k', d') /\ Passes(b, Back(d, p), k', d')
      BY <2>5, <3>2, <3>3, RemembersStays
    <3>5. Passes(k, d, k', d')
      BY <1>7, <1>7a, <3>4, PassesOn
    <3> QED BY <1>2, <3>4, <3>5 DEF DIInv, Kept
  <2>6. CASE Interrupts(b, p, s, k')
    <3>1. Len(k'.frames[p]) = Len(k.frames[p])
      <4> DEFINE x1 == [signum |-> s, prevSigShift |-> Shift(b, p, s)]
                 F == [signum : Signals, prevSigShift : Nat]
      <4>1. k'.frames = [b.frames EXCEPT ![p] = Append(@, x1)] /\ b.frames \in [Slots -> Seq(F)]
        BY <1>7, <2>6 DEF Interrupts, Memory
      <4> HIDE DEF x1, F
      <4>2. k'.frames[p] = Append(b.frames[p], x1) /\ b.frames[p] \in Seq(F)
        BY <1>3, <4>1
      <4>3. Len(k'.frames[p]) = Len(b.frames[p]) + 1
        BY <4>2
      <4> QED BY <1>6, <4>3
    <3>2. d' = interrupt(Back(d, p), p)
      BY <1>4, <3>1
    <3>3. Kept(k', d') /\ Passes(b, Back(d, p), k', d')
      BY <1>3, <1>6, <1>7, <2>6, <3>2, InterruptFramed, InterruptPasses
    <3>4. Passes(k, d, k', d')
      BY <1>7, <1>7a, <3>3, PassesOn
    <3> QED BY <1>2, <3>3, <3>4 DEF DIInv, Kept
  <2> QED BY <2>4, <2>5, <2>6
<1> QED BY <1>5, <1>8, <1>9

\* What is known is a property of the two memories together.
LEMMA MachineSound ==
  ASSUME Runs, DIInv
  PROVE  /\ Sound(Machine) /\ Machine.k = k /\ Machine.d = d
         /\ k.pcb \in Slots /\ Free(k, k.pcb) /\ ~ Waits(k, k.pcb)
BY RunsFree DEF DIInv, Sound, Machine, Machines, Devised, Framed

\* What a device call that blocks nobody does to what was typed.
Quietly == k' = k /\ Passes(k, d, k', d')
Toggled ==
  /\ k' = k /\ d'.kbd.state # d.kbd.state
  /\ d'.kbd.buf = << >> \/ (~ d.kbd.state /\ d'.kbd.buf = d.kbd.buf)
  /\ \A q \in Slots : ~ Waits(k, q)

\* A device call that blocks nobody.
LEMMA QuietKeeps ==
  ASSUME DIInv, NEW m, Sound(m), m.k = k, k' = m.k, d' = m.d
  PROVE  DIInv'
BY DEF DIInv, Sound

\* The same, for the calls that are quiet and those that toggle the keyboard.
LEMMA QuietlyKeeps ==
  ASSUME DIInv, Machine.k = k, Machine.d = d, NEW m, Sound(m), k' = m.k, d' = m.d
  PROVE  /\ Quiet(Machine, m) => DIInv' /\ Quietly
         /\ Toggles(Machine, m) => DIInv' /\ Toggled
<1>1. ASSUME Quiet(Machine, m) PROVE DIInv' /\ Quietly
  BY <1>1, QuietKeeps DEF Quiet, Quietly
<1>2. ASSUME Toggles(Machine, m) PROVE DIInv' /\ Toggled
  BY <1>2, QuietKeeps DEF Toggles, Toggled
<1> QED BY <1>1, <1>2

\* A call comes from a running process with a pid.
LEMMA DeviceRuns == ASSUME Active(k), NEW call, UserCall(call) PROVE Runs /\ k.pid[k.pcb] # 0
BY DEF UserCall, Running, Runs

\* The device calls.
LEMMA OpenStep ==
  ASSUME DIInv, NEW dev \in DeviceNumbers, Open(dev) PROVE DIInv' /\ (Quietly \/ Toggled)
<1>1. Runs
  BY DeviceRuns DEF Open, DeviceCall, DIInv
<1> QED BY <1>1, MachineSound, OpenKeeps, QuietlyKeeps DEF Open, DeviceCall

LEMMA CloseStep == ASSUME DIInv, NEW fd, Close(fd) PROVE DIInv' /\ (Quietly \/ Toggled)
<1>1. Runs
  BY DeviceRuns DEF Close, DeviceCall, DIInv
<1> QED BY <1>1, MachineSound, CloseKeeps, QuietlyKeeps DEF Close, DeviceCall

LEMMA WriteStep == ASSUME DIInv, NEW fd, NEW n \in Sizes, Write(fd, n) PROVE DIInv' /\ Quietly
<1>1. Runs
  BY DeviceRuns DEF Write, DeviceCall, DIInv
<1>2. n \in Int
  BY DevicesAssumption
<1> QED BY <1>1, <1>2, MachineSound, WriteKeeps, QuietlyKeeps DEF Write, DeviceCall

LEMMA IoctlStep ==
  ASSUME DIInv, NEW fd, NEW command, NEW args \in Arguments,
         Ioctl(fd, command, args)
  PROVE  DIInv' /\ Quietly
<1>1. Runs
  BY DeviceRuns DEF Ioctl, DeviceCall, DIInv
<1> QED BY <1>1, MachineSound, IoctlKeeps, QuietlyKeeps DEF Ioctl, DeviceCall

\* Another process is chosen when the reader blocks.
LEMMA BlockedNext ==
  ASSUME Runs, DistinctPids(k), NEW dm, Kept(Blocked(k, k.pcb), dm)
  PROVE  LET n == next(Blocked(k, k.pcb)) IN Active(n) /\ DistinctPids(n) /\ Kept(n, dm)
<1> DEFINE b == Blocked(k, k.pcb)
           n == next(b)
<1>1. k \in Memory /\ k.pcb \in Slots
  BY RunsFree
<1>2. b \in Memory /\ b.pid = k.pid /\ b.pcb_id = k.pcb_id /\ b.pcb = k.pcb
  BY <1>1 DEF Blocked, Memory, States
<1> HIDE DEF b
<1>3. Dispatches(b, n)
  BY <1>2, NextDispatches
<1> HIDE DEF n
<1>4. n \in Memory /\ n.pid = k.pid /\ n.pcb_id = k.pcb_id /\ n.pcb \in Slots
  BY <1>1, <1>2, <1>3 DEF Dispatches, Keeps
<1>5. b.state \in [Slots -> States]
  BY <1>2 DEF Memory
<1>6. Active(n)
  BY <1>3, <1>4, <1>5 DEF Dispatches, Active
<1>7. DistinctPids(n)
  BY <1>4, SamePids
<1>8. ASSUME NEW N, N = {} PROVE N \subseteq Suspended /\ Stays(b, N, n)
  BY <1>3, <1>5, <1>8 DEF Dispatches, Keeps, Stays
<1>9. Kept(n, dm)
  <2>1. ASSUME NEW N, N = {} PROVE Kept(n, dm)
    BY <1>8, <2>1, StaysKeeps DEF b
  <2> QED BY <2>1
<1> QED BY <1>6, <1>7, <1>9 DEF n, b

\* What a read leaves of what was typed, see ReadOut.
Takes(fd, n) ==
  LET p == k.pcb
  IN  IF n >= 0 /\ d.fdt[p][fd] = KEYBOARD
      THEN /\ d.kbd.state /\ d.kbd.pcb = p /\ d'.kbd.state /\ d'.kbd.pcb = p
           /\ Moved(<< >>, d.kbd.buf, k', d', p)
      ELSE Quietly

\* SYS_READ: when the reader blocks, next() follows.
LEMMA ReadStep ==
  ASSUME DIInv, NEW fd \in Fds, NEW n \in Sizes, Read(fd, n) PROVE DIInv' /\ Takes(fd, n)
<1> DEFINE p == k.pcb
           m == di_read(Machine, p, fd, n)
<1>1. Runs /\ k.pid[p] # 0
  BY DeviceRuns DEF Read, DeviceCall, DIInv
<1>2. n \in Int
  BY DevicesAssumption
<1>3. Sound(m) /\ m.k \in {k, Blocked(k, p)} /\ ReadOut(Machine, p, fd, n, m)
  BY <1>1, <1>2, MachineSound, DiReadKeeps
<1>4. /\ m.k.state[p] = "DEV_BLOCK" => k' = next(m.k) /\ d' = m.d
      /\ m.k.state[p] # "DEV_BLOCK" => k' = m.k /\ d' = m.d
  <2>1. m \in Machines
    BY <1>3 DEF Sound
  <2> HIDE DEF m
  <2>2. LET x == IF m.k.state[p] = "DEV_BLOCK" THEN [m EXCEPT !.k = next(@)] ELSE m
        IN  k' = x.k /\ d' = x.d
    BY DEF Read, DeviceCall, m
  <2> QED BY <2>1, <2>2 DEF Machines
<1> HIDE DEF m
<1>5. CASE m.k.state[p] # "DEV_BLOCK"
  <2>1. m.k = k
    <3>1. Blocked(k, p).state[p] = "DEV_BLOCK"
      BY <1>1, RunsFree DEF Blocked, Memory
    <3> QED BY <1>3, <1>5, <3>1
  <2>2. Takes(fd, n)
    BY <1>1, <1>3, <1>4, <1>5, <2>1, MachineSound DEF Takes, ReadOut, Quiet, Quietly
  <2> QED BY <1>3, <1>4, <1>5, <2>1, <2>2, QuietKeeps
<1>6. CASE m.k.state[p] = "DEV_BLOCK"
  <2>1. m.k = Blocked(k, p)
    BY <1>1, <1>3, <1>6, RunsFree DEF Waits
  <2>2. Kept(Blocked(k, p), m.d)
    <3>1. Owned(Blocked(k, p))
      BY <1>1, RunsFree DEF DIInv, Owned, Blocked, Memory
    <3> QED BY <1>3, <2>1, <3>1 DEF Sound, Kept
  <2>3. DistinctPids(k)
    BY DEF DIInv
  <2>4. ~ Quiet(Machine, m)
    BY <1>1, <1>6, MachineSound DEF Quiet, Waits
  <2>5. Takes(fd, n)
    BY <1>1, <1>3, <1>4, <1>6, <2>4, MachineSound DEF Takes, ReadOut, Moved, Waits
  <2> QED BY <1>1, <1>4, <1>6, <2>1, <2>2, <2>3, <2>5, BlockedNext DEF DIInv, Kept
<1> QED BY <1>5, <1>6

\* What a key leaves of what was typed, see ServeOut.
Pressed(c) ==
  LET p == d.kbd.pcb
      old == d.text[p][d.request[p].buf]
  IN  /\ p \in Slots /\ d'.kbd.pcb = p /\ d'.kbd.state
      /\ IF Waits(k, p)
         THEN old \in Seq(Chars) /\ Moved(old, KeyBuffer(d.kbd, c), k', d', p)
         ELSE ~ Waits(k', p) /\ d'.kbd.buf = KeyBuffer(d.kbd, c)

\* KBD_INT: the interrupted process goes on.
LEMMA KeyStep == ASSUME DIInv, NEW c \in Keys, KbdInt(c) PROVE DIInv' /\ Pressed(c)
<1> DEFINE m == kbdint_handler(Machine, c)
<1>1. Runs /\ Active(k) /\ DistinctPids(k) /\ Owned(k) /\ d.irq /\ k' = m.k /\ d' = m.d
  BY DEF KbdInt, Running, Runs, DIInv
<1>2. /\ Sound(m) /\ (m.k = k \/ \E p \in Slots : m.k = ready(k, p))
      /\ \E a : /\ Accepts(Machine, a) /\ a.d.kbd.buf = KeyBuffer(d.kbd, c)
                /\ ServeOut(a, m)
  BY <1>1, MachineSound, KeyKeeps
<1> HIDE DEF m
<1>2a. Pressed(c)
  <2>1. PICK a : /\ Accepts(Machine, a) /\ a.d.kbd.buf = KeyBuffer(d.kbd, c)
                 /\ ServeOut(a, m)
    BY <1>2
  <2>2. /\ a.k = k /\ a.d.text = d.text /\ a.d.request = d.request
        /\ a.d.kbd.pcb = d.kbd.pcb
    BY <1>1, <2>1, MachineSound DEF Accepts
  <2> QED BY <1>1, <2>1, <2>2 DEF Pressed, ServeOut
<1>3. CASE m.k = k
  BY <1>1, <1>2, <1>2a, <1>3, QuietKeeps
<1>4. CASE \E p \in Slots : m.k = ready(k, p)
  <2>1. PICK p \in Slots : k' = ready(k, p)
    BY <1>1, <1>4
  <2>2. k \in Memory
    BY <1>1 DEF Active
  <2>3. Readies(k, p, k')
    BY <2>1, <2>2, ReadyKeeps
  <2> DEFINE q == IF k.pid[p] = 0 THEN Idle ELSE p
  <2>4. q \in Slots /\ k'.state = [k.state EXCEPT ![q] = "READY"]
    BY <2>3, ConstantTypes DEF Readies
  <2>5. k.state \in [Slots -> States]
    BY <2>2 DEF Memory
  <2> HIDE DEF q
  <2>6. Owned(k')
    BY <1>1, <2>3, <2>4, <2>5 DEF Readies, Owned
  <2>7. Active(k')
    BY <1>1, <2>3, <2>4, <2>5 DEF Readies, Keeps, Active
  <2>8. DistinctPids(k')
    BY <1>1, <2>3, SamePids DEF Readies, Keeps
  <2> QED BY <1>1, <1>2, <1>2a, <2>6, <2>7, <2>8 DEF DIInv, Sound
<1> QED BY <1>2, <1>3, <1>4
-----------------------------------------------------------------------------
\* Nobody waits at boot, no descriptor is open and no handler is entered.
LEMMA InitDevices == DInit => DIInv
<1> SUFFICES ASSUME DInit PROVE DIInv
  OBVIOUS
<1>1. IInv /\ Active(k) /\ DistinctPids(k)
  BY InitInv, InitActive, InitPids DEF DInit
<1>2. \A p \in Slots : /\ k.state[p] \in {"STOPPED", "RUNNING", "READY", "BLOCKED"}
                       /\ k.stack[p] <=> k.state[p] # "STOPPED"
                       /\ k.frames[p] = << >>
  BY <1>1 DEF IInv, Core, Placed, Untouched
<1>3. Owned(k)
  BY <1>2 DEF Owned
<1>4. d = DeviceBoot
  BY DEF DInit
<1> DEFINE X == Int \cup {Other}
           T == Seq(Chars) \cup {NULL}
           C == Chars
<1>5. << >> \in Seq(X) /\ << NULL >> \in Seq(T) /\ << >> \in Seq(C)
  <2>1. NULL \in T
    OBVIOUS
  <2> HIDE DEF X, T, C
  <2> QED BY <2>1
<1>6. KbdOff \in KbdMemory
  BY <1>5, ConstantTypes DEF KbdOff, KbdMemory, Chars
<1>7. d \in DeviceMemory
  <2>1. /\ [p \in Slots |-> << >>] \in [Slots -> Seq(X)]
        /\ [p \in Slots |-> << NULL >>] \in [Slots -> Seq(T)]
    BY <1>5
  <2>2. [p \in Slots |-> 0] \in [Slots -> X]
    OBVIOUS
  <2> HIDE DEF X, T
  <2>3. d \in [ fdt : [Slots -> [Fds -> devtab \cup {NULL}]],
                rc : [Slots -> X],
                saved : [Slots -> Seq(X)],
                request : [Slots -> [buf : Nat, bufflen : Nat] \cup {NULL}],
                text : [Slots -> Seq(T)],
                kbd : KbdMemory,
                irq : BOOLEAN ]
    BY <1>4, <1>6, <2>1, <2>2 DEF DeviceBoot
  <2> QED BY <2>3 DEF DeviceMemory, X, T
<1>8. /\ d.kbd = KbdOff /\ d.irq = FALSE
      /\ \A p \in Slots : /\ d.saved[p] = << >> /\ d.text[p] = << NULL >>
                          /\ \A f \in Fds : d.fdt[p][f] = NULL
  BY <1>4 DEF DeviceBoot
<1>9. Refs(d) = {}
  <2>1. NULL # KEYBOARD
    BY DevtabAssumption DEF devtab
  <2> QED BY <1>8, <2>1 DEF Refs
<1>10. Described(d)
  BY <1>8, <1>9 DEF Described, KbdOff
<1>11. Buffered(d.kbd)
  <2>1. d.kbd.buf = << >>
    BY <1>8 DEF KbdOff
  <2>2. Len(d.kbd.buf) = 0
    BY <2>1
  <2> QED BY <2>2, DevicesAssumption DEF Buffered
<1>12. ASSUME NEW p \in Slots PROVE Counted(k, d, p)
  <2>1. d.saved[p] = << >> /\ d.text[p] = << NULL >> /\ k.frames[p] = << >>
    BY <1>2, <1>8
  <2>2. Len(d.saved[p]) = 0 /\ Len(k.frames[p]) = 0 /\ Len(d.text[p]) = 1 /\ d.text[p][1] = NULL
    BY <2>1
  <2> QED BY <2>2 DEF Counted
<1>13. ASSUME NEW p \in Slots PROVE Requested(k, d, p)
  BY <1>2 DEF Requested, Waits
<1> QED BY <1>1, <1>3, <1>7, <1>10, <1>11, <1>12, <1>13 DEF DIInv, Devised, Framed

\* Every action of DNext keeps the invariant.
LEMMA StepDevices == ASSUME SleepsFit, DIInv, DNext PROVE DIInv'
<1>1. CASE KernelCall
  <2>1. Next
    BY <1>1 DEF KernelCall, Next, OtherCall, OwnCall, KillUser
  <2>2. Runs
    BY <2>1, TakesTurn DEF DIInv
  <2> QED BY <1>1, <2>2, KernelCallKeeps
<1>2. CASE Silent
  <2>1. Next
    BY <1>2 DEF Silent, Next, OtherCall, OwnCall
  <2>2. Runs
    BY <2>1, TakesTurn DEF DIInv
  <2> QED BY <1>2, <2>2, SilentKeeps
<1>3. CASE Resume
  <2>1. Next
    BY <1>3 DEF Resume, Next, OtherCall, OwnCall
  <2>2. Runs
    BY <2>1, TakesTurn DEF DIInv
  <2> QED BY <1>3, <2>2, ResumeKeeps
<1>4. CASE \E dev \in DeviceNumbers : Open(dev)
  BY <1>4, OpenStep
<1>5. CASE \E fd \in Fds \cup {-1} : Close(fd)
  BY <1>5, CloseStep
<1>6. CASE \E fd \in Fds, n \in Sizes : Write(fd, n)
  BY <1>6, WriteStep
<1>7. CASE \E fd \in Fds, n \in Sizes : Read(fd, n)
  BY <1>7, ReadStep
<1>8. CASE \E fd \in Fds, command \in Commands, args \in Arguments :
                Ioctl(fd, command, args)
  BY <1>8, IoctlStep
<1>9. CASE \E c \in Keys : KbdInt(c)
  BY <1>9, KeyStep
<1> QED BY <1>1, <1>2, <1>3, <1>4, <1>5, <1>6, <1>7, <1>8, <1>9 DEF DNext

(***************************************************************************)
(* DevicesInvariant: DIInv is an invariant of the devices over the kernel. *)
(* The assumption is that of KernelTypes: the ticks of an argument of      *)
(* syssleep, an unsigned number divided by a constant, fit the field they  *)
(* are stored in.                                                          *)
(***************************************************************************)
THEOREM DevicesInvariant == ASSUME SleepsFit PROVE DSpec => []DIInv
<1>1. DInit => DIInv
  BY InitDevices
<1>2. DIInv /\ [DNext]_<< k, d >> => DIInv'
  <2>1. CASE DNext
    BY <2>1, StepDevices
  <2>2. CASE UNCHANGED << k, d >>
    BY <2>2 DEF DIInv
  <2> QED BY <2>1, <2>2
<1> QED BY <1>1, <1>2, PTL DEF DSpec

\* What the invariant says, in the terms of the properties.
LEMMA DevicesTyped == ASSUME DIInv PROVE DTypeOK
BY DEF DIInv, Devised, Framed, Buffered, DeviceMemory, KbdMemory, DTypeOK

\* The other properties follow from their parts of the invariant.
LEMMA DescriptorShown == ASSUME DIInv PROVE OneDescriptor
BY DEF DIInv, Devised, Framed, Described, Refs, OneDescriptor

\* A read that waits is short of its line, its end and its length.
LEMMA ReaderShown == ASSUME DIInv PROVE BlockedReader
<1> SUFFICES ASSUME NEW p \in Slots, k.state[p] = "DEV_BLOCK", d.kbd.eof \notin Keys
             PROVE  /\ d.kbd.pcb = p /\ d.kbd.buf = << >> /\ d.irq
                    /\ ~ Done(Machine, p, d.request[p].buf, d.request[p].bufflen)
  BY DEF BlockedReader
<1>1. Requested(k, d, p) /\ Described(d)
  BY DEF DIInv, Devised, Framed
<1> DEFINE r == d.request[p]
           t == d.text[p][r.buf]
<1>2. /\ d.kbd.state /\ d.kbd.pcb = p /\ d.kbd.buf = << >> /\ ~ d.kbd.eof_flag
      /\ t \in Seq(Chars) /\ Len(t) < r.bufflen /\ r.bufflen \in Nat
      /\ t # << >> => t[Len(t)] # "newline"
  BY <1>1 DEF Requested, Waits
<1> HIDE DEF r, t
<1>3. Len(t) # r.bufflen
  BY <1>2
<1> QED BY <1>1, <1>2, <1>3 DEF Done, Machine, Described, r, t

\* The saved results and rc, as one sequence.
LEMMA CountsShown == ASSUME DIInv PROVE ReadCountsBytes
<1> SUFFICES ASSUME NEW p \in Slots
             PROVE  LET values == Append(d.saved[p], d.rc[p]) IN
                    /\ Len(values) = Len(d.text[p]) /\ Len(d.saved[p]) = Len(k.frames[p])
                    /\ \A c \in DOMAIN values :
                         d.text[p][c] # NULL => values[c] = Len(d.text[p][c])
  BY DEF ReadCountsBytes
<1> DEFINE X == Int \cup {Other}
           values == Append(d.saved[p], d.rc[p])
           L == Len(k.frames[p])
<1>1. Counted(k, d, p) /\ d \in DeviceMemory
  BY DEF DIInv, Devised, Framed
<1>2. d.saved[p] \in Seq(X) /\ d.rc[p] \in X
  BY <1>1 DEF DeviceMemory
<1>3. /\ Len(d.saved[p]) = L /\ Len(d.text[p]) = L + 1
      /\ \A c \in 1 .. Len(d.saved[p]) : d.text[p][c] # NULL => d.saved[p][c] = Len(d.text[p][c])
      /\ d.text[p][L + 1] # NULL => d.rc[p] = Len(d.text[p][L + 1])
  BY <1>1 DEF Counted
<1> HIDE DEF X, L
<1>4. /\ L \in Nat /\ Len(values) = L + 1 /\ DOMAIN values = 1 .. L + 1 /\ values[L + 1] = d.rc[p]
      /\ \A c \in 1 .. L : values[c] = d.saved[p][c]
  BY <1>2, <1>3
<1> HIDE DEF values
<1>5. ASSUME NEW c \in 1 .. L + 1, d.text[p][c] # NULL PROVE values[c] = Len(d.text[p][c])
  <2>1. CASE c = L + 1
    BY <1>3, <1>4, <1>5, <2>1
  <2>2. CASE c # L + 1
    <3>1. c \in 1 .. L
      BY <1>4, <2>2
    <3> QED BY <1>3, <1>4, <1>5, <3>1
  <2> QED BY <2>1, <2>2
<1> QED BY <1>3, <1>4, <1>5 DEF values, L

(***************************************************************************)
(* DeviceTypes: the device memory keeps its types and the keyboard driver  *)
(* never holds more than BUF_LEN characters, whatever is typed and read    *)
(* (the test of kbdint_handler in c/kbd.c, and the copies of buf_copy).    *)
(***************************************************************************)
THEOREM DeviceTypes == ASSUME SleepsFit PROVE DSpec => []DTypeOK
BY DevicesInvariant, DevicesTyped, PTL

(***************************************************************************)
(* KeyboardHasOneOwner: the keyboard is on exactly while one descriptor of *)
(* one slot refers to it, the slot the interrupt handler serves, in every  *)
(* history of opens, closes, stops and reuses of slots; di_open and        *)
(* di_close in c/di_calls.c with kbd_open and kbd_close. Its interrupt is  *)
(* enabled until the end of file.                                          *)
(***************************************************************************)
THEOREM KeyboardHasOneOwner == ASSUME SleepsFit PROVE DSpec => []OneDescriptor
BY DevicesInvariant, DescriptorShown, PTL

(***************************************************************************)
(* ReadersAreServed: a process blocked in kbd_read is the owner of the     *)
(* keyboard, the driver holds nothing it could have had, and it is short   *)
(* of a line, of the end of file and of the length it asked for, however   *)
(* keys, signals and ioctls come in between; as long as no key gives the   *)
(* end-of-file character.                                                  *)
(***************************************************************************)
THEOREM ReadersAreServed == ASSUME SleepsFit PROVE DSpec => []BlockedReader
BY DevicesInvariant, ReaderShown, PTL

(***************************************************************************)
(* ReadsAreCounted: in every context of every process, the result of a     *)
(* read is the number of characters in its buffer: in rc while the read is *)
(* the last call, in the saved results of the signal frames                *)
(* (c/signal.c:68) while handlers run on top of it, and in rc again when   *)
(* SYS_SIGRETURN puts it back (c/disp.c:122).                              *)
(***************************************************************************)
THEOREM ReadsAreCounted == ASSUME SleepsFit PROVE DSpec => []ReadCountsBytes
BY DevicesInvariant, CountsShown, PTL
-----------------------------------------------------------------------------
(***************************************************************************)
(* What was typed, module Reading.                                         *)
(***************************************************************************)
\* What the waiting reader has, and what nobody has been told of.
Part(km, dm) ==
  IF dm.kbd.pcb # NULL /\ Waits(km, dm.kbd.pcb)
  THEN dm.text[dm.kbd.pcb][dm.request[dm.kbd.pcb].buf] ELSE << >>
Unread(km, dm) == Behind(Part(km, dm), dm.kbd.buf)

\* The inductive invariant of Reading: a keyboard that is off has no
\* characters for the next process that opens it.
RIInv == DIInv /\ (~ d.kbd.state => d.kbd.buf = << >>) /\ typed = Unread(k, d)

\* KeysInOrder in these terms.
LEMMA UnreadShown == ASSUME typed = Unread(k, d) PROVE KeysInOrder
BY DEF KeysInOrder, Unread, Part, Behind, Awaits, Owner, Waits

\* What the invariant says of the owner.
LEMMA OwnerParts ==
  ASSUME DIInv
  PROVE  /\ d \in DeviceMemory /\ d.kbd.buf \in Seq(Chars) /\ Part(k, d) \in Seq(Chars)
         /\ (d.kbd.pcb \in Slots \/ d.kbd.pcb = NULL)
         /\ d.kbd.pcb \in Slots /\ Waits(k, d.kbd.pcb) =>
              /\ d.rc[d.kbd.pcb] = Len(Part(k, d)) /\ d.kbd.pcb # NULL
<1> DEFINE p == d.kbd.pcb
           C == Chars
<1>1. d \in DeviceMemory /\ d.kbd.buf \in Seq(Chars) /\ p \in Slots \cup {NULL}
  BY DEF DIInv, Devised, Framed, DeviceMemory, KbdMemory, Pointers
<1>2. ASSUME p \in Slots, Waits(k, p)
      PROVE  /\ p # NULL /\ Part(k, d) = d.text[p][d.request[p].buf]
             /\ Part(k, d) \in Seq(C) /\ d.rc[p] = Len(Part(k, d))
  <2>1. p # NULL
    BY <1>2, ConstantTypes
  <2>2. Part(k, d) = d.text[p][d.request[p].buf]
    BY <1>2, <2>1 DEF Part
  <2>3. Requested(k, d, p)
    BY <1>2 DEF DIInv, Devised
  <2> HIDE DEF p
  <2>4. d.text[p][d.request[p].buf] \in Seq(C) /\ d.rc[p] = Len(d.text[p][d.request[p].buf])
    BY <1>2, <2>3 DEF Requested
  <2> QED BY <2>1, <2>2, <2>4
<1>3. ~ (p \in Slots /\ Waits(k, p)) => Part(k, d) = << >>
  BY <1>1 DEF Part
<1>4. << >> \in Seq(C)
  OBVIOUS
<1> HIDE DEF C
<1>5. Part(k, d) \in Seq(C)
  BY <1>2, <1>3, <1>4
<1> QED BY <1>1, <1>2, <1>5 DEF C

\* The same of the next state, as far as it is known before its owner is.
LEMMA OwnerNext ==
  ASSUME DIInv'
  PROVE  d'.kbd.buf \in Seq(Chars) /\ (d'.kbd.pcb \in Slots \/ d'.kbd.pcb = NULL)
BY DEF DIInv, Devised, Framed, DeviceMemory, KbdMemory, Pointers

\* Nothing in front of a sequence.
LEMMA NothingBehind == ASSUME NEW C, NEW s \in Seq(C) PROVE Behind(<< >>, s) = s
BY ConcatEmptySeq DEF Behind

\* A read that returns tells of what it has.
LEMMA ToldFirst ==
  ASSUME NEW C, NEW a \in Seq(C), NEW s \in Seq(C)
  PROVE  Told(Behind(a, s), Len(a)) = s
BY BehindFirst DEF Told

\* What nobody has been told of after the owner p has moved characters.
LEMMA MovedDelivers ==
  ASSUME NEW old, NEW buf, NEW km, NEW dm, NEW p \in Slots, dm.kbd.pcb = p,
         dm.kbd.buf \in Seq(Chars), Moved(old, buf, km, dm, p)
  PROVE  Unread(km, dm) = IF Waits(km, p) THEN Behind(old, buf)
                          ELSE Told(Behind(old, buf), dm.rc[p])
<1> DEFINE C == Chars
           s == dm.kbd.buf
<1>1. PICK t \in Seq(C) :
        /\ Behind(t, s) = Behind(old, buf)
        /\ dm.rc[p] = Len(t)
        /\ Waits(km, p) => dm.text[p][dm.request[p].buf] = t
  BY DEF Moved
<1>2. s \in Seq(C)
  OBVIOUS
<1>3. Part(km, dm) = IF Waits(km, p) THEN t ELSE << >>
  BY <1>1, ConstantTypes DEF Part
<1>4. Unread(km, dm) = Behind(Part(km, dm), s)
  BY DEF Unread
<1> HIDE DEF C, s
<1>5. Told(Behind(t, s), Len(t)) = s /\ Behind(<< >>, s) = s
  BY <1>2, ToldFirst, NothingBehind
<1> QED BY <1>1, <1>3, <1>4, <1>5

\* Steps that let it pass: a reader that no longer waits is told what it has.
LEMMA PassesSettles ==
  ASSUME DIInv, DIInv', Passes(k, d, k', d')
  PROVE  Unread(k, d)' = Settled(Unread(k, d))
<1> DEFINE p == d.kbd.pcb
           C == Chars
           s == d.kbd.buf
           old == Part(k, d)
<1>1. /\ s \in Seq(C) /\ old \in Seq(C) /\ (p \in Slots \/ p = NULL)
      /\ p \in Slots /\ Waits(k, p) => d.rc[p] = Len(old)
  BY OwnerParts
<1>2. d'.kbd.buf = s /\ d'.kbd.pcb = p
  BY DEF Passes
<1>3. Unread(k, d)' = Behind(Part(k', d'), s)
  BY <1>2 DEF Unread
<1>4. Settled(Unread(k, d)) =
        IF (p # NULL /\ Waits(k, p)) /\ ~ (p # NULL /\ Waits(k', p))
        THEN Told(Behind(old, s), d'.rc[p]) ELSE Behind(old, s)
  BY DEF Settled, Awaits, Owner, Waits, Unread
<1>5. Part(k', d') = IF p # NULL /\ Waits(k', p) THEN d'.text[p][d'.request[p].buf] ELSE << >>
  BY <1>2 DEF Part
<1>6. old = IF p # NULL /\ Waits(k, p) THEN d.text[p][d.request[p].buf] ELSE << >>
  BY DEF Part
<1>7. p \in Slots =>
        /\ Waits(k', p) => Waits(k, p)
        /\ Waits(k, p) => d'.rc[p] = d.rc[p]
        /\ Waits(k', p) => d'.text[p] = d.text[p] /\ d'.request[p] = d.request[p]
  BY DEF Passes
<1> HIDE DEF C, s, old, p
<1>8. Told(Behind(old, s), Len(old)) = s /\ Behind(<< >>, s) = s
  BY <1>1, ToldFirst, NothingBehind
<1>9. CASE p # NULL /\ Waits(k', p)
  BY <1>1, <1>3, <1>4, <1>5, <1>6, <1>7, <1>9
<1>10. CASE ~ (p # NULL /\ Waits(k', p)) /\ (p # NULL /\ Waits(k, p))
  BY <1>1, <1>3, <1>4, <1>5, <1>7, <1>8, <1>10
<1>11. CASE ~ (p # NULL /\ Waits(k', p)) /\ ~ (p # NULL /\ Waits(k, p))
  BY <1>3, <1>4, <1>5, <1>6, <1>11
<1> QED BY <1>9, <1>10, <1>11

\* Its steps, for the invariant.
LEMMA PassStep ==
  ASSUME RIInv, DIInv', Passes(k, d, k', d'), typed' = Settled(typed) PROVE RIInv'
<1>1. typed' = Unread(k, d)'
  BY PassesSettles DEF RIInv
<1>2. d'.kbd.buf = d.kbd.buf /\ d'.kbd.state = d.kbd.state
  BY DEF Passes
<1> QED BY <1>1, <1>2 DEF RIInv

\* A step that blocks nobody settles nothing.
LEMMA QuietStep == ASSUME RIInv, DIInv', Quietly, typed' = typed PROVE RIInv'
<1>1. Settled(typed) = typed /\ Passes(k, d, k', d')
  BY DEF Quietly, Settled, Awaits
<1> QED BY <1>1, PassStep

\* A key is behind what nobody has been told of.
LEMMA PressStep == ASSUME SleepsFit, RIInv, NEW c \in Keys, Press(c) PROVE RIInv'
<1> DEFINE p == d.kbd.pcb
           C == Chars
           s == d.kbd.buf
           old == Part(k, d)
           new == KeyBuffer(d.kbd, c)
           char == KeyChar(d.kbd, c)
           all == IF Len(d.kbd.buf) = BUF_LEN \/ c = "none" THEN typed ELSE Append(typed, char)
<1>1. DIInv' /\ Pressed(c) /\ DIInv
  BY KeyStep DEF RIInv, Press
<1>2. typed' = Settled(all)
  BY DEF Press, KeyChar
<1>3. s \in Seq(C) /\ old \in Seq(C) /\ char \in C
  <2>1. d.kbd.eof \in Chars
    BY <1>1, OwnerParts DEF DeviceMemory, KbdMemory
  <2> QED BY <1>1, <2>1, OwnerParts DEF KeyChar, Chars
<1>4. typed = Behind(old, s)
  BY DEF RIInv, Unread
<1>5. new = IF Len(d.kbd.buf) = BUF_LEN \/ c = "none" THEN s ELSE Append(s, char)
  BY DEF KeyBuffer
<1> HIDE DEF C, char, old, new
<1>6. Append(Behind(old, s), char) = Behind(old, Append(s, char))
  BY <1>3, AppendBehind
<1>7. all = Behind(old, new)
  BY <1>4, <1>5, <1>6
<1> HIDE DEF all
<1>8. /\ p \in Slots /\ p # NULL /\ d'.kbd.pcb = p /\ d'.kbd.state
      /\ d'.kbd.buf \in Seq(Chars)
  BY <1>1, ConstantTypes, OwnerNext DEF Pressed
<1>9. Settled(all) = IF Waits(k, p) /\ ~ Waits(k', p) THEN Told(all, d'.rc[p]) ELSE all
  BY <1>8 DEF Settled, Awaits, Owner, Waits
<1>10. CASE Waits(k, p)
  <2>1. old = d.text[p][d.request[p].buf]
    BY <1>8, <1>10 DEF old, Part
  <2>2. Moved(old, new, k', d', p)
    BY <1>1, <1>10, <2>1 DEF Pressed, new
  <2>3. Unread(k', d') = IF Waits(k', p) THEN Behind(old, new) ELSE Told(Behind(old, new), d'.rc[p])
    BY <1>8, <2>2, MovedDelivers
  <2>4. typed' = Unread(k, d)'
    BY <1>2, <1>7, <1>9, <1>10, <2>3
  <2> QED BY <1>1, <1>8, <2>4 DEF RIInv
<1>11. CASE ~ Waits(k, p)
  <2>1. ~ Waits(k', p) /\ d'.kbd.buf = new
    BY <1>1, <1>11 DEF Pressed, new
  <2>2. old = << >> /\ Part(k', d') = << >>
    BY <1>8, <1>11, <2>1 DEF old, Part
  <2>3. typed' = Unread(k, d)'
    BY <1>2, <1>7, <1>9, <1>11, <2>1, <2>2 DEF Unread
  <2> QED BY <1>1, <1>8, <2>3 DEF RIInv
<1> QED BY <1>10, <1>11

\* A read takes from the front of it.
LEMMA TakeStep ==
  ASSUME SleepsFit, RIInv, NEW fd \in Fds, NEW n \in Sizes, ReadKeys(fd, n) PROVE RIInv'
<1> DEFINE p == k.pcb
           keys == n >= 0 /\ d.fdt[p][fd] = KEYBOARD
<1>1. DIInv' /\ Takes(fd, n) /\ DIInv /\ Runs
  BY ReadStep, DeviceRuns DEF RIInv, ReadKeys, Read, DeviceCall, DIInv
<1>2. typed' = IF keys /\ ~ Waits(k', p) THEN Told(typed, d'.rc[p]) ELSE typed
  BY DEF ReadKeys, Waits
<1>3. CASE keys
  <2>1. /\ d.kbd.pcb = p /\ d'.kbd.state /\ d'.kbd.pcb = p
        /\ Moved(<< >>, d.kbd.buf, k', d', p)
    BY <1>1, <1>3 DEF Takes
  <2>2. p \in Slots /\ ~ Waits(k, p) /\ d'.kbd.buf \in Seq(Chars)
    BY <1>1, RunsFree, OwnerNext
  <2>3. typed = Behind(<< >>, d.kbd.buf)
    BY <2>1, <2>2 DEF RIInv, Unread, Part
  <2> HIDE DEF p
  <2>4. Unread(k', d') = IF Waits(k', p) THEN Behind(<< >>, d.kbd.buf)
                         ELSE Told(Behind(<< >>, d.kbd.buf), d'.rc[p])
    BY <2>1, <2>2, MovedDelivers
  <2>5. typed' = Unread(k, d)'
    BY <1>2, <1>3, <2>3, <2>4
  <2> QED BY <1>1, <2>1, <2>5 DEF RIInv
<1>4. CASE ~ keys
  <2>1. Quietly /\ typed' = typed
    BY <1>1, <1>2, <1>4 DEF Takes
  <2> QED BY <1>1, <2>1, QuietStep
<1> QED BY <1>3, <1>4

\* Opening the keyboard finds nothing, and closing it leaves nothing.
LEMMA OpenCloseStep == ASSUME SleepsFit, RIInv, OpenClose PROVE RIInv'
<1>1. DIInv' /\ (Quietly \/ Toggled)
  BY OpenStep, CloseStep DEF OpenClose, RIInv
<1>2. typed' = IF d'.kbd.state = d.kbd.state THEN typed ELSE << >>
  BY DEF OpenClose
<1>3. CASE Quietly
  <2>1. typed' = typed
    BY <1>2, <1>3 DEF Quietly, Passes
  <2> QED BY <1>1, <1>3, <2>1, QuietStep
<1>4. CASE Toggled
  <2>1. typed' = << >> /\ d'.kbd.buf = << >>
    BY <1>2, <1>4 DEF Toggled, RIInv
  <2>2. Part(k', d') = << >>
    <3>1. d'.kbd.pcb \in Slots \/ d'.kbd.pcb = NULL
      BY <1>1, OwnerNext
    <3>2. \A q \in Slots : ~ Waits(k', q)
      BY <1>4 DEF Toggled
    <3> QED BY <3>1, <3>2 DEF Part
  <2>3. Behind(<< >>, << >>) = << >>
    <3>1. << >> \in Seq(Chars)
      OBVIOUS
    <3> QED BY <3>1, NothingBehind
  <2>4. typed' = Unread(k, d)'
    BY <2>1, <2>2, <2>3 DEF Unread
  <2> QED BY <1>1, <2>1, <2>4 DEF RIInv
<1> QED BY <1>1, <1>3, <1>4

\* Every other action settles what was typed.
LEMMA InterruptStep == ASSUME SleepsFit, RIInv, Interrupt PROVE RIInv'
<1>1. KernelCall /\ typed' = Settled(typed) /\ DIInv
  BY DEF Interrupt, RIInv
<1>2. Next
  BY <1>1 DEF KernelCall, Next, OtherCall, OwnCall, KillUser
<1>3. Runs
  BY <1>1, <1>2, TakesTurn DEF DIInv
<1> QED BY <1>1, <1>3, KernelCallKeeps, PassStep

LEMMA RestStep == ASSUME SleepsFit, RIInv, Rest PROVE RIInv'
<1>1. DIInv /\ typed' = Settled(typed)
  BY DEF Rest, RIInv
<1>2. ASSUME Silent \/ Resume PROVE DIInv' /\ Passes(k, d, k', d')
  <2>1. Next
    BY <1>2 DEF Silent, Resume, Next, OtherCall, OwnCall
  <2>2. Runs
    BY <1>1, <2>1, TakesTurn DEF DIInv
  <2> QED BY <1>1, <1>2, <2>2, SilentKeeps, ResumeKeeps
<1>3. ASSUME NEW fd \in Fds, NEW n \in Sizes, Write(fd, n)
      PROVE  DIInv' /\ Passes(k, d, k', d')
  BY <1>1, <1>3, WriteStep DEF Quietly
<1>4. ASSUME NEW fd \in Fds, NEW command \in Commands, NEW args \in Arguments,
             Ioctl(fd, command, args)
      PROVE  DIInv' /\ Passes(k, d, k', d')
  BY <1>1, <1>4, IoctlStep DEF Quietly
<1>5. DIInv' /\ Passes(k, d, k', d')
  BY <1>2, <1>3, <1>4 DEF Rest
<1> QED BY <1>1, <1>5, PassStep

LEMMA StepReading == ASSUME SleepsFit, RIInv, RNext PROVE RIInv'
<1>1. CASE \E c \in Keys : Press(c)
  BY <1>1, PressStep
<1>2. CASE \E fd \in Fds, n \in Sizes : ReadKeys(fd, n)
  BY <1>2, TakeStep
<1>3. CASE Interrupt
  BY <1>3, InterruptStep
<1>4. CASE OpenClose
  BY <1>4, OpenCloseStep
<1>5. CASE Rest
  BY <1>5, RestStep
<1> QED BY <1>1, <1>2, <1>3, <1>4, <1>5 DEF RNext

\* At boot nothing has been typed.
LEMMA InitReading == RInit => RIInv
<1> SUFFICES ASSUME RInit PROVE RIInv
  OBVIOUS
<1>1. DIInv /\ typed = << >> /\ d.kbd = KbdOff
  BY InitDevices DEF RInit, DInit, DeviceBoot
<1>2. d.kbd.buf = << >> /\ d.kbd.pcb = NULL
  BY <1>1 DEF KbdOff
<1>3. << >> \in Seq(Chars)
  OBVIOUS
<1>4. typed = Unread(k, d)
  BY <1>1, <1>2, <1>3, NothingBehind DEF Unread, Part
<1> QED BY <1>1, <1>2, <1>4 DEF RIInv

(***************************************************************************)
(* KeysAreReadInOrder: no key is lost, doubled or moved between the        *)
(* interrupt that accepts it and the read that returns it, for buffers and *)
(* reads of any length: reads that take a part of the driver's buffer,     *)
(* readers that get their characters one by one or are broken off by a     *)
(* signal, and keyboards that are closed and opened again in between       *)
(* (c/kbd.c: kbd_read, kbdint_handler, buf_copy and kbd_close).            *)
(***************************************************************************)
THEOREM KeysAreReadInOrder == ASSUME SleepsFit PROVE RSpec => []KeysInOrder
<1>1. RInit => RIInv
  BY InitReading
<1>2. RIInv /\ [RNext]_<< k, d, typed >> => RIInv'
  <2>1. CASE RNext
    BY <2>1, StepReading
  <2>2. CASE UNCHANGED << k, d, typed >>
    <3>1. DIInv => DIInv'
      BY <2>2 DEF DIInv
    <3>2. Unread(k, d)' = Unread(k, d)
      BY <2>2 DEF Unread, Part
    <3> QED BY <2>2, <3>1, <3>2 DEF RIInv
  <2> QED BY <2>1, <2>2
<1>3. RIInv => KeysInOrder
  BY UnreadShown DEF RIInv
<1> QED BY <1>1, <1>2, <1>3, PTL DEF RSpec
=============================================================================
