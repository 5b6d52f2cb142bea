------------------------------ MODULE Devices ------------------------------
(***************************************************************************)
(* The device layer and its drivers: c/di_calls.c, c/kbd.c, c/zerorand.c   *)
(* and the cases of c/disp.c that call them, over the kernel of module     *)
(* Kernel.  A device operation takes m, a record of the kernel memory k    *)
(* and the device memory d, to the memories it leaves behind.              *)
(*                                                                         *)
(* Values that calls return matter here, because the keyboard counts the   *)
(* bytes of a read in the reader's rc.  The result of a call that is not a *)
(* device call is Other.                                                   *)
(***************************************************************************)
EXTENDS Kernel

CONSTANTS
  FD_TABLE_SIZE,   \* descriptors of a process
  BUF_LEN,         \* characters the keyboard driver can hold
  DeviceNumbers,   \* the arguments of sysopen
  Sizes,           \* the buffer lengths of sysread and syswrite
  Commands,        \* the commands of sysioctl
  Keys,            \* the characters a key press can give, see module ScanCodes
  Eofs             \* the end-of-file characters COMMAND_EOF sets

ASSUME DevicesAssumption ==
  /\ FD_TABLE_SIZE \in Nat \ {0} /\ BUF_LEN \in Nat \ {0}
  /\ DeviceNumbers \subseteq Int /\ Sizes \subseteq Int

VARIABLE d     \* the device memory

Fds == 0 .. FD_TABLE_SIZE - 1
ZERO == 0
RAND == 1
KEYBOARD == 2
devtab == {ZERO, RAND, KEYBOARD}

\* In a descriptor NULL stands for no device, so it must be none.
ASSUME DevtabAssumption == NULL \notin devtab

DEV_OK == 0
DEV_FAIL == -1

\* The static variable kbd, cleared.  buf has buff_ind characters.
KbdOff == [state |-> FALSE, echo |-> FALSE, eof |-> "nul", eof_flag |-> FALSE,
           pcb |-> NULL, buf |-> << >>]

(***************************************************************************)
(* The device memory at boot.  fdt and rc are fields of the pcb; saved has *)
(* the returnValue of each signal frame of k.frames.  A process executes   *)
(* in a context: its own, or that of the handler on top.  text has, for    *)
(* each context, the buffer of the read it made last, or NULL when its     *)
(* last call was another.  request has the fields buf, as the context      *)
(* whose buffer it is, and bufflen of a pcb; it is NULL while the process  *)
(* is not in DEV_BLOCK, for nobody looks at them then.  irq says that the  *)
(* keyboard's interrupt is enabled.                                        *)
(***************************************************************************)
DeviceBoot ==
  [ fdt     |-> [p \in Slots |-> [f \in Fds |-> NULL]],
    rc      |-> [p \in Slots |-> 0],
    saved   |-> [p \in Slots |-> << >>],
    request |-> [p \in Slots |-> NULL],
    text    |-> [p \in Slots |-> << NULL >>],
    kbd     |-> KbdOff,
    irq     |-> FALSE ]

Other == NULL   \* the result of a call that is not a device call

context(m, p) == Len(m.k.frames[p]) + 1

\* p's call returns n; it read nothing, or read the text t.
returns(m, p, n) ==
  [m EXCEPT !.d.rc[p] = n, !.d.text[p][context(m, p)] = NULL]
reads(m, p, t) ==
  [m EXCEPT !.d.rc[p] = Len(t), !.d.text[p][context(m, p)] = t]
-----------------------------------------------------------------------------
(* The keyboard driver.                                                    *)

\* enable_irq of the keyboard's interrupt.
enable_irq(m, disable) == [m EXCEPT !.d.irq = ~ disable]

\* kbd_open and kbd_close, where they succeed.
kbd_open(m, p) == [enable_irq(m, FALSE) EXCEPT !.d.kbd.state = TRUE, !.d.kbd.pcb = p]
kbd_close(m) == [enable_irq(m, TRUE) EXCEPT !.d.kbd = KbdOff]

\* buf_copy: how many characters it moves, up to the end of a line or file.
buf_copy(kbd, n) ==
  LET all == Least({n, Len(kbd.buf)})
      ends == {i \in 1 .. all : \/ kbd.buf[i] = "newline"
                                \/ kbd.buf[i] = kbd.eof /\ kbd.eof_flag}
  IN  Least({all} \cup ends)

\* Fault: what is left is not moved to the front of the driver's buffer.
give_NotShifted(m, p, c, at, n) ==
  LET kbd == m.d.kbd
      len == buf_copy(kbd, n - at)
      t == SubSeq(m.d.text[p][c], 1, at) \o SubSeq(kbd.buf, 1, len)
  IN  [m EXCEPT !.d.kbd.buf = SubSeq(@, 1, Len(@) - len),
                !.d.text[p][c] = t,
                !.d.rc[p] = Len(t)]

\* What buf_copy yields goes behind the first at of n characters of a buffer.
give(m, p, c, at, n) ==
  LET kbd == m.d.kbd
      len == buf_copy(kbd, n - at)
      t == SubSeq(m.d.text[p][c], 1, at) \o SubSeq(kbd.buf, 1, len)
  IN  [m EXCEPT !.d.kbd.buf = SubSeq(@, len + 1, Len(@)),
                !.d.text[p][c] = t,
                !.d.rc[p] = Len(t)]

\* Fault: the end of file does not end a read.
Done_NotAtEof(m, p, c, n) ==
  LET t == m.d.text[p][c]
  IN  Len(t) = n \/ (t # << >> /\ t[Len(t)] = "newline")

\* A read of n characters has what it waits for.
Done(m, p, c, n) ==
  LET t == m.d.text[p][c]
  IN  \/ Len(t) = n
      \/ t # << >> /\ t[Len(t)] = "newline"
      \/ m.d.kbd.eof_flag /\ m.d.kbd.buf = << >>

\* kbd_read: takes what there is; unless that is all, the reader blocks.
kbd_read(m, p, n) ==
  LET c == context(m, p)
      none == reads(m, p, << >>)
      given == give(none, p, c, 0, n)
  IN  IF n = 0 \/ (m.d.kbd.eof_flag /\ m.d.kbd.buf = << >>) THEN none
      ELSE IF Done(given, p, c, n) THEN given
      ELSE [given EXCEPT !.k.state[p] = "DEV_BLOCK",
                         !.d.request[p] = [buf |-> c, bufflen |-> n]]

kbd_ioctl(m, p, command, eof) ==
  CASE ~ m.d.kbd.state              -> returns(m, p, DEV_FAIL)
    [] command = "COMMAND_EOF"      -> returns([m EXCEPT !.d.kbd.eof = eof], p, DEV_OK)
    [] command = "COMMAND_ECHO_ON"  -> returns([m EXCEPT !.d.kbd.echo = TRUE], p, DEV_OK)
    [] command = "COMMAND_ECHO_OFF" -> returns([m EXCEPT !.d.kbd.echo = FALSE], p, DEV_OK)
    [] OTHER                        -> returns(m, p, DEV_FAIL)

\* Fault: the test for room is off by one.
accept_PastEnd(m, c) ==
  IF Len(m.d.kbd.buf) > BUF_LEN \/ c = "none" THEN m
  ELSE [m EXCEPT !.d.kbd.buf = Append(@, c)]

(***************************************************************************)
(* The first half of kbdint_handler: the character c of the key is stored  *)
(* if there is room.  CTRL_D is stored as the end-of-file character, and   *)
(* the keyboard is silent after it.                                        *)
(***************************************************************************)
accept(m, c) ==
  IF Len(m.d.kbd.buf) = BUF_LEN \/ c = "none" THEN m
  ELSE IF c = "CTRL_D"
  THEN [enable_irq(m, TRUE) EXCEPT !.d.kbd.buf = Append(@, m.d.kbd.eof),
                                   !.d.kbd.eof_flag = TRUE]
  ELSE [m EXCEPT !.d.kbd.buf = Append(@, c)]

\* The reader is made ready: its read is over.
wake(m, p) == [m EXCEPT !.k = ready(@, p), !.d.request[p] = NULL]

\* Its second half: a blocked reader gets what there is, behind the rc
\* characters it has, and is made ready when it has what it waits for.
serve(m) ==
  LET p == m.d.kbd.pcb
      r == m.d.request[p]
      given == give(m, p, r.buf, m.d.rc[p], r.bufflen)
  IN  IF m.k.state[p] # "DEV_BLOCK" \/ m.d.kbd.buf = << >> THEN m
      ELSE IF Done(given, p, r.buf, r.bufflen) THEN wake(given, p) ELSE given

\* kbdint_handler; when the keyboard is off it only calls FAIL.
kbdint_handler(m, c) == IF m.d.kbd.state THEN serve(accept(m, c)) ELSE m
-----------------------------------------------------------------------------
(* The zero and the random device.                                         *)

zero_read(m, p, n) == reads(m, p, [i \in 1 .. n |-> "zero"])
zero_write(m, p, n) == returns(m, p, n)

\* rand gives 15 bits, of which rand_read makes four bytes: the third and the
\* fourth of them are always zero.
rand_read(m, p, n) ==
  reads(m, p, [i \in 1 .. n |-> IF (i - 1) % 4 < 2 THEN "random" ELSE "zero"])
rand_ioctl(m, p, command) ==
  returns(m, p, IF command = "RESET_SEED" THEN DEV_OK ELSE DEV_FAIL)
-----------------------------------------------------------------------------
(* The device layer.                                                       *)

\* The devices whose dvopen succeeds.
Available(m) == {dev \in devtab : dev = KEYBOARD => ~ m.d.kbd.state}

\* Fault: the descriptor is filled in although the device is in use.
di_open_InUse(m, p, dev) ==
  LET free == {f \in Fds : m.d.fdt[p][f] = NULL}
      opened == IF dev = KEYBOARD THEN kbd_open(m, p) ELSE m
  IN  IF dev \notin devtab \/ free = {} THEN returns(m, p, DEV_FAIL)
      ELSE returns([opened EXCEPT !.d.fdt[p][Least(free)] = dev], p, Least(free))

\* di_open: the first free descriptor refers to the device from now on.
di_open(m, p, dev) ==
  LET free == {f \in Fds : m.d.fdt[p][f] = NULL}
      opened == IF dev = KEYBOARD THEN kbd_open(m, p) ELSE m
  IN  IF free = {} \/ dev \notin Available(m) THEN returns(m, p, DEV_FAIL)
      ELSE returns([opened EXCEPT !.d.fdt[p][Least(free)] = dev], p, Least(free))

\* The device a descriptor refers to, NULL if it is none of p's.
DeviceOf(m, p, fd) == IF fd \in Fds THEN m.d.fdt[p][fd] ELSE NULL

di_close(m, p, fd) ==
  LET dev == DeviceOf(m, p, fd)
      closed == IF dev = KEYBOARD THEN kbd_close(m) ELSE m
  IN  IF dev = NULL \/ (dev = KEYBOARD /\ ~ m.d.kbd.state) THEN returns(m, p, DEV_FAIL)
      ELSE returns([closed EXCEPT !.d.fdt[p][fd] = NULL], p, DEV_OK)

(***************************************************************************)
(* di_write, di_read and di_ioctl; a write or read is of n characters.  A  *)
(* buffer that is refused for its length or its address has a negative n;  *)
(* arguments of sysioctl whose address is refused, for they are NULL, in   *)
(* the hole or so near the end of memory that a processStatuses would not  *)
(* fit, are NULL, others are the character that COMMAND_EOF sets.          *)
(* Only zero can be written to; the keyboard and rand refuse that, as zero *)
(* refuses every command.                                                  *)
(***************************************************************************)
di_write(m, p, fd, n) ==
  IF n >= 0 /\ DeviceOf(m, p, fd) = ZERO THEN zero_write(m, p, n)
  ELSE returns(m, p, DEV_FAIL)

di_read(m, p, fd, n) ==
  LET dev == DeviceOf(m, p, fd)
  IN  CASE n < 0 \/ dev = NULL         -> returns(m, p, DEV_FAIL)
        [] n >= 0 /\ dev = ZERO        -> zero_read(m, p, n)
        [] n >= 0 /\ dev = RAND        -> rand_read(m, p, n)
        [] n >= 0 /\ dev = KEYBOARD    -> kbd_read(m, p, n)

di_ioctl(m, p, fd, command, args) ==
  LET dev == IF args = NULL THEN NULL ELSE DeviceOf(m, p, fd)
  IN  CASE dev = KEYBOARD      -> kbd_ioctl(m, p, command, args)
        [] dev = RAND          -> rand_ioctl(m, p, command)
        [] dev \in {ZERO, NULL} -> returns(m, p, DEV_FAIL)
-----------------------------------------------------------------------------
(* The dispatcher's cases.                                                 *)

Machine == [k |-> k, d |-> d]

DInit == Init /\ d = DeviceBoot

\* A device call of the running process that leaves m behind.
DeviceCall(call, m) == UserCall(call) /\ k' = m.k /\ d' = m.d

Open(dev) == DeviceCall("OPEN", di_open(Machine, k.pcb, dev))
Close(fd) == DeviceCall("CLOSE", di_close(Machine, k.pcb, fd))
Write(fd, n) == DeviceCall("WRITE", di_write(Machine, k.pcb, fd, n))
Ioctl(fd, command, args) == DeviceCall("IOCTL", di_ioctl(Machine, k.pcb, fd, command, args))

\* SYS_READ: when the reader blocks another process is chosen.
Read(fd, n) ==
  LET m == di_read(Machine, k.pcb, fd, n)
      blocked == m.k.state[k.pcb] = "DEV_BLOCK"
  IN  DeviceCall("READ", IF blocked THEN [m EXCEPT !.k = next(@)] ELSE m)

\* KBD_INT: the interrupted process goes on, whoever became ready.
KbdInt(c) == /\ Running
             /\ d.irq
             /\ LET m == kbdint_handler(Machine, c) IN k' = m.k /\ d' = m.d

(***************************************************************************)
(* What the kernel's calls do to the device memory.  A process that a      *)
(* signal interrupts has its rc saved in the new frame and enters the      *)
(* context of the handler.  A new process starts in a context of its own,  *)
(* with the rc and the descriptors that its slot has.                      *)
(***************************************************************************)
interrupt(dm, p) ==
  LET rc == IF k.state[p] \in {"SLEEP", "BLOCKED", "WAITING"} THEN Other ELSE dm.rc[p]
  IN  [dm EXCEPT !.rc[p] = rc, !.request[p] = NULL,
                 !.saved[p] = Append(@, rc), !.text[p] = Append(@, NULL)]

follow(dm, k1) ==
  LET hit == {p \in Slots : Len(k1.frames[p]) > Len(k.frames[p])}
      born == {p \in Slots : k1.stack[p] /\ ~ k.stack[p]}
  IN  IF hit # {} THEN interrupt(dm, Least(hit))
      ELSE IF born = {} THEN dm
      ELSE [dm EXCEPT !.saved[Least(born)] = << >>, !.text[Least(born)] = << NULL >>]

\* The running process has made a call of the kernel proper.  The rc of one
\* that signals itself is saved before the call's own result is put there.
Called ==
  LET asked == [d EXCEPT !.text[k.pcb][context(Machine, k.pcb)] = NULL]
  IN  d' = [follow(asked, k') EXCEPT !.rc[k.pcb] = Other]

KernelCall == /\ \/ Create
                 \/ SetPrio
                 \/ \E s \in Semaphores : P(s)
                 \/ \E s \in Semaphores : V(s)
                 \/ \E s \in Signals, handler \in BOOLEAN : SetSignal(s, handler)
                 \/ \E id \in 0 .. MaxPid : Wait(id)
                 \/ KillUser
                 \/ \E ms \in Millis : SysSleep(ms)
              /\ Called

\* What returns nothing to the caller.
Silent == (Yield \/ Stop \/ TimerInt) /\ UNCHANGED d

\* Fault: SYS_SIGRETURN leaves the rc of the handler in place.
Resume_RcKept ==
  LET p == k.pcb
      back == [d EXCEPT !.saved[p] = SubSeq(@, 1, Len(@) - 1),
                        !.text[p] = SubSeq(@, 1, Len(@) - 1)]
  IN  /\ SigReturn
      /\ d' = IF Len(k'.frames[p]) = Len(k.frames[p]) THEN interrupt(back, p) ELSE back

\* SYS_SIGRETURN: rc is what it was when the handler was entered; a signal
\* that was remembered may interrupt the process at once.
Resume ==
  LET p == k.pcb
      n == Len(d.saved[p])
      back == [d EXCEPT !.rc[p] = d.saved[p][n],
                        !.saved[p] = SubSeq(@, 1, n - 1),
                        !.text[p] = SubSeq(@, 1, n)]
  IN  /\ SigReturn
      /\ d' = IF Len(k'.frames[p]) = Len(k.frames[p]) THEN interrupt(back, p) ELSE back

Arguments == Eofs \cup {NULL}

DNext == \/ KernelCall
         \/ Silent
         \/ Resume
         \/ \E dev \in DeviceNumbers : Open(dev)
         \/ \E fd \in Fds \cup {-1} : Close(fd)
         \/ \E fd \in Fds, n \in Sizes : Write(fd, n)
         \/ \E fd \in Fds, n \in Sizes : Read(fd, n)
         \/ \E fd \in Fds, command \in Commands, args \in Arguments :
              Ioctl(fd, command, args)
         \/ \E c \in Keys : KbdInt(c)

DSpec == DInit /\ [][DNext]_<< k, d >>
-----------------------------------------------------------------------------
Chars == Keys \cup Eofs \cup {"nul", "zero", "random"}

\* The types of the device memory; the driver's buffer is never overrun.
DTypeOK ==
  /\ Len(d.kbd.buf) <= BUF_LEN
  /\ d \in
        [ fdt     : [Slots -> [Fds -> devtab \cup {NULL}]],
          rc      : [Slots -> Int \cup {Other}],
          saved   : [Slots -> Seq(Int \cup {Other})],
          request : [Slots -> [buf : Nat, bufflen : Nat] \cup {NULL}],
          text    : [Slots -> Seq(Seq(Chars) \cup {NULL})],
          kbd     : [state : BOOLEAN, echo : BOOLEAN, eof : Chars,
                     eof_flag : BOOLEAN, pcb : Pointers, buf : Seq(Chars)],
          irq     : BOOLEAN ]

(***************************************************************************)
(* The keyboard is on exactly while one descriptor of one slot refers to   *)
(* it, and that slot is the one the interrupt handler serves, whatever     *)
(* opens, closes, stops and reuses of slots came before.  So the driver's  *)
(* two FAIL calls, for closing a keyboard that is off and for an interrupt *)
(* from one, are not reached; until the end of file, the owner is heard.   *)
(***************************************************************************)
OneDescriptor ==
  LET refs == {r \in Slots \X Fds : d.fdt[r[1]][r[2]] = KEYBOARD} IN
  /\ refs = {} <=> ~ d.kbd.state
  /\ \A r, s \in refs : r = s
  /\ \A r \in refs : r[1] = d.kbd.pcb
  /\ d.irq <=> d.kbd.state /\ ~ d.kbd.eof_flag

(***************************************************************************)
(* A reader is never blocked by input that is already there: while it      *)
(* waits the driver's buffer is empty, it has no complete line, its buffer *)
(* is not full and the end of file has not been typed, so that a next key  *)
(* can complete the read (kbd_read and kbdint_handler in c/kbd.c).  The    *)
(* end-of-file character must be one that no key gives.                    *)
(***************************************************************************)
BlockedReader ==
  \A p \in Slots :
    (k.state[p] = "DEV_BLOCK" /\ d.kbd.eof \notin Keys) =>
      /\ d.kbd.pcb = p
      /\ d.kbd.buf = << >>
      /\ d.irq
      /\ ~ Done(Machine, p, d.request[p].buf, d.request[p].bufflen)

(***************************************************************************)
(* What a read returns is the number of characters in the reader's buffer, *)
(* although they may have come one by one, the read may have been broken   *)
(* off by a signal (c/signal.c:68), and handlers with reads of their own   *)
(* may have run before the reader sees the value (c/disp.c:122).           *)
(***************************************************************************)
ReadCountsBytes ==
  \A p \in Slots : k.state[p] # "STOPPED" =>
    LET values == Append(d.saved[p], d.rc[p]) IN
    /\ Len(values) = Len(d.text[p]) /\ Len(d.saved[p]) = Len(k.frames[p])
    /\ \A c \in DOMAIN values : d.text[p][c] # NULL => values[c] = Len(d.text[p][c])
=============================================================================
