------------------------------ MODULE Reading ------------------------------
(***************************************************************************)
(* What is typed and what reads return: the devices of module Devices,     *)
(* with the characters beside them that nobody has been told of yet.       *)
(***************************************************************************)
EXTENDS Devices

VARIABLE typed   \* accepted keys that no read has returned to its caller

\* The keyboard's owner, and whether it waits for keys.
Owner == d.kbd.pcb
Awaits(k1) == Owner # NULL /\ k1.state[Owner] = "DEV_BLOCK"

\* A read that returns n characters tells its caller of the first n of all.
Told(all, n) == SubSeq(all, n + 1, Len(all))

\* What is left of all when a blocked read returns in this step, if one does.
Settled(all) == IF Awaits(k) /\ ~ Awaits(k') THEN Told(all, d'.rc[Owner]) ELSE all

RInit == DInit /\ typed = << >>

\* A key press: the character is accepted if the driver has room for it.
Press(c) ==
  LET char == IF c = "CTRL_D" THEN d.kbd.eof ELSE c
      all == IF Len(d.kbd.buf) = BUF_LEN \/ c = "none" THEN typed ELSE Append(typed, char)
  IN  /\ KbdInt(c)
      /\ typed' = Settled(all)

\* sysread: it returns at once unless it is refused or the reader blocks.
ReadKeys(fd, n) ==
  /\ Read(fd, n)
  /\ typed' = IF /\ d.fdt[k.pcb][fd] = KEYBOARD /\ n >= 0
                 /\ k'.state[k.pcb] # "DEV_BLOCK"
              THEN Told(typed, d'.rc[k.pcb])
              ELSE typed

\* A call that may signal a blocked reader: its read returns what it has.
Interrupt == KernelCall /\ typed' = Settled(typed)

\* Opening and closing the keyboard discard what nobody has read.
OpenClose ==
  /\ \/ \E dev \in DeviceNumbers : Open(dev)
     \/ \E fd \in Fds \cup {-1} : Close(fd)
  /\ typed' = IF d'.kbd.state = d.kbd.state THEN typed ELSE << >>

Rest == /\ \/ Silent
           \/ Resume
           \/ \E fd \in Fds, n \in Sizes : Write(fd, n)
           \/ \E fd \in Fds, command \in Commands, args \in Arguments :
                Ioctl(fd, command, args)
        /\ typed' = Settled(typed)

RNext == \/ \E c \in Keys : Press(c)
         \/ \E fd \in Fds, n \in Sizes : ReadKeys(fd, n)
         \/ Interrupt
         \/ OpenClose
         \/ Rest

RSpec == RInit /\ [][RNext]_<< k, d, typed >>
-----------------------------------------------------------------------------
(***************************************************************************)
(* No key is lost, doubled or moved between the interrupt that accepts it  *)
(* and the read that returns it: what nobody has been told of is what the  *)
(* blocked reader has in its buffer, followed by what the driver has in    *)
(* its own.  A read that a signal breaks off returns its part, and the     *)
(* keys that come after it are for the next read (c/kbd.c:222).            *)
(***************************************************************************)
KeysInOrder ==
  typed = (IF Awaits(k) THEN d.text[Owner][d.request[Owner].buf] ELSE << >>) \o d.kbd.buf
=============================================================================
