------------------------------- MODULE Shell -------------------------------
(***************************************************************************)
(* The user processes of c/user.c over the kernel and its devices: root,   *)
(* which asks for a login and waits for the shell, the shell, and the      *)
(* processes of its commands a and t.                                      *)
(*                                                                         *)
(* A step of a process runs from the return of one system call to the      *)
(* next; at is the call it makes next, and the result of the last one is   *)
(* in its rc.  sysputs, sysgetpid and sysgetcputimes are passed over.  The *)
(* words of a line are left out: which command a line holds, and whether a *)
(* login is valid, is any choice.  The command test is left out too.       *)
(***************************************************************************)
EXTENDS Devices

CONSTANTS
  BUFFERSIZE,   \* length of the processes' line buffers
  CHUNK,        \* characters root reads at a time
  T_MILLIS,     \* how long t sleeps
  KillTargets   \* the pids given to command k

ASSUME ShellAssumption ==
  /\ BUFFERSIZE \in Nat /\ CHUNK \in 1 .. BUFFERSIZE /\ BUFFERSIZE % CHUNK = 0
  /\ T_MILLIS \in Nat /\ KillTargets \subseteq Nat
  /\ SIG_TABLE_SIZE > 1

VARIABLE u   \* the memory of the user processes

SIG21 == 0   \* the signal of command a

\* Root starts at its sysopen; its slot is the one after the idle process.
UserBoot ==
  [ prog   |-> [p \in Slots |-> IF p = 1 THEN "root" ELSE "none"],
    at     |-> [p \in Slots |-> "open"],
    fd     |-> [p \in Slots |-> 0],
    len    |-> [p \in Slots |-> 0],
    pid    |-> [p \in Slots |-> 0],
    eof    |-> [p \in Slots |-> FALSE],
    detach |-> [p \in Slots |-> FALSE],
    milliseconds |-> 0,
    shellpid     |-> 0 ]

UInit == DInit /\ u = UserBoot

\* The running process executes program prog itself, not a handler, and has
\* come to the given call.
me == k.pcb
At(prog, call) == k.frames[me] = << >> /\ u.prog[me] = prog /\ u.at[me] = call

GoTo(call) == u' = [u EXCEPT !.at[me] = call]

\* What the last read put into the buffer.
Line == d.text[me][1]
LastChar == IF Line = NULL \/ Line = << >> THEN "none" ELSE Line[Len(Line)]

\* syscreate of a program, by a process that leaves v and makes the given
\* call next.  It keeps the pid of the new one, or 0 when there was no room.
Spawn(prog, v, call) ==
  /\ Create
  /\ Called
  /\ LET born == {p \in Slots : k'.stack[p] /\ ~ k.stack[p]}
         first == IF prog = "shell" THEN "open" ELSE "sleep"
     IN  u' = [v EXCEPT
           !.prog = [p \in Slots |-> IF p \in born THEN prog ELSE @[p]],
           !.at   = [p \in Slots |-> IF p \in born THEN first
                                     ELSE IF p = me THEN call ELSE @[p]],
           !.pid[me] = IF born = {} THEN 0 ELSE k.pcb_id]

\* syswait for the process created last; it fails when that has stopped.
Join == \/ Wait(u.pid[me]) /\ Called
        \/ /\ UserCall("WAIT")
           /\ ~ CanWaitFor(k, me, u.pid[me])
           /\ UNCHANGED k /\ Called
-----------------------------------------------------------------------------
(* root                                                                    *)

RootOpen == At("root", "open") /\ Open(KEYBOARD) /\ GoTo("echo_on")

RootEchoOn == /\ At("root", "echo_on")
              /\ Ioctl(d.rc[me], "COMMAND_ECHO_ON", "nul")
              /\ u' = [u EXCEPT !.at[me] = "user", !.fd[me] = d.rc[me], !.len[me] = 0]

\* The two loops that read the user name and the password.
RootRead(loop, got) ==
  /\ At("root", loop)
  /\ Read(u.fd[me], CHUNK)
  /\ GoTo(got)

\* The test after each read: it goes on until the end of the line or the
\* file, or until the buffer is full.
Ended == LastChar \in {"newline", "nul"} \/ u.len[me] + d.rc[me] >= BUFFERSIZE

RootReadMore(got) ==
  /\ At("root", got)
  /\ ~ Ended
  /\ Read(u.fd[me], CHUNK)
  /\ u' = [u EXCEPT !.len[me] = @ + d.rc[me]]

\* Fault: the password is echoed.
RootEchoOff_Not == /\ At("root", "got_user")
                   /\ Ended /\ LastChar # "nul"
                   /\ Ioctl(u.fd[me], "COMMAND_ECHO_ON", "nul")
                   /\ u' = [u EXCEPT !.at[me] = "password", !.len[me] = 0]

RootEchoOff == /\ At("root", "got_user")
               /\ Ended /\ LastChar # "nul"
               /\ Ioctl(u.fd[me], "COMMAND_ECHO_OFF", "nul")
               /\ u' = [u EXCEPT !.at[me] = "password", !.len[me] = 0]

\* Fault: root opens the keyboard again without closing it.
RootGivesUp_Open == /\ \/ At("root", "got_user") /\ LastChar = "nul"
                       \/ At("root", "got_password")
                    /\ Ended
                    /\ Open(KEYBOARD)
                    /\ GoTo("echo_on")

\* The end of file, or a login that is not valid.
RootGivesUp == /\ \/ At("root", "got_user") /\ LastChar = "nul"
                  \/ At("root", "got_password")
               /\ Ended
               /\ Close(u.fd[me])
               /\ GoTo("open")

RootAccepts == /\ At("root", "got_password")
               /\ Ended /\ LastChar # "nul"
               /\ Close(u.fd[me])
               /\ GoTo("create")

RootCreate == At("root", "create") /\ Spawn("shell", u, "wait")

\* Fault: root does not wait for the shell.
RootWait_Not == At("root", "wait") /\ Open(KEYBOARD) /\ GoTo("echo_on")

RootWait == At("root", "wait") /\ Join /\ GoTo("open")

Root == \/ RootOpen \/ RootEchoOn \/ RootEchoOff
        \/ RootRead("user", "got_user") \/ RootRead("password", "got_password")
        \/ RootReadMore("got_user") \/ RootReadMore("got_password")
        \/ RootGivesUp \/ RootAccepts \/ RootCreate \/ RootWait
-----------------------------------------------------------------------------
(* shell                                                                   *)

ShellOpen == At("shell", "open") /\ Open(KEYBOARD) /\ GoTo("echo_on")

ShellEchoOn == /\ At("shell", "echo_on")
               /\ Ioctl(d.rc[me], "COMMAND_ECHO_ON", "nul")
               /\ u' = [u EXCEPT !.at[me] = "read", !.fd[me] = d.rc[me]]

ShellRead == At("shell", "read") /\ Read(u.fd[me], BUFFERSIZE) /\ GoTo("line")

\* A line that can be a command: not empty, too long or broken off.
Usable == /\ d.rc[me] \in 1 .. BUFFERSIZE - 1
          /\ LastChar \in {"newline", "nul"}

\* Fault: a read that was broken off leaves the keyboard open.
ShellRetry_Open == /\ At("shell", "line")
                   /\ ~ Usable
                   /\ Open(KEYBOARD)
                   /\ GoTo("echo_on")

ShellRetry == At("shell", "line") /\ ~ Usable /\ Close(u.fd[me]) /\ GoTo("open")

\* The shell has a command, that is a line with more than its end.
HasCommand == At("shell", "line") /\ Usable /\ d.rc[me] > 1
AtEof == LastChar = "nul"

\* No word, p or an unknown word: the shell asks again.
ShellNothing == /\ At("shell", "line")
                /\ Usable
                /\ Close(u.fd[me])
                /\ GoTo(IF AtEof THEN "stop" ELSE "open")

\* Too many words: the shell asks again, at the end of file too, for it has
\* not looked at the last of them.
ShellRefused == HasCommand /\ Close(u.fd[me]) /\ GoTo("open")

\* Command x.
ShellExit == HasCommand /\ Close(u.fd[me]) /\ GoTo("stop")

\* Sleepers who are interrupted sleep alone here: with others, c/sleep.c:108
\* may leave the delta list broken.
SleepsAlone(p) == k.state[p] = "SLEEP" => \A q \in Slots \ {p} : k.state[q] # "SLEEP"

\* Command k, for another process and for the shell, which closes first.
ShellKill == /\ HasCommand
             /\ \E id \in KillTargets \ {k.pid[me]} :
                  /\ \A p \in Slots : k.pid[p] = id => SleepsAlone(p)
                  /\ Kill(id, KillSignal)
             /\ Called
             /\ u' = [u EXCEPT !.at[me] = "close", !.eof[me] = AtEof]

ShellKillItself == HasCommand /\ Close(u.fd[me]) /\ GoTo("kill")

ShellDies == /\ At("shell", "kill")
             /\ Kill(k.pid[me], KillSignal)
             /\ Called
             /\ UNCHANGED u

\* Commands a and t, with or without &.
ShellAlarm == /\ HasCommand
              /\ SetSignal(SIG21, TRUE)
              /\ Called
              /\ \E ms \in Millis, detach \in BOOLEAN :
                   u' = [u EXCEPT !.at[me] = "create", !.eof[me] = AtEof,
                                  !.detach[me] = detach,
                                  !.milliseconds = ms, !.shellpid = k.pid[me]]

AfterCreate(detach) == IF detach THEN "close" ELSE "wait"

ShellCreate == /\ At("shell", "create")
               /\ Spawn("a", u, AfterCreate(u.detach[me]))

ShellTick == /\ HasCommand
             /\ \E detach \in BOOLEAN :
                  Spawn("t", [u EXCEPT !.eof[me] = AtEof], AfterCreate(detach))

ShellWait == At("shell", "wait") /\ Join /\ GoTo("close")

ShellClose == /\ At("shell", "close")
              /\ Close(u.fd[me])
              /\ GoTo(IF u.eof[me] THEN "stop" ELSE "open")

Shell == \/ ShellOpen \/ ShellEchoOn \/ ShellRead \/ ShellRetry \/ ShellNothing
         \/ ShellRefused \/ ShellExit \/ ShellKill \/ ShellKillItself \/ ShellDies
         \/ ShellAlarm \/ ShellCreate \/ ShellTick \/ ShellWait \/ ShellClose

\* The handler sig21 of the shell uninstalls itself and returns.
Sig21 == /\ k.frames[me] # << >>
         /\ IF SIG21 \in k.sigTable[me] THEN SetSignal(SIG21, FALSE) /\ Called ELSE Resume
         /\ UNCHANGED u
-----------------------------------------------------------------------------
(* The processes of the commands.                                          *)

AlarmSleep == /\ At("a", "sleep")
              /\ SysSleep(u.milliseconds)
              /\ Called
              /\ GoTo("signal")

AlarmKill == /\ At("a", "signal")
             /\ Kill(u.shellpid, SIG21)
             /\ Called
             /\ GoTo("stop")

TickSleep == At("t", "sleep") /\ SysSleep(T_MILLIS) /\ Called /\ UNCHANGED u

(***************************************************************************)
(* The end of a process: its function returns, or it is killed.  A slot is *)
(* reused with the waiters of its last owner (c/create.c:47); the runs of  *)
(* this module go as far as no process ends that would wake one which does *)
(* not wait for it.                                                        *)
(***************************************************************************)
WakesWaiter(p) ==
  LET w == k.wait_head[p]
  IN  w # NULL => k.state[w] = "WAITING" /\ k.waiting_on[w] = p

Finish == /\ u.at[me] = "stop" \/ Killed(me)
          /\ WakesWaiter(me)
          /\ Stop
          /\ UNCHANGED d
          /\ u' = [u EXCEPT !.prog[me] = "none", !.pid[me] = 0,
                            !.eof[me] = FALSE, !.detach[me] = FALSE]

\* The interrupts.
Preempt == TimerInt /\ UNCHANGED << d, u >>
Press(c) == KbdInt(c) /\ UNCHANGED u

UNext == \/ Root \/ Shell \/ Sig21
         \/ AlarmSleep \/ AlarmKill \/ TickSleep \/ Finish
         \/ Preempt
         \/ \E c \in Keys : Press(c)

USpec == UInit /\ [][UNext]_<< k, d, u >>
-----------------------------------------------------------------------------
Alive(p, prog) == k.stack[p] /\ u.prog[p] = prog /\ ~ Killed(p)

(***************************************************************************)
(* Root and the shell hand the keyboard over: whenever one of them opens   *)
(* it, the other has closed it, so that the sysopen that neither of them   *)
(* tests gives a descriptor, whatever is typed, killed or signalled.       *)
(***************************************************************************)
KeyboardHandedOver ==
  \A p \in Slots :
    /\ Alive(p, "root") \/ Alive(p, "shell")
    /\ k.frames[p] = << >> /\ u.at[p] = "echo_on"
    => d.rc[p] \in Fds

(***************************************************************************)
(* Root's index stays within its buffers although it adds the result of    *)
(* each sysread to it without a test (c/user.c:211 and 228): in the loops  *)
(* of a login, where nothing signals root, every read gives characters.    *)
(***************************************************************************)
RootIndexInBuffer ==
  \A p \in Slots :
    Alive(p, "root") /\ k.pcb = p /\ u.at[p] \in {"got_user", "got_password"} =>
      /\ d.rc[p] \in 1 .. CHUNK
      /\ u.len[p] + d.rc[p] <= BUFFERSIZE

(***************************************************************************)
(* While root reads a password the keyboard does not echo it, and a user   *)
(* name and a command are echoed: each prompt finds the driver as its      *)
(* COMMAND_ECHO call left it, whoever opened and closed it before.         *)
(***************************************************************************)
EchoMatchesPrompt ==
  \A p \in Slots :
    /\ Alive(p, "root") /\ u.at[p] \in {"password", "got_password"} => ~ d.kbd.echo
    /\ Alive(p, "root") /\ u.at[p] \in {"user", "got_user"} => d.kbd.echo
    /\ Alive(p, "shell") /\ u.at[p] \in {"read", "line"} => d.kbd.echo

(***************************************************************************)
(* Nobody is asked to log in while a shell lives: root waits until the     *)
(* last one has stopped, however it came to its end.                       *)
(***************************************************************************)
OneLogin ==
  \A p, q \in Slots :
    Alive(p, "root") /\ Alive(q, "shell") /\ k.pcb = p => u.at[p] \in {"wait", "open"}
=============================================================================
