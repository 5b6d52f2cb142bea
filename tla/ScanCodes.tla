----------------------------- MODULE ScanCodes -----------------------------
(***************************************************************************)
(* The translation of scan codes to characters in c/kbd.c.  state is the   *)
(* set of the flags that are on; characters are numbers, 0 where a table   *)
(* has none.                                                               *)
(***************************************************************************)
EXTENDS Integers, Sequences, FiniteSetsExt

KEY_UP == 128   \* the bit of a scan code that says the key was released

LSHIFT == 42
RSHIFT == 54
LMETA  == 56
LCTL   == 29
CAPSL  == 58
EXTESC == 224

Flags == {"INCTL", "INSHIFT", "CAPSLOCK", "INMETA", "EXTENDED"}
Bit == [INCTL |-> 1, INSHIFT |-> 2, CAPSLOCK |-> 4, INMETA |-> 8, EXTENDED |-> 16]
NOCHAR == 256

\* The tables, from code 1 on; code 0 has no character in any of them.
kbcode ==
  << 27, 49, 50, 51, 52, 53, 54, 55, 56, 57, 48, 45, 61, 8, 9, 113, 119, 101, 114,
     116, 121, 117, 105, 111, 112, 91, 93, 10, 0, 97, 115, 100, 102, 103, 104, 106,
     107, 108, 59, 39, 96, 0, 92, 122, 120, 99, 118, 98, 110, 109, 44, 46, 47,
     0, 0, 0, 32 >>
kbshift ==
  << 0, 33, 64, 35, 36, 37, 94, 38, 42, 40, 41, 95, 43, 8, 9, 81, 87, 69, 82,
     84, 89, 85, 73, 79, 80, 123, 125, 10, 0, 65, 83, 68, 70, 71, 72, 74,
     75, 76, 58, 34, 126, 0, 124, 90, 88, 67, 86, 66, 78, 77, 60, 62, 63,
     0, 0, 0, 32 >>
kbctl ==
  << 0, 0, 0, 0, 0, 0, 0, 0, 0, 0, 0, 31, 0, 8, 9, 17, 23, 5, 18,
     20, 25, 21, 9, 15, 16, 27, 29, 10, 0, 1, 19, 4, 6, 7, 8, 10,
     11, 12, 0, 0, 0, 0, 28, 26, 24, 3, 22, 2, 14, 13 >>

InTable(table, code) == code \in 0 .. Len(table)
Entry(table, code) == IF code = 0 THEN 0 ELSE table[code]

\* The flag that a special key sets while it is down.
FlagOf(code) == CASE code \in {LSHIFT, RSHIFT} -> {"INSHIFT"}
                  [] code = CAPSL              -> {"CAPSLOCK"}
                  [] code = LCTL               -> {"INCTL"}
                  [] code = LMETA              -> {"INMETA"}
                  [] code = EXTESC             -> {"EXTENDED"}
                  [] OTHER                     -> {}

\* The character of an ordinary key.  Shift and caps lock undo each other.
character(state, code) ==
  LET upper == ("CAPSLOCK" \in state) # ("INSHIFT" \in state)
      past == \/ "INSHIFT" \in state /\ ~ InTable(kbshift, code)
              \/ "INCTL" \in state /\ ~ InTable(kbctl, code)
      ch == CASE "INCTL" \in state          -> Entry(kbctl, code)
              [] "INCTL" \notin state /\ ~ InTable(kbcode, code) -> NOCHAR
              [] OTHER                      -> Entry(IF upper THEN kbshift ELSE kbcode, code)
  IN  IF past THEN NOCHAR ELSE IF "INMETA" \in state THEN ch + 128 ELSE ch

\* The flags themselves are given as the character.
extchar(state) ==
  LET left == state \ {"EXTENDED"}
  IN  [state |-> left, ch |-> MapThenSumSet(LAMBDA flag : Bit[flag], left)]

\* Fault: letting the control key go is not noticed.
kbtoa_ControlKept(state, code) ==
  LET key == code % KEY_UP
  IN  CASE "EXTENDED" \in state -> extchar(state)
        [] "EXTENDED" \notin state /\ code >= KEY_UP ->
             [state |-> state \ (FlagOf(key) \ {"INCTL"}), ch |-> NOCHAR]
        [] "EXTENDED" \notin state /\ code < KEY_UP /\ FlagOf(code) # {} ->
             [state |-> state \cup FlagOf(code), ch |-> NOCHAR]
        [] OTHER                -> [state |-> state, ch |-> character(state, code)]

(***************************************************************************)
(* kbtoa: the flags after a scan code and the character it gives.  EXTESC  *)
(* itself has the bit KEY_UP, so it is taken for a key that is released    *)
(* and the flag EXTENDED is never set; the code behind it counts as if it  *)
(* had come alone.                                                         *)
(***************************************************************************)
kbtoa(state, code) ==
  LET key == code % KEY_UP
  IN  CASE "EXTENDED" \in state -> extchar(state)
        [] "EXTENDED" \notin state /\ code >= KEY_UP ->
             [state |-> state \ FlagOf(key), ch |-> NOCHAR]
        [] "EXTENDED" \notin state /\ code < KEY_UP /\ FlagOf(code) # {} ->
             [state |-> state \cup FlagOf(code), ch |-> NOCHAR]
        [] OTHER                -> [state |-> state, ch |-> character(state, code)]
=============================================================================
