------------------------------- MODULE Tokens -------------------------------
(***************************************************************************)
(* The shell's tokenizer: token of c/user.c.  A line is a sequence of      *)
(* characters that ends with "newline" or "nul", the value of kbd_eof; t   *)
(* has the fields of a tok_t, and space and stop, the variable space and   *)
(* whether the loop of token has ended.                                    *)
(***************************************************************************)
EXTENDS Integers, Sequences

CONSTANT BUFFERSIZE   \* the most characters a token has

ASSUME TokensAssumption == BUFFERSIZE \in Nat

\* The buffer behind the line is filled with zeros.
CharAt(line, i) == IF i \in DOMAIN line THEN line[i] ELSE "nul"

\* The first character from i on that is not blank.
SkipBlanks(line, i) ==
  CHOOSE j \in i .. Len(line) + 1 :
    /\ CharAt(line, j) # "blank"
    /\ \A x \in i .. j - 1 : CharAt(line, x) = "blank"

\* Fault: the detach flag outlives the word behind the character.
turn_DetachKept(line, t) ==
  LET at == SkipBlanks(line, t.ind)
      c  == CharAt(line, at)
      s  == [t EXCEPT !.ind = at, !.space = @ \/ at # t.ind]
  IN  CASE c = "newline" -> [s EXCEPT !.ind = @ + 1, !.state = "ENTER", !.stop = TRUE]
        [] c = "nul"     -> [s EXCEPT !.ind = @ + 1, !.state = "EOF", !.stop = TRUE]
        [] c = "amp"     -> [s EXCEPT !.ind = @ + 1, !.detach = TRUE]
        [] OTHER         -> IF s.space THEN [s EXCEPT !.stop = TRUE]
                            ELSE [s EXCEPT !.str = Append(@, c), !.ind = @ + 1]

\* One turn of the loop.  A blank ends the token, but only when what follows
\* it is a character of a word.
turn(line, t) ==
  LET at == SkipBlanks(line, t.ind)
      c  == CharAt(line, at)
      s  == [t EXCEPT !.ind = at, !.space = @ \/ at # t.ind]
  IN  CASE c = "newline" -> [s EXCEPT !.ind = @ + 1, !.state = "ENTER", !.stop = TRUE]
        [] c = "nul"     -> [s EXCEPT !.ind = @ + 1, !.state = "EOF", !.stop = TRUE]
        [] c = "amp"     -> [s EXCEPT !.ind = @ + 1, !.detach = TRUE]
        [] OTHER         -> IF s.space THEN [s EXCEPT !.stop = TRUE]
                            ELSE [s EXCEPT !.detach = FALSE, !.str = Append(@, c),
                                           !.ind = @ + 1]

\* A token takes at most BUFFERSIZE turns.
token(line, tok) ==
  LET loop[i \in 0 .. BUFFERSIZE] ==
        CASE i = 0                       ->
               [tok EXCEPT !.str = << >>, !.space = FALSE, !.stop = FALSE]
          [] i > 0 /\ loop[i - 1].stop -> loop[i - 1]
          [] OTHER                       -> turn(line, loop[i - 1])
  IN  IF tok.state = "NORMAL" THEN loop[BUFFERSIZE] ELSE [tok EXCEPT !.str = << >>]

newtoken == [ind |-> 1, state |-> "NORMAL", detach |-> FALSE, str |-> << >>,
             space |-> FALSE, stop |-> FALSE]
=============================================================================
