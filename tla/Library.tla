------------------------------ MODULE Library ------------------------------
(***************************************************************************)
(* The pure parts of the system, driven over all inputs up to a bound: the *)
(* keyboard's translation of scan codes, the screen, the sort, the printing*)
(* and reading of numbers, and the shell's tokenizer.  routine is the one  *)
(* that is driven; input is what it has been given so far.                 *)
(*                                                                         *)
(* For the keyboard, kb has the keys that are held, the last key that went *)
(* down, the flags of the driver and the character it made.  For the screen*)
(* page is what an endless page has on it: its cells, the place at and the *)
(* number of the row top that the screen begins with.                      *)
(***************************************************************************)
EXTENDS ScanCodes, Console, Sort, Scan, Tokens, SequencesExt

CONSTANTS MaxOutput, MaxElements, Elements, MaxLine, MaxString, StringSize

VARIABLES routine, input, kb, screen, page

vars == <<routine, input, kb, screen, page>>

LibraryAssumption ==
  /\ {MaxOutput, MaxElements, MaxLine, MaxString, StringSize} \subseteq Nat /\ Elements \subseteq Nat
  /\ MaxLine + 1 < BUFFERSIZE   \* a longer line is refused by the shell
ASSUME LibraryAssumption

-----------------------------------------------------------------------------
(* The keyboard.  The right control key sends EXTESC in front of its code. *)

D == 32
J == 36
Enter == 28
Controls == {<<LCTL>>, <<EXTESC, LCTL>>}
Modifiers == Controls \cup {<<LSHIFT>>, <<RSHIFT>>, <<LMETA>>, <<CAPSL>>}
Keys == Modifiers \cup {<<D>>, <<J>>, <<Enter>>, <<53>>, <<87>>}

CTRL_D == 4
NEWLINE == 10

\* A key that goes down sends its codes, one that goes up the last of them
\* with the bit KEY_UP.  The interrupt handler takes the character as a byte.
Sent(state, key, up) ==
  LET first == IF Len(key) = 1 THEN state ELSE kbtoa(state, key[1]).state
  IN  kbtoa(first, key[Len(key)] + up)

KeyDown ==
  /\ routine = "kbtoa"
  /\ \E key \in Keys : LET r == Sent(kb.state, key, 0) IN
       kb' = [held |-> kb.held \cup ({key} \cap Modifiers), last |-> key,
              state |-> r.state, ch |-> r.ch % 256]
  /\ UNCHANGED <<routine, input, screen, page>>

KeyUp ==
  /\ routine = "kbtoa"
  /\ \E key \in kb.held : LET r == Sent(kb.state, key, KEY_UP) IN
       kb' = [held |-> kb.held \ {key}, last |-> << >>, state |-> r.state, ch |-> r.ch % 256]
  /\ UNCHANGED <<routine, input, screen, page>>

\* The two characters that end a read come from the keys that are meant to
\* send them: the end of file from D while a control key is held, a newline
\* from Enter or from J with control, and Enter sends it unless alt is held.
\* (kbtoa and the tables of c/kbd.c)
EndsOfInput ==
  LET control == kb.held \cap Controls # {}
  IN  /\ kb.ch = CTRL_D => control /\ kb.last = <<D>>
      /\ kb.ch = NEWLINE => kb.last = <<Enter>> \/ (control /\ kb.last = <<J>>)
      /\ kb.last = <<Enter>> /\ <<LMETA>> \notin kb.held => kb.ch = NEWLINE

-----------------------------------------------------------------------------
(* The screen, and the page it is a window on. *)

PageCells == 0 .. COL * (ROW + TAB * MaxOutput) - 1
RowOf(at) == at \div COL

Written(p, c) == [p EXCEPT !.cells[p.at] = c, !.at = @ + 1]
OnPage(p, c) ==
  LET stop == TAB * (p.at \div TAB + 1)
      q == CASE c = "newline"   -> [p EXCEPT !.at = COL * (RowOf(@) + 1)]
             [] c = "return"    -> [p EXCEPT !.at = COL * RowOf(@)]
             [] c = "backspace" -> [p EXCEPT !.at = @ - 1]
             [] c = "tab"       -> [p EXCEPT !.at = stop, !.cells =
                                     [i \in PageCells |-> IF i \in p.at .. stop - 1
                                                          THEN "blank" ELSE @[i]]]
             [] OTHER           -> Written(p, c)
  IN  [q EXCEPT !.top = Max({@, RowOf(q.at) - ROW + 1})]

\* One character is printed.  A backspace at the first cell of the screen
\* would take the place in front of it, and is left out.
Output ==
  /\ routine = "kbmputc" /\ Len(input) < MaxOutput
  /\ \E c \in {"a", "tab", "backspace", "newline", "return"} :
       /\ c = "backspace" => screen.crtat > 0
       /\ screen' = kbmputc(screen, c)
       /\ page' = OnPage(page, c)
       /\ input' = Append(input, c)
  /\ UNCHANGED <<routine, kb>>

\* Scrolling loses nothing but the rows above and brings nothing back: the
\* screen always shows the last rows of what was printed, and the next
\* character goes where it belongs.  (kbmputc of c/kprintf.c)
ScreenIsWindow ==
  /\ screen.crtat = page.at - COL * page.top
  /\ \A i \in Cells : screen.cells[i] = page.cells[i + COL * page.top]

-----------------------------------------------------------------------------
(* The sort. *)

Element ==
  /\ routine = "qsort" /\ Len(input) < MaxElements
  /\ \E e \in Elements : input' = Append(input, e)
  /\ UNCHANGED <<routine, kb, screen, page>>

\* The array is sorted in place, nothing is lost or doubled by the exchanges,
\* and the calls are nested no deeper than the logarithm of its length, as
\* the longer part is not sorted by a call.  (qs1 of lib/libxc/qsort.c)
SortsInPlace ==
  LET n == Len(input)
      r == qsort([i \in 0 .. n - 1 |-> input[i + 1]], n)
      Count(s, e) == Cardinality({i \in DOMAIN s : s[i] = e})
  IN  routine = "qsort" =>
        /\ \A i \in 1 .. n - 1 : r.s[i - 1] <= r.s[i]
        /\ \A e \in Elements : Count(r.s, e) = Count(input, e)
        /\ n > 0 => 2 ^ r.deep <= n

-----------------------------------------------------------------------------
(* Printing and reading.  input has a field and the argument so far. *)

\* Any number is reached bit by bit, a string letter by letter.  A field has a
\* width min, written with digits or as a star; a string also a precision.
Field(l, zero, width, min) == [left |-> l, zero |-> zero, width |-> width, min |-> min]
Layouts == {Field(FALSE, FALSE, << >>, 0), Field(FALSE, FALSE, <<"5">>, 5),
            Field(TRUE, FALSE, <<"1", "2">>, 12), Field(FALSE, TRUE, <<"star">>, 12)}
NoArgument(f) == IF f = "s" THEN << >> ELSE 0
Fields == {p @@ [f |-> f, arg |-> NoArgument(f),
                 precision |-> IF f = "s" THEN <<"dot", "3">> ELSE << >>] :
             f \in {"d", "u", "o", "x", "b", "s"}, p \in Layouts}

\* A text with one directive.
Directive(d) ==
  <<"percent">> \o (IF d.left THEN <<"minus">> ELSE << >>)
    \o (IF d.zero THEN <<"0">> ELSE << >>) \o d.width \o d.precision \o <<d.f>>

Printed == doprnt(Directive(input), 1, IF input.width = <<"star">>
                                       THEN <<input.min, input.arg>> ELSE <<input.arg>>)

Bits ==
  /\ routine = "printf" /\ input.f # "s"
  /\ \E b \in {0, 1} :
       input' = [input EXCEPT !.arg = Wrap(2 * @ + b)]
  /\ UNCHANGED <<routine, kb, screen, page>>

Letters ==
  /\ routine = "printf" /\ input.f = "s" /\ Len(input.arg) < MaxString
  /\ \E c \in {"a", "b"} :
       input' = [input EXCEPT !.arg = Append(@, c)]
  /\ UNCHANGED <<routine, kb, screen, page>>

Unblanked(text) == SelectSeq(text, LAMBDA c : c # "blank")

\* A number that is printed is read back as it was, whatever its sign, by
\* atoi, or by sscanf with the same conversion, and fills its field: the
\* output has the width that was asked for, or as many characters as the
\* number needs.  Left out are binary numbers of more digits than the buffer
\* has.  A string is cut at the precision and filled up to the width, and
\* sscanf reads it, in two parts, without the filling.
\* (_doprnt and its _prtl functions, _doscan with _innum and _instr, atoi)
PrintedReadsBack ==
  LET arg  == input.arg
      word == CASE arg >= 0                  -> arg
                [] arg < 0 /\ input.f = "d"  -> - arg
                [] arg < 0 /\ input.f # "d"  -> arg + 2 ^ WIDTH
      base == CASE input.f \in {"d", "u"} -> 10 [] input.f = "o" -> 8
                [] input.f = "x" -> 16 [] input.f = "b" -> 2
      size[n \in 0 .. word] == IF n < base THEN 1 ELSE 1 + size[n \div base]
      need == size[word] + (IF input.f = "d" /\ arg < 0 THEN 1 ELSE 0)
  IN  /\ routine = "printf" /\ input.f # "s" /\ Stays(input.f, arg, StringSize) =>
           /\ Len(Printed) = Max({input.min, need})
           /\ input.f # "b" =>
                sscanf(Printed \o <<"comma">> \o Printed,
                       <<"percent", input.f, "blank", "comma", "percent", input.f>>)
                  = [n |-> 2, args |-> << <<arg>>, <<arg>> >>]
           /\ base = 10     => atoi(Printed) = arg
           /\ input.f = "b" => digits(Unblanked(Printed), 1, 2, 2).value = arg
      /\ routine = "printf" /\ input.f = "s" =>
           LET cut == SubSeq(arg, 1, Min({Len(arg), 3}))
               read == sscanf(Printed, <<"blank", "percent", "bracket", "a", "close",
                                         "percent", "s">>)
           IN  /\ Unblanked(Printed) = cut /\ Len(Printed) = Max({input.min, Len(cut)})
               /\ FlattenSeq(FlattenSeq(read.args)) = cut
               /\ read.n = -1 <=> cut = << >>

-----------------------------------------------------------------------------
(* The tokenizer. *)

Typed ==
  /\ routine = "token" /\ Len(input) < MaxLine
  /\ \E c \in {"a", "blank", "amp"} :
       /\ input = << >> => c = "a"
       /\ input' = Append(input, c)
  /\ UNCHANGED <<routine, kb, screen, page>>

\* The tokens the shell gets out of a line, the last one ends it.
RECURSIVE Tokens(_, _)
Tokens(line, tok) ==
  LET t == token(line, tok)
  IN  IF t.state = "NORMAL" THEN <<t>> \o Tokens(line, t) ELSE <<t>>

\* A line that begins with a word, and whose detach characters stand only at
\* its end, is cut at its blanks into just its words.  Every line, with detach
\* characters in any place, is detached at the end if and only if the last
\* character that is not blank says so, however it is ended.
\* (token of c/user.c; inside a word it leaves the character out as well,
\* where its comment at line 401 says "only ignore if its last")
WordsOfLine ==
  LET text  == SelectSeq(input, LAMBDA c : c # "amp")
      Starts == {i \in DOMAIN text : text[i] # "blank"
                                     /\ (i = 1 \/ text[i - 1] = "blank")}
      Ends  == {i \in DOMAIN text : text[i] # "blank"
                                    /\ (i = Len(text) \/ text[i + 1] = "blank")}
      Word(i) == SubSeq(text, i, Min({j \in Ends : j >= i}))
      Nth(n) == CHOOSE i \in Starts : Cardinality({j \in Starts : j <= i}) = n
      solid == Unblanked(input)
      AmpsLast == \A i, j \in DOMAIN solid :
                    i < j /\ solid[i] = "amp" => solid[j] = "amp"
  IN  routine = "token" /\ input # << >> => \A end \in {"newline", "nul"} :
        LET t == Tokens(Append(input, end), newtoken)
            last == t[Len(t)]
        IN  /\ AmpsLast => /\ Len(t) = Cardinality(Starts)
                           /\ \A n \in DOMAIN t : t[n].str = Word(Nth(n))
            /\ last.detach <=> solid[Len(solid)] = "amp"
            /\ last.state = (IF end = "nul" THEN "EOF" ELSE "ENTER")
-----------------------------------------------------------------------------
StartKb == [held |-> {}, last |-> << >>, state |-> {}, ch |-> 0]
StartScreen(at) == clean([i \in Cells |-> "boot"], at)
StartPage(at) == [cells |-> [i \in PageCells |-> IF i < at THEN "boot" ELSE "blank"],
                  at |-> at, top |-> 0]

Init ==
  /\ kb = StartKb
  /\ \/ /\ routine \in {"kbtoa", "qsort", "token"} /\ input = << >>
        /\ screen = StartScreen(0) /\ page = StartPage(0)
     \/ /\ routine = "printf" /\ input \in Fields
        /\ screen = StartScreen(0) /\ page = StartPage(0)
     \/ /\ routine = "kbmputc" /\ input = << >>
        /\ \E at \in {0, COL + 1, ROW * COL - 1} :
             screen = StartScreen(at) /\ page = StartPage(at)

\* An input is complete: the next one is begun.
Restart ==
  /\ CASE routine = "kbmputc" -> Len(input) = MaxOutput
       [] routine = "qsort"   -> Len(input) = MaxElements
       [] routine = "token"   -> Len(input) = MaxLine
       [] routine = "printf"  -> input.f = "s" /\ Len(input.arg) = MaxString
       [] routine = "kbtoa"   -> FALSE
  /\ input' = IF routine = "printf"
              THEN [input EXCEPT !.arg = << >>]
              ELSE << >>
  /\ screen' = StartScreen(0) /\ page' = StartPage(0)
  /\ UNCHANGED <<routine, kb>>

Next == \/ KeyDown \/ KeyUp \/ Output \/ Element \/ Bits \/ Letters \/ Typed \/ Restart

LSpec == Init /\ [][Next]_vars
=============================================================================
