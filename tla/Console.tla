------------------------------ MODULE Console ------------------------------
(***************************************************************************)
(* The screen: kbmputc in c/kprintf.c.  A screen s has its cells, numbered *)
(* row by row, and the cell at which the next character goes, crtat.  The  *)
(* attributes of the cells and the cursor that is shown are left out.      *)
(***************************************************************************)
EXTENDS Integers

CONSTANTS ROW, COL, TAB   \* 25 rows of 80 columns with 10 tab stops of 8

ASSUME ConsoleAssumption ==
  ROW \in Nat \ {0} /\ COL \in Nat \ {0} /\ TAB \in Nat \ {0} /\ COL % TAB = 0

Cells == 0 .. ROW * COL - 1

\* The first call: the display is cleared from the cursor on.
clean(cells, cursorat) ==
  LET at == IF cursorat <= COL * ROW THEN cursorat ELSE 0
  IN  [cells |-> [i \in Cells |-> IF i < at THEN cells[i] ELSE "blank"], crtat |-> at]

\* Fault: the last line is not cleared.
scroll_NotCleared(s) ==
  IF s.crtat < COL * ROW THEN s
  ELSE [cells |-> [i \in Cells |-> IF i + COL \in Cells THEN s.cells[i + COL] ELSE s.cells[i]],
        crtat |-> s.crtat - COL]

\* The text moves up when the cursor has left the last line.
scroll(s) ==
  IF s.crtat < COL * ROW THEN s
  ELSE [cells |-> [i \in Cells |-> IF i + COL \in Cells THEN s.cells[i + COL] ELSE "blank"],
        crtat |-> s.crtat - COL]

put(s, c) == scroll([cells |-> [s.cells EXCEPT ![s.crtat] = c], crtat |-> s.crtat + 1])

\* One to TAB blanks, up to the next tab stop.
tab(s) ==
  LET blanks[n \in 1 .. TAB] ==
        LET before == IF n = 1 THEN s ELSE blanks[n - 1]
        IN  IF n > 1 /\ before.crtat % TAB = 0 THEN before ELSE put(before, "blank")
  IN  blanks[TAB]

return(s) == [s EXCEPT !.crtat = COL * (@ \div COL)]

\* kbmputc: one character goes to the screen.
kbmputc(s, c) ==
  CASE c = "nul"       -> s
    [] c = "tab"       -> tab(s)
    [] c = "backspace" -> [s EXCEPT !.crtat = @ - 1]
    [] c = "newline"   -> scroll(return([s EXCEPT !.crtat = @ + COL]))
    [] c = "return"    -> return(s)
    [] OTHER           -> put(s, c)
=============================================================================
