-------------------------------- MODULE Sort --------------------------------
(***************************************************************************)
(* qsort of lib/libxc/qsort.c.  The array is a function s of the positions *)
(* 0 .. n - 1; an element takes one place, es in the code.  A record v has *)
(* the variables of qs1: its part of the array from a to before l, the     *)
(* middle part lp .. hp of elements equal to the one it compares with, the *)
(* elements below i, which are smaller, and those above j, which are       *)
(* greater.  level counts the calls of qs1 inside each other, deep is the  *)
(* greatest level there was.                                               *)
(***************************************************************************)
EXTENDS Integers

qsexc(s, i, j) == [s EXCEPT ![i] = s[j], ![j] = s[i]]

\* Rotates three elements; k and j may be the same one.
qstexc(s, i, j, k) ==
  LET t == [s EXCEPT ![i] = s[k]]
      w == [t EXCEPT ![k] = t[j]]
  IN  [w EXCEPT ![j] = s[i]]

RECURSIVE qs1(_), left(_), right(_)

\* start: a part of one element is sorted.
qs1(v) ==
  LET middle == v.a + (v.l - v.a) \div 2
      entered == [v EXCEPT !.deep = IF v.level > @ THEN v.level ELSE @]
  IN  IF v.l - v.a <= 1 THEN entered
      ELSE left([entered EXCEPT !.lp = middle, !.hp = middle, !.i = v.a, !.j = v.l - 1])

\* The outer loop: the elements before the middle part.
left(v) ==
  CASE v.i < v.lp /\ v.s[v.i] = v.s[v.lp] ->
         left([v EXCEPT !.s = qsexc(@, v.i, v.lp - 1), !.lp = @ - 1])
    [] v.i < v.lp /\ v.s[v.i] < v.s[v.lp] -> left([v EXCEPT !.i = @ + 1])
    [] OTHER                              -> right(v)

\* Fault: the greater part is the one that is sorted by a call.
parts_GreaterFirst(v) ==
  LET below == [a |-> v.a, l |-> v.lp]
      above == [a |-> v.hp + 1, l |-> v.l]
      long  == IF v.lp - v.a >= v.l - v.hp THEN below ELSE above
      short == IF long = above THEN below ELSE above
      sorted == qs1([v EXCEPT !.a = long.a, !.l = long.l, !.level = @ + 1])
  IN  qs1([v EXCEPT !.s = sorted.s, !.deep = sorted.deep, !.a = short.a, !.l = short.l])

\* The two parts beside the middle one: the smaller of them is sorted by a
\* call, the other one by starting again.
parts(v) ==
  LET below == [a |-> v.a, l |-> v.lp]
      above == [a |-> v.hp + 1, l |-> v.l]
      short == IF v.lp - v.a >= v.l - v.hp THEN above ELSE below
      long  == IF short = above THEN below ELSE above
      sorted == qs1([v EXCEPT !.a = short.a, !.l = short.l, !.level = @ + 1])
  IN  qs1([v EXCEPT !.s = sorted.s, !.deep = sorted.deep, !.a = long.a, !.l = long.l])

\* loop: the elements behind the middle part.
right(v) ==
  LET i == v.i  j == v.j  hp == v.hp
  IN CASE j > hp /\ v.s[hp] = v.s[j] ->
            right([v EXCEPT !.s = qsexc(@, hp + 1, j), !.hp = @ + 1])
       [] j > hp /\ v.s[hp] > v.s[j] /\ i = v.lp ->
            right([v EXCEPT !.s = qstexc(@, i, hp + 1, j), !.hp = @ + 1,
                            !.lp = @ + 1, !.i = @ + 1])
       [] j > hp /\ v.s[hp] > v.s[j] /\ i # v.lp ->
            left([v EXCEPT !.s = qsexc(@, i, j), !.j = @ - 1, !.i = @ + 1])
       [] j > hp /\ v.s[hp] < v.s[j] -> right([v EXCEPT !.j = @ - 1])
       [] j <= hp /\ i = v.lp        -> parts(v)
       [] OTHER ->
            left([v EXCEPT !.s = qstexc(@, j, v.lp - 1, i), !.lp = @ - 1,
                           !.hp = @ - 1, !.j = hp - 1])

qsort(s, n) ==
  qs1([s |-> s, a |-> 0, l |-> n, lp |-> 0, hp |-> 0, i |-> 0, j |-> 0,
       level |-> 0, deep |-> 0])
=============================================================================
