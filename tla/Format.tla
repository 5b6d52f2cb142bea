------------------------------- MODULE Format -------------------------------
(***************************************************************************)
(* Formatted output and the reading of numbers: lib/libxc/doprnt.c and    *)
(* atoi.c.  Words have WIDTH bits, 32 in the code, and BILLION is what is  *)
(* taken off a negative word until it is positive: 10^9, a power of ten    *)
(* that fits twice into the positive words and less than ten times into    *)
(* the words without a sign.  Characters are strings, and "end" stands     *)
(* behind a text.  INT_NOT_LONG is not defined: every number is a long,    *)
(* and _prt10, _prt8, _prt16 and _prt2 are never called.                   *)
(***************************************************************************)
EXTENDS Integers, Sequences, FiniteSetsExt, TLC

CONSTANTS WIDTH, BILLION, MAXSTR

ASSUME FormatAssumption ==
  /\ WIDTH \in Nat \ {0} /\ MAXSTR \in Nat
  /\ BILLION \in Nat \ {0} /\ 2 * BILLION <= 2 ^ (WIDTH - 1)
  /\ 2 ^ WIDTH <= 10 * BILLION

Wrap(n) == ((n + 2 ^ (WIDTH - 1)) % (2 ^ WIDTH)) - 2 ^ (WIDTH - 1)

CharIn(text, i) == IF i \in DOMAIN text THEN text[i] ELSE "end"

Numerals == <<"0", "1", "2", "3", "4", "5", "6", "7", "8", "9",
              "a", "b", "c", "d", "e", "f">>
ValueOf == [c \in {Numerals[n] : n \in 1 .. 16} |-> CHOOSE n \in 0 .. 15 : Numerals[n + 1] = c]
Valid(c, base) == c \in DOMAIN ValueOf /\ ValueOf[c] < base

\* The places in a field for the digits: 11 octal, 8 hexadecimal, 32 binary.
Places(bits) == (WIDTH + bits - 1) \div bits

\* Without the leading zeros, but with one digit.
strip(temp) ==
  LET first == Min({Len(temp)} \cup {i \in DOMAIN temp : temp[i] # 0})
  IN  SubSeq(temp, first, Len(temp))

\* _prtl10: num is not negative.
prtl10(num) ==
  LET places == Min({n \in 1 .. Places(3) : 10 ^ n >= 2 ^ (WIDTH - 1)})
  IN  strip([i \in 1 .. places |-> (num \div (10 ^ (places - i))) % 10])

\* An arithmetic shift takes off each digit of so many bits; the first one has
\* the bits that are left (temp[11] &= '3', the others leave none in 32).
prtl(num, bits) ==
  LET last == Places(bits)
      rest == WIDTH - bits * (last - 1)
      digit(i) == (num \div (2 ^ (bits * (last - i)))) % (2 ^ bits)
  IN  strip([i \in 1 .. last |-> IF i = 1 THEN digit(i) % (2 ^ rest) ELSE digit(i)])

prtl8(num) == prtl(num, 3)
prtl16(num) == prtl(num, 4)
prtl2(num) == prtl(num, 1)

\* Fault: BILLION is taken off once.
unsigned_Once(num) ==
  LET str == prtl10(IF num < 0 THEN Wrap(num - BILLION) ELSE num)
  IN  IF num < 0 THEN [str EXCEPT ![1] = @ + 1] ELSE str

\* What was taken off is added to the first digit again.
unsigned(num) ==
  LET left[n \in Nat] == IF n = 0 THEN num ELSE Wrap(left[n - 1] - BILLION)
      digit1 == CHOOSE n \in 0 .. 9 : left[n] >= 0 /\ \A x \in 0 .. n - 1 : left[x] < 0
  IN  [prtl10(left[digit1]) EXCEPT ![1] = @ + digit1]

\* The text of an argument without its sign.  The one after %d is negated
\* first, which leaves the least number as it is.
convert(f, arg) ==
  LET Text(str) == [i \in DOMAIN str |-> Numerals[str[i] + 1]]
  IN CASE f = "c"      -> SelectSeq(<<arg>>, LAMBDA c : c # "end")
    [] f = "s"         -> arg
    [] f \in {"D", "d"} -> Text(unsigned(IF arg < 0 THEN Wrap(- arg) ELSE arg))
    [] f \in {"U", "u"} -> Text(unsigned(arg))
    [] f \in {"O", "o"} -> Text(prtl8(arg))
    [] f \in {"X", "x"} -> Text(prtl16(arg))
    [] f \in {"B", "b"} -> Text(prtl2(arg))

\* The string in which the digits are put has 20 characters, a longer one is
\* written past its end: what is printed then is not defined.
Stays(f, arg, size) == f \in {"c", "s"} \/ Len(convert(f, arg)) < size

Fills(n, fill) == [i \in 1 .. Max({n, 0}) |-> fill]

\* One argument in its field.
field(d, arg) ==
  LET text   == convert(d.f, arg)
      minus  == d.f \in {"D", "d"} /\ arg < 0
      sign   == IF minus THEN <<"minus">> ELSE << >>
      fill   == IF d.f \in {"c", "s"} THEN "blank" ELSE d.fill
      fmin   == IF d.fmin \in 0 .. MAXSTR THEN d.fmin ELSE 0
      fmax   == IF d.f = "s" /\ d.fmax \in 0 .. MAXSTR THEN d.fmax ELSE 0
      length == IF fmax # 0 /\ Len(text) > fmax THEN fmax ELSE Len(text)
      fills  == Fills(IF fmin = 0 THEN 0 ELSE fmin - length - Len(sign), fill)
      before == IF d.leftjust THEN << >> ELSE fills
      behind == IF d.leftjust THEN fills ELSE << >>
  IN  (IF fill = "0" THEN sign \o before ELSE before \o sign)
        \o SubSeq(text, 1, length) \o behind

\* The value of the digits from i on, each of them one of the first so many
\* numerals, and the place behind them.
digits(text, i, base, numerals) ==
  LET end == Min({j \in i .. Len(text) + 1 : ~ Valid(CharIn(text, j), numerals)})
      value[j \in i - 1 .. end - 1] ==
        IF j = i - 1 THEN 0 ELSE Wrap(base * value[j - 1] + ValueOf[text[j]])
  IN  [value |-> value[end - 1], next |-> end]

\* The number of a field in the format, or the argument if a star is there.
number(fmt, i, args) ==
  IF CharIn(fmt, i) = "star"
  THEN [value |-> Head(args), next |-> i + 1, args |-> Tail(args)]
  ELSE [args |-> args] @@ digits(fmt, i, 10, 10)

\* What stands between a percent sign and the letter f of the conversion.
directive(fmt, start, args) ==
  LET After(i, c) == IF CharIn(fmt, i) = c THEN i + 1 ELSE i
      zero  == After(start, "minus")
      width == After(zero, "0")
      min   == number(fmt, width, args)
      point == After(min.next, "dot")
      max   == IF point = min.next THEN [min EXCEPT !.value = 0]
               ELSE number(fmt, point, min.args)
      f     == After(max.next, "l")
  IN  [leftjust |-> zero # start, fill |-> IF width # zero THEN "0" ELSE "blank",
       fmin |-> min.value, fmax |-> max.value, f |-> CharIn(fmt, f),
       next |-> f + 1, args |-> max.args]

\* _doprnt from a place in fmt on.
RECURSIVE doprnt(_, _, _)
doprnt(fmt, i, args) ==
  LET c == CharIn(fmt, i)
      next == CharIn(fmt, i + 1)
      d == directive(fmt, i + 1, args)
  IN  CASE c = "end"                        -> << >>
        [] c \notin {"end", "percent"}      -> <<c>> \o doprnt(fmt, i + 1, args)
        [] c = "percent" /\ next = "percent" -> <<c>> \o doprnt(fmt, i + 2, args)
        [] c = "percent" /\ d.f = "end"      -> <<c>>
        [] OTHER -> field(d, Head(d.args)) \o doprnt(fmt, d.next, Tail(d.args))

skip(text) == Min({j \in 1 .. Len(text) + 1 : CharIn(text, j) # "blank"})

\* The number at the head of a text, with a sign or without.
atoi(text) ==
  LET i == skip(text)
      signed == CharIn(text, i) \in {"minus", "plus"}
      n == digits(text, IF signed THEN i + 1 ELSE i, 10, 10).value
  IN  IF CharIn(text, i) = "minus" THEN Wrap(- n) ELSE n
=============================================================================
