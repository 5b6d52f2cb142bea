-------------------------------- MODULE Scan --------------------------------
(***************************************************************************)
(* Formatted input from a string: lib/libxc/doscan.c, with the functions   *)
(* of scanf.c that take a character from the string and put it back.       *)
(*                                                                         *)
(* What one directive yields is a record: next is the place in the text    *)
(* behind what it took, ended whether it came to the end of the text, and  *)
(* got has the value it stores, or nothing.  A set of characters is closed *)
(* by a bracket in every format, and stands behind neither l nor h.        *)
(***************************************************************************)
EXTENDS Format, FiniteSets

\* _sctab's SPC.
Spaces == {"blank", "tab", "newline"}
pastSpaces(text, at) ==
  Min({j \in at .. Len(text) + 1 : CharIn(text, j) \notin Spaces})

\* tolower, for the letters of conversions.
Lower == [D |-> "d", U |-> "u", O |-> "o", X |-> "x", S |-> "s", C |-> "c"]

\* The number is stored as a short, an int or a long; the last two are alike.
StoredAs(n, size) ==
  LET half == WIDTH \div 2
  IN  IF size = "SHORT" THEN ((n + 2 ^ (half - 1)) % (2 ^ half)) - 2 ^ (half - 1) ELSE n

\* _innum: at most d.len characters are read, and nothing is stored when there
\* was neither a digit nor a minus sign.  8 and 9 are octal digits as well.
innum(text, at, d) ==
  LET i      == pastSpaces(text, at)
      signed == CharIn(text, i) \in {"minus", "plus"}
      from   == IF signed THEN i + 1 ELSE i
      base   == CASE d.f = "o" -> 8 [] d.f = "x" -> 16 [] OTHER -> 10
      part   == SubSeq(text, 1, Min({Len(text), i + d.len - 1}))
      n      == digits(part, from, base, IF base = 16 THEN 16 ELSE 10)
      value  == IF CharIn(text, i) = "minus" THEN Wrap(- n.value) ELSE n.value
  IN  [next |-> n.next, ended |-> n.next > Len(text),
       got  |-> IF n.next = from /\ CharIn(text, i) # "minus" THEN << >>
                ELSE <<StoredAs(value, d.size)>>]

\* _instr: the characters up to one that stops it, or d.len of them.
instr(text, at, d) ==
  LET from == IF d.f = "s" THEN pastSpaces(text, at) ELSE at
      stop == CASE d.f = "s" -> Spaces [] d.f = "bracket" -> d.stop [] d.f = "c" -> {}
      behind == Min({j \in from .. Len(text) + 1 : CharIn(text, j) \in stop \cup {"end"}})
      next == Min({behind, from + d.len})
  IN  [next |-> next, ended |-> next > Len(text) /\ next < from + d.len,
       got  |-> IF next = from THEN << >> ELSE <<SubSeq(text, from, next - 1)>>]

\* _getccl: the characters that end a set that begins at i, and the place of
\* the bracket that closes it.
getccl(fmt, i, chars) ==
  LET caret == CharIn(fmt, i) = "caret"
      close == Min({j \in i .. Len(fmt) : fmt[j] = "close"})
      listed == {fmt[j] : j \in (IF caret THEN i + 1 ELSE i) .. close - 1}
  IN  [close |-> close, stop |-> IF caret THEN listed ELSE chars \ listed]

\* What stands between a percent sign and the letter of the conversion.  A
\* length of zero is as good as none, for which the code has 30000.
scanDirective(fmt, start, text) ==
  LET star  == CharIn(fmt, start) = "star"
      len   == digits(fmt, IF star THEN start + 1 ELSE start, 10, 10)
      size  == CASE CharIn(fmt, len.next) = "l" -> "LONG"
                 [] CharIn(fmt, len.next) = "h" -> "SHORT"
                 [] OTHER                       -> "REGULAR"
      at    == IF size = "REGULAR" THEN len.next ELSE len.next + 1
      c     == CharIn(fmt, at)
      f     == IF c \in DOMAIN Lower THEN Lower[c] ELSE c
      set   == IF f = "bracket" THEN getccl(fmt, at + 1, {text[j] : j \in DOMAIN text})
               ELSE [close |-> at, stop |-> {}]
  IN  [star |-> star, f |-> f, size |-> size, stop |-> set.stop, next |-> set.close + 1,
       len |-> CASE len.value # 0              -> len.value
                 [] len.value = 0 /\ f = "c"   -> 1
                 [] OTHER                      -> Len(text) + 1]

\* What _doscan returns: the number of directives that matched, or -1 when
\* the text or the format has come to an early end; and what was stored.
Matches(args) == Cardinality({j \in DOMAIN args : args[j] # << >>})
Result(args) == [n |-> Matches(args), args |-> args]
Failed(args) == [n |-> -1, args |-> args]

RECURSIVE doscan(_, _, _, _, _), scanOne(_, _, _, _, _), proceed(_, _, _, _, _)

\* From a place in the text and one in the format on; args has what was
\* stored through each argument so far.
doscan(text, at, fmt, i, args) ==
  CASE CharIn(fmt, i) = "end"    -> Result(args)
    [] CharIn(fmt, i) \in Spaces -> doscan(text, pastSpaces(text, at), fmt, i + 1, args)
    [] CharIn(fmt, i) = "percent" /\ CharIn(fmt, i + 1) # "percent" ->
         scanOne(text, at, fmt, args, scanDirective(fmt, i + 1, text))
    [] OTHER -> CASE CharIn(text, at) = CharIn(fmt, i) ->
                       doscan(text, at + 1, fmt,
                              IF CharIn(fmt, i) = "percent" THEN i + 2 ELSE i + 1, args)
                  [] CharIn(text, at) = "end" -> Failed(args)
                  [] OTHER                    -> Result(args)

\* One directive.
scanOne(text, at, fmt, args, d) ==
  CASE d.f = "end"                     -> Failed(args)
    [] d.f \in {"c", "s", "bracket"}   -> proceed(text, fmt, args, d, instr(text, at, d))
    [] OTHER                           -> proceed(text, fmt, args, d, innum(text, at, d))

\* It goes on, whether the directive has matched or not, until the text ends.
proceed(text, fmt, args, d, taken) ==
  LET stored == IF d.star THEN args ELSE Append(args, taken.got)
  IN  IF ~ taken.ended THEN doscan(text, taken.next, fmt, d.next, stored)
      ELSE IF Matches(stored) = 0 THEN Failed(stored) ELSE Result(stored)

\* sscanf
sscanf(str, fmt) == doscan(str, 1, fmt, 1, << >>)
=============================================================================
