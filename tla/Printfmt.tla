------------------------------ MODULE Printfmt ------------------------------
(***************************************************************************)
(* vsnprintf() of os/kernel/printfmt.c and the vprintfmt() it shares with  *)
(* the console.  A character is a one-letter string.  The format is chosen *)
(* while it is read: fmt is what the caller's memory holds, as far as the  *)
(* code has looked, and an argument is chosen when va_arg() takes it.      *)
(* An int has Ints values (2^32 in the code), a long long the square of    *)
(* that; an unsigned one is its value, a signed one its two's complement.  *)
(***************************************************************************)
EXTENDS Integers, SequencesExt

CONSTANTS
  Ints,                        \* values of an int, a long or a pointer
  TextChar, WidthDigit,        \* characters of formats, digits of widths
  IntArg, LongLongArg, StrArg, ErrArg,   \* arguments, the integers unsigned
  StarArg,                     \* arguments of '*'
  MaxFmt, MaxEscape,           \* bounds: length of a format, escapes in it
  NUL, NONE                    \* the 0 of a string; no pointer, nothing

LongLongs == Ints * Ints

ASSUME PrintfmtAssumption ==
  /\ Ints \in Nat /\ Ints > 16 /\ Ints % 2 = 0
  /\ IntArg \subseteq 0..(Ints - 1) /\ LongLongArg \subseteq 0..(LongLongs - 1)

\* A negative ErrArg has a positive counterpart.
ASSUME ArgAssumption ==
  /\ ErrArg \subseteq -(Ints \div 2 - 1)..(Ints \div 2 - 1) /\ StarArg \subseteq Int
  /\ \A s \in StrArg : s \in Seq({s[i] : i \in DOMAIN s})
  /\ NONE \notin Int

VARIABLES
  fmt, pos,    \* the format, and the place in it
  esc,         \* the escape being read, or NONE
  b,           \* struct sprintbuf, with the memory it points to
  ret,         \* the result of vsnprintf(), or NONE
  out,         \* history: every character given to putch()
  printed      \* history: the last number printed

printVars == <<fmt, pos, esc, b, ret, out, printed>>

-----------------------------------------------------------------------------
\* An integer of a type with n values.
signed(u, n) == IF u >= n \div 2 THEN u - n ELSE u

\* The high word is divided first; divl takes its remainder and the low word.
do_div(n, base) ==
  LET high == n \div Ints
      low == (high % base) * Ints + (n % Ints)
  IN [n |-> (high \div base) * Ints + low \div base, mod |-> low % base]

Digits == <<"0", "1", "2", "3", "4", "5", "6", "7", "8", "9", "a", "b", "c", "d", "e", "f">>

\* The characters a conversion can start or end with.
Conversions == {"c", "e", "s", "d", "u", "o", "p", "x", "%"}

NotDigit == TextChar \cup Conversions \cup {"-", ".", "#", "l", "*", NUL}

\* No other character that the code compares or prints is a 0.
ASSUME CharAssumption ==
  /\ WidthDigit \subseteq {Digits[d] : d \in 1..10}
  /\ NUL \notin TextChar \cup Conversions \cup {"-", ".", "#", "l", "*", "+", " ", "\t"}
  /\ \A d \in 1..16 : NUL # Digits[d]

\* n times the character c, or none.
padding(n, c) == [i \in 1..Max({0, n}) |-> c]

\* Mutant: a number equal to the base is printed as one digit.
printnum_off(num, base, width, padc) ==
  LET digits[n \in 0..(LongLongs - 1)] ==
        LET r == do_div(n, base)
        IN (IF n > base THEN digits[r.n] ELSE <<>>) \o <<Digits[r.mod + 1]>>
      ds == digits[num]
  IN padding(width - Len(ds), padc) \o ds

\* The recursion of printnum(), which pads before the first digit.
printnum(num, base, width, padc) ==
  LET digits[n \in 0..(LongLongs - 1)] ==
        LET r == do_div(n, base)
        IN (IF n >= base THEN digits[r.n] ELSE <<>>) \o <<Digits[r.mod + 1]>>
      ds == digits[num]
  IN padding(width - Len(ds), padc) \o ds

digitValue(c) == CHOOSE d \in 0..15 : Digits[d + 1] = c

(***************************************************************************)
(* strtol() of string.c on a string s, for bases up to 16: the value, a    *)
(* long that wraps, and the place *endptr is set to.  The digits are read  *)
(* from the place q on.                                                    *)
(***************************************************************************)
charAt(s, i) == IF i <= Len(s) THEN s[i] ELSE NUL

readDigits(s, q, base) ==
  LET end == Min({i \in q..(Len(s) + 1) : \A d \in 1..base : charAt(s, i) # Digits[d]})
      val[i \in q..end] ==
        IF i = q THEN 0 ELSE (val[i - 1] * base + digitValue(charAt(s, i - 1))) % Ints
  IN [val |-> val[end], endptr |-> end]

strtol(s, base) ==
  LET from == Min({i \in 1..(Len(s) + 1) : charAt(s, i) \notin {" ", "\t"}})
      p == IF charAt(s, from) \in {"+", "-"} THEN from + 1 ELSE from
      hex == base \in {0, 16} /\ charAt(s, p) = "0" /\ charAt(s, p + 1) = "x"
      oct == base = 0 /\ charAt(s, p) = "0"
      r == IF hex THEN readDigits(s, p + 2, 16)
           ELSE IF oct THEN readDigits(s, p + 1, 8)
           ELSE readDigits(s, p, IF base = 0 THEN 10 ELSE base)
  IN [val |-> signed((IF charAt(s, from) = "-" THEN -r.val ELSE r.val) % Ints, Ints),
      endptr |-> r.endptr]

-----------------------------------------------------------------------------
\* str is address 0 of a memory of size characters and one behind them.
sprintbuf(size) ==
  [buf |-> 0, ebuf |-> size - 1, cnt |-> 0, mem |-> [a \in 0..size |-> "old"]]

sprintputch(sb, ch) ==
  IF sb.buf < sb.ebuf
  THEN [sb EXCEPT !.cnt = @ + 1, !.mem[sb.buf] = ch, !.buf = @ + 1]
  ELSE [sb EXCEPT !.cnt = @ + 1]

\* The characters, one after the other.
sprintall(sb, chars) ==
  LET stored[n \in 0..Len(chars)] ==
        IF n = 0 THEN sb ELSE sprintputch(stored[n - 1], chars[n])
  IN stored[Len(chars)]

putch(chars) == b' = sprintall(b, chars) /\ out' = out \o chars

PrintInit(sizes) ==
  /\ fmt = <<>> /\ pos = 1 /\ esc = NONE /\ ret = NONE /\ out = <<>> /\ printed = NONE
  /\ \E size \in sizes : b = sprintbuf(size)

\* vsnprintf() with a buffer of size 0; no call passes NULL for str, which ends the same way.
vsnprintf_invalid ==
  /\ ret = NONE /\ b.buf > b.ebuf
  /\ ret' = -3                               \* -E_INVAL
  /\ UNCHANGED <<fmt, pos, esc, b, out, printed>>

\* The character at pos is c: the caller's choice the first time it is read.
sees(c) ==
  /\ ret = NONE /\ b.buf <= b.ebuf
  /\ IF pos <= Len(fmt)
     THEN c = fmt[pos] /\ UNCHANGED fmt
     ELSE (Len(fmt) < MaxFmt \/ c = NUL) /\ fmt' = Append(fmt, c)

read(c) == sees(c) /\ pos' = pos + 1

-----------------------------------------------------------------------------
\* Outside an escape.
text ==
  /\ esc = NONE
  /\ \E c \in IF pos <= Len(fmt) THEN {fmt[pos]} \ {"%", NUL} ELSE TextChar :
       read(c) /\ putch(<<c>>)
  /\ UNCHANGED <<esc, ret, printed>>

finish ==
  /\ esc = NONE
  /\ read(NUL)
  /\ b' = [b EXCEPT !.mem[b.buf] = NUL]
  /\ ret' = b.cnt
  /\ UNCHANGED <<esc, out, printed>>

percent ==
  /\ esc = NONE
  /\ Cardinality({i \in DOMAIN fmt : fmt[i] = "%"}) < MaxEscape
  /\ read("%")
  /\ esc' = [padc |-> " ", width |-> -1, precision |-> -1, lflag |-> 0,
             altflag |-> FALSE, inNumber |-> FALSE]
  /\ printed' = NONE
  /\ UNCHANGED <<b, ret, out>>

InEscape == esc # NONE /\ ~esc.inNumber

process_precision(e) ==
  IF e.width < 0 THEN [e EXCEPT !.width = e.precision, !.precision = -1] ELSE e

flag ==
  /\ InEscape
  /\ \/ \E c \in {"-", "0"} : read(c) /\ esc' = [esc EXCEPT !.padc = c]
     \/ read(".") /\ esc' = [esc EXCEPT !.width = IF @ < 0 THEN 0 ELSE @]
     \/ read("#") /\ esc' = [esc EXCEPT !.altflag = TRUE]
     \/ read("l") /\ esc' = [esc EXCEPT !.lflag = @ + 1]
     \/ read("*") /\ \E n \in StarArg : esc' = process_precision([esc EXCEPT !.precision = n])
  /\ UNCHANGED <<b, ret, out, printed>>

(***************************************************************************)
(* The loop over the digits of a width or a precision looks at the next    *)
(* character before it steps over it.                                      *)
(***************************************************************************)
width_first ==
  /\ InEscape
  /\ \E c \in WidthDigit \ {"0"} :
       read(c) /\ esc' = [esc EXCEPT !.precision = digitValue(c), !.inNumber = TRUE]
  /\ UNCHANGED <<b, ret, out, printed>>

width_more ==
  /\ esc # NONE /\ esc.inNumber
  /\ \E c \in WidthDigit :
       read(c) /\ esc' = [esc EXCEPT !.precision = @ * 10 + digitValue(c)]
  /\ UNCHANGED <<b, ret, out, printed>>

width_end ==
  /\ esc # NONE /\ esc.inNumber
  /\ \E c \in NotDigit : sees(c)
  /\ esc' = process_precision([esc EXCEPT !.inNumber = FALSE])
  /\ UNCHANGED <<pos, b, ret, out, printed>>

-----------------------------------------------------------------------------
\* A conversion that prints chars and ends the escape.
converts(chars) == putch(chars) /\ esc' = NONE /\ UNCHANGED ret

character ==
  /\ InEscape
  /\ \/ read("c") /\ \E ch \in TextChar : converts(<<ch>>)
     \/ read("%") /\ converts(<<"%">>)
  /\ UNCHANGED printed

\* The message of an error is one character here; error 0 has none.
MAXERROR == 6

error ==
  /\ InEscape /\ read("e")
  /\ \E arg \in ErrArg :
       LET err == IF arg < 0 THEN -arg ELSE arg
       IN converts(IF err > MAXERROR \/ err = 0
                   THEN <<"e", "r", "r", "o", "r", " ">> \o printnum(err, 10, -1, " ")
                   ELSE <<"message">>)
  /\ UNCHANGED printed

(***************************************************************************)
(* %s: the padding is padc on the left or, with the flag '-', blanks on    *)
(* the right; at most precision characters, where it is not negative.      *)
(***************************************************************************)
string ==
  /\ InEscape /\ read("s")
  /\ \E arg \in StrArg \cup {NONE} :
       LET s == IF arg = NONE THEN <<"(", "n", "u", "l", "l", ")">> ELSE arg
           n == IF esc.precision < 0 THEN Len(s) ELSE Min({Len(s), esc.precision})
           shown == [i \in 1..n |-> IF esc.altflag /\ s[i] = "ctl" THEN "?" ELSE s[i]]
       IN converts(IF esc.padc = "-" THEN shown \o padding(esc.width - n, " ")
                   ELSE padding(esc.width - n, esc.padc) \o shown)
  /\ UNCHANGED printed

\* The number val, printed as num in base after what lead says.
number(val, num, base, lead) ==
  LET chars == lead \o printnum(num, base, esc.width, esc.padc)
  IN converts(chars) /\ printed' = [val |-> val, base |-> base, lead |-> lead, chars |-> chars]

\* getuint() and getint(): what va_arg() takes, of a type with ArgInts values.
Arg == IF esc.lflag >= 2 THEN LongLongArg ELSE IntArg

ArgInts == IF esc.lflag >= 2 THEN LongLongs ELSE Ints

decimal ==
  /\ InEscape /\ read("d")
  /\ \E arg \in Arg :
       LET n == signed(arg, ArgInts)
       IN IF n < 0 THEN number(n, -n, 10, <<"-">>) ELSE number(n, n, 10, <<>>)

unsigned ==
  /\ InEscape
  /\ \E c \in {"u", "o", "x"} :
       read(c) /\ \E arg \in Arg :
         number(arg, arg, CASE c = "u" -> 10 [] c = "o" -> 8 [] c = "x" -> 16, <<>>)

pointer ==
  /\ InEscape /\ read("p")
  /\ \E arg \in IntArg : number(arg, arg, 16, <<"0", "x">>)

\* Mutant: the rest of an unknown escape is not gone back over.
unknown_on ==
  /\ InEscape
  /\ \E c \in TextChar \cup {NUL} : read(c)
  /\ converts(<<"%">>)
  /\ UNCHANGED printed

(***************************************************************************)
(* An unknown escape, or one the format ends in: '%' is printed, and the   *)
(* format is read again from behind it, as text.                           *)
(***************************************************************************)
unknown ==
  /\ InEscape
  /\ \E c \in TextChar \cup {NUL} : sees(c)
  /\ pos' = Max({i \in 2..pos : fmt[i - 1] = "%"})
  /\ converts(<<"%">>)
  /\ UNCHANGED printed

PrintNext ==
  \/ vsnprintf_invalid \/ text \/ finish \/ percent
  \/ flag \/ width_first \/ width_more \/ width_end
  \/ character \/ error \/ string \/ decimal \/ unsigned \/ pointer \/ unknown

PrintSpec(sizes) == PrintInit(sizes) /\ [][PrintNext]_printVars

-----------------------------------------------------------------------------
(***************************************************************************)
(* A number that was printed reads back: strtol() in the same base gives   *)
(* the value, cut to a long, and stops at the end, for the least integer,  *)
(* for long long ones divided in two words, and for those padded with '0'. *)
(* Only blanks after a sign or "0x", and the flag '-', which fills a       *)
(* number up with '-' signs on the left, spoil that.                       *)
(***************************************************************************)
NumbersReadBack ==
  printed # NONE =>
    LET s == printed.chars
        r == strtol(s, printed.base)
        spoiled == \/ printed.lead # <<>> /\ Contains(s, " ")
                   \/ \E i \in DOMAIN s : s[i] = "-" /\ (i > 1 \/ printed.val >= 0)
    IN spoiled \/ (r.val = signed(printed.val % Ints, Ints) /\ r.endptr = Len(s) + 1)

(***************************************************************************)
(* snprintf() keeps to its two buffers, whatever the format and wherever   *)
(* it ends: the format is not read behind its 0, nothing is stored behind  *)
(* the size characters of str, and the result is the whole length, with as *)
(* much of the text as fits in front of a terminating 0.                   *)
(***************************************************************************)
KeepsToItsBuffers ==
  LET size == b.ebuf + 1
  IN /\ \A i \in DOMAIN fmt : fmt[i] = NUL => i = Len(fmt) /\ pos <= i + 1
     /\ b.mem[Cardinality(DOMAIN b.mem) - 1] = "old"
     /\ b.buf > 0 => SubSeq(out, 1, b.buf) = [i \in 1..b.buf |-> b.mem[i - 1]]
     /\ ret # NONE /\ size > 0 =>
          /\ ret = Len(out)
          /\ b.buf = Min({ret, size - 1}) /\ b.mem[b.buf] = NUL
=============================================================================
