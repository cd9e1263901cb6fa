------------------------------- MODULE Format -------------------------------
(***************************************************************************)
(* printf() of the kernel: directives and their arguments, and the digits  *)
(* of itoa().  The formats are put together from pieces, each a character  *)
(* or a whole directive, so that what a piece should print can be said     *)
(* without reading the format the way the code does.                       *)
(***************************************************************************)
EXTENDS Integers, SequencesExt

CONSTANTS
    Formats,            \* sequences of pieces
    Arguments,          \* sequences of 32-bit words, as many as a format may take
    WORD,               \* 2^32
    WIDTH               \* 8: the hexadecimal digits of a word

VARIABLES
    pieces, args,       \* the call
    pos,                \* buf: how many characters of the format are behind
    esp,                \* how many arguments are used up
    out                 \* what each piece printed

vars == <<pieces, args, pos, esp, out>>

format == FlattenSeq(pieces)
Current == format[pos + 1]
Argument == args[esp + 1]

Init ==
    /\ pieces \in Formats /\ args \in Arguments
    /\ pos = 0 /\ esp = 0 /\ out = <<>>

\* The loop of itoa(): digits from the lowest, as numbers.
LowestFirst(value, radix) ==
    LET digits[v \in 0 .. value] ==
            IF v = 0 THEN <<>> ELSE <<v % radix>> \o digits[v \div radix]
    IN  digits[value]

strrev(s) == [i \in DOMAIN s |-> s[Len(s) + 1 - i]]

itoa(value, radix) == IF value = 0 THEN <<0>> ELSE strrev(LowestFirst(value, radix))

\* The digits go to conv_buf[8]; zeros fill it from the place that is as many
\* digits before 8 as are missing.
Padded(value) ==
    LET digits == itoa(value, 16) IN [i \in 1 .. WIDTH - Len(digits) |-> 0] \o digits

\* -value wraps like the words it is taken of.
Signed(value) ==
    IF value >= WORD \div 2 THEN <<"-">> \o itoa((-value) % WORD, 10) ELSE itoa(value, 10)

\* A character that is no directive is put as it is; an unknown directive prints
\* nothing and takes no argument.
Converted(c, alternate) ==
    CASE c = "%" -> <<"%">>
      [] c = "x" -> IF alternate THEN Padded(Argument) ELSE itoa(Argument, 16)
      [] c = "u" -> itoa(Argument, 10)
      [] c = "d" -> Signed(Argument)
      [] c \in {"c", "s"} -> <<Argument>>
      [] OTHER -> <<>>

\* Mutant: a character does not use up its argument.
TakesNotChar(c) == c \in {"x", "u", "d", "s"}

Takes(c) == c \in {"x", "u", "d", "c", "s"}

Literal ==
    /\ Current # "%"
    /\ out' = Append(out, <<Current>>) /\ pos' = pos + 1
    /\ UNCHANGED <<pieces, args, esp>>

\* '#' sets alternate and goes back to format_char_switch, so it may be repeated.
Directive ==
    LET hashes == CHOOSE n \in 0 .. Len(format) :
            /\ format[pos + 2 + n] # "#"
            /\ \A i \in 0 .. n - 1 : format[pos + 2 + i] = "#"
        c == format[pos + 2 + hashes]
    IN
    /\ Current = "%"
    /\ out' = Append(out, Converted(c, hashes > 0))
    /\ esp' = IF Takes(c) THEN esp + 1 ELSE esp
    /\ pos' = pos + 2 + hashes
    /\ UNCHANGED <<pieces, args>>

printf == pos < Len(format) /\ (Literal \/ Directive)

Spec == Init /\ [][printf]_vars

-----------------------------------------------------------------------------
\* Every variable has its type.
TypeOK ==
    /\ pieces \in Formats /\ args \in Arguments
    /\ pos \in 0 .. Len(format) /\ esp \in 0 .. Len(args) /\ Len(out) <= Len(pieces)

\* Read back, the digits are the number, without leading zeros.
Reads(text, radix) ==
    LET value[k \in 0 .. Len(text)] == IF k = 0 THEN 0 ELSE value[k - 1] * radix + text[k]
    IN  value[Len(text)]
IsNumeral(text, radix, n) ==
    /\ \A k \in DOMAIN text : text[k] \in 0 .. radix - 1
    /\ Reads(text, radix) = n /\ (Len(text) = 1 \/ text[1] # 0)

\* What lib.c says of each directive.
Means(piece, n, text) ==
    CASE piece = <<"%", "%">> -> text = <<"%">>
      [] piece = <<"%", "x">> -> IsNumeral(text, 16, n)
      [] piece = <<"%", "#", "x">> -> Len(text) = WIDTH /\ Reads(text, 16) = n
      [] piece = <<"%", "u">> -> IsNumeral(text, 10, n)
      [] piece = <<"%", "d">> -> IF n < WORD \div 2 THEN IsNumeral(text, 10, n)
                                 ELSE text[1] = "-" /\ IsNumeral(Tail(text), 10, WORD - n)
      [] piece \in {<<"%", "c">>, <<"%", "s">>} -> text = <<n>>
      [] OTHER -> text = piece

\* Every directive but %% has an argument of its own.
HasArgument(piece) == Head(piece) = "%" /\ piece # <<"%", "%">>
ArgumentOf(k) == args[1 + Cardinality({j \in 1 .. k - 1 : HasArgument(pieces[j])})]

\* Characters and what printf() knows of directives, with an argument for each; a
\* word is as long as WIDTH hexadecimal digits: the first number that has more is the
\* first that is none.
Directives == {<<"%", "%">>, <<"%", "x">>, <<"%", "#", "x">>, <<"%", "u">>, <<"%", "d">>,
               <<"%", "c">>, <<"%", "s">>}
FormatAssumption ==
    /\ WIDTH \in Nat \ {0} /\ WORD = Reads([k \in 1 .. WIDTH + 1 |-> IF k = 1 THEN 1 ELSE 0], 16)
    /\ Formats \subseteq Seq(Seq(STRING)) /\ Arguments \subseteq Seq(0 .. WORD - 1)
    /\ \A f \in Formats :
        /\ \A k \in DOMAIN f : f[k] \in Directives \/ (Len(f[k]) = 1 /\ f[k][1] # "%")
        /\ \A a \in Arguments : Cardinality({k \in DOMAIN f : HasArgument(f[k])}) <= Len(a)

\* Every piece prints what lib.c says of it, with its own argument, for every
\* word: zero, the largest, and the signed number that has no positive.
FormatFollowed == \A k \in DOMAIN out : Means(pieces[k], ArgumentOf(k), out[k])
=============================================================================
