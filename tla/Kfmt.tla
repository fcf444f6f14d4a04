-------------------------------- MODULE Kfmt --------------------------------
(***************************************************************************)
(* The kernel's formatting, kernel/src/kfmt.c, with the conversions of     *)
(* numbers in kernel/src/string.c.  A character is a token; a format is    *)
(* shorter than the 4096 bytes that format takes at a time.                *)
(***************************************************************************)
EXTENDS Integers, SequencesExt

CONSTANTS NumBytes,    \* the room for a number: 63
          HexDigits,   \* the most digits itohex writes: 16
          NumMax       \* the largest int that itoa is given: 2^31 - 1

ASSUME KfmtAssumption ==
    NumBytes \in Nat /\ NumBytes > 3 /\ {HexDigits, NumMax} \subseteq Nat \ {0}

EndOfString == "nul"
ALPHABET == <<"0", "1", "2", "3", "4", "5", "6", "7", "8", "9", "A", "B", "C", "D", "E", "F">>
Decimal == {ALPHABET[k] : k \in 1 .. 10}
-----------------------------------------------------------------------------
(* string.c *)

Abs(n) == IF n < 0 THEN -n ELSE n

\* The int that an argument is narrowed to: itoa_p's parameter is one, and %u and
\* the long directives pass it what they read.
AsInt(n) == ((n + NumMax + 1) % (2 * (NumMax + 1))) - NumMax - 1

\* itoa builds the digits at the end of the buffer and copies them to its
\* beginning; those at the end stay there.
itoa(n) ==
    LET digits[k \in Nat] == IF k < 10 THEN <<ALPHABET[k + 1]>>
                             ELSE Append(digits[k \div 10], ALPHABET[(k % 10) + 1])
        str == (IF n < 0 THEN <<"-">> ELSE <<>>) \o digits[Abs(n)]
        pos == NumBytes - 1 - Len(str)
    IN  [k \in 0 .. NumBytes - 1 |-> CASE k < Len(str) -> str[k + 1]
                                       [] k # Len(str) /\ k \in pos .. NumBytes - 2 -> str[k - pos + 1]
                                       [] OTHER -> EndOfString]

strlen(buf) == Min({k \in DOMAIN buf : buf[k] = EndOfString})
String(buf) == [k \in 1 .. strlen(buf) |-> buf[k - 1]]

itoa_p(n, padding) ==
    LET buf == itoa(n)
        len == strlen(buf)
        to  == IF len + padding >= NumBytes THEN NumBytes - len ELSE padding
    IN  String(IF padding = 0 \/ len >= to THEN buf
               ELSE [k \in DOMAIN buf |-> CASE k < to - len -> "0"
                                            [] k \in to - len .. to - 1 -> buf[k - (to - len)]
                                            [] OTHER -> buf[k]])

itohex(n, charcount) ==
    LET count == Min({charcount, HexDigits})
    IN  [k \in 1 .. count |-> ALPHABET[((n \div 16 ^ (count - k)) % 16) + 1]]

\* The number of bits, as counted by shifting.
bits(n) == CHOOSE i \in 0 .. 4 * HexDigits : n < 2 ^ i /\ (i = 0 \/ n >= 2 ^ (i - 1))

\* Mutant: a digit more for a number of as many bits as its digits have.
shortest_paddout_more(n) == bits(n) \div 4 + 1

\* C's division rounds to 0.
shortest_paddout(n) == IF bits(n) = 0 THEN 1 ELSE (bits(n) - 1) \div 4 + 1
-----------------------------------------------------------------------------
(* kfmt.c *)

\* The state of format: within a directive or not, the directive's padding (-1
\* behind its 0, and being read while inPad), the arguments left, and what was
\* emitted.
Formatting(args) == [escaped |-> FALSE, padcount |-> 0, inPad |-> FALSE, args |-> args, out |-> <<>>]

Emit(st, str) == [st EXCEPT !.out = @ \o str]
NextArg(st) == [st EXCEPT !.args = Tail(@)]

\* What follows the directive is copied again.  Its padding stays what it is.
Done(st) == [st EXCEPT !.escaped = FALSE, !.inPad = FALSE]

Hex(st) ==
    LET n == Head(st.args)
    IN  Done([NextArg(Emit(st, itohex(n, IF st.padcount = 0 THEN shortest_paddout(n) ELSE st.padcount)))
              EXCEPT !.padcount = 0])

Digit(c) == (CHOOSE k \in 1 .. 10 : ALPHABET[k] = c) - 1

\* One character of the format.
FormatChar(st, c) ==
    CASE ~st.escaped /\ c = "%" -> [st EXCEPT !.escaped = TRUE]
      [] ~st.escaped /\ c # "%" -> Emit(st, <<c>>)
      [] st.escaped /\ st.inPad /\ c \in Decimal -> [st EXCEPT !.padcount = 10 * @ + Digit(c)]
      [] st.escaped /\ ~(st.inPad /\ c \in Decimal) ->
            CASE c = "l" -> [st EXCEPT !.inPad = FALSE]
              [] c = "0" -> [st EXCEPT !.padcount = -1]
              [] c = "s" -> Done(NextArg(Emit(st, Head(st.args))))
              [] c = "c" -> Done(NextArg(Emit(st, <<Head(st.args)>>)))
              [] c = "#" -> [Emit(st, <<"0", "x">>) EXCEPT !.inPad = FALSE]
              [] c = "p" -> Hex(Emit(st, <<"0", "x">>))
              [] c = "x" -> Hex(st)
              [] c \in {"u", "d"} -> Done(NextArg(Emit(st, itoa_p(AsInt(Head(st.args)), st.padcount))))
              [] st.padcount = -1 /\ c \in Decimal \ {"0"} ->
                    [st EXCEPT !.padcount = Digit(c), !.inPad = TRUE]
              [] OTHER -> Done([st EXCEPT !.padcount = IF @ = -1 THEN 0 ELSE @])

format(fmt, args) == FoldLeft(FormatChar, Formatting(args), fmt).out
-----------------------------------------------------------------------------
(* What a format says: a sequence of texts and directives *)

\* The numeral of n with at least this many digits.
Numeral(n, base, width) ==
    LET len == Max({width, CHOOSE l \in 1 .. 31 : n < base ^ l /\ (l = 1 \/ n >= base ^ (l - 1))})
    IN  [k \in 1 .. len |-> ALPHABET[((n \div base ^ (len - k)) % base) + 1]]

PadSpec(pad) == IF pad = 0 THEN <<>> ELSE <<"0">> \o Numeral(pad, 10, 1)

Written(item) ==
    CASE item.kind = "text" -> item.text
      [] item.kind \in {"d", "u", "x"} -> <<"%">> \o item.alt \o PadSpec(item.pad) \o item.long \o <<item.kind>>
      [] item.kind \in {"s", "c", "p"} -> <<"%", item.kind>>

Meant(item) ==
    CASE item.kind = "text" -> item.text
      [] item.kind \in {"d", "u"} -> (IF item.arg < 0 THEN <<"-">> ELSE <<>>) \o Numeral(Abs(item.arg), 10, item.pad)
      [] item.kind = "x" -> (IF item.alt = <<"#">> THEN <<"0", "x">> ELSE <<>>) \o Numeral(item.arg, 16, item.pad)
      [] item.kind = "p" -> <<"0", "x">> \o Numeral(item.arg, 16, 1)
      [] item.kind = "s" -> item.arg
      [] item.kind = "c" -> <<item.arg>>

\* The items that format writes as they are meant, given the ones before them:
\*  - %d and %u, long or not, of a number that an int can hold (kfmt.c:94-107);
\*  - no padded negative, whose zeros go before its sign (string.c:126-128);
\*  - padding that leaves the digits itoa left at the end of the buffer out of the
\*    string (string.c:88, 124-128);
\*  - no %x padded to less than its number's digits, which are cut (kfmt.c:89),
\*    or to more than a word has (string.c:93);
\*  - no number without a padding of its own behind a padded %d or %u, whose
\*    padding stays (kfmt.c:103, 126-128).
Fits(item) ==
    CASE item.kind \in {"d", "u"} ->
            /\ item.arg \in (IF item.kind = "d" /\ item.pad = 0 THEN -NumMax - 1 ELSE 0) .. NumMax
            /\ Len(Numeral(Abs(item.arg), 10, 1)) + item.pad < NumBytes - 1
      [] item.kind = "x" ->
            /\ item.pad <= HexDigits
            /\ Len(Numeral(item.arg, 16, 1)) <= IF item.pad = 0 THEN HexDigits ELSE item.pad
      [] OTHER -> TRUE

Pad(item) == IF item.kind \in {"d", "u", "x"} THEN item.pad ELSE 0

Supported(items) ==
    /\ \A k \in DOMAIN items : Fits(items[k])
    /\ \A k, l \in DOMAIN items :
          k < l /\ items[k].kind \in {"d", "u"} /\ Pad(items[k]) > 0
          /\ items[l].kind \in {"d", "u", "x", "p"} => Pad(items[l]) > 0

Fmt(items) == FlattenSeq([k \in DOMAIN items |-> Written(items[k])])
ArgsOf(items) == LET ds == SelectSeq(items, LAMBDA it : it.kind # "text") IN [k \in DOMAIN ds |-> ds[k].arg]
=============================================================================
