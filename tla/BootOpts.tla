------------------------------ MODULE BootOpts ------------------------------
(***************************************************************************)
(* The loader's options: the parser of BOOT.INI (boot/stage2/src/ini),     *)
(* bootopts_fill, the parser of the video query (video/gfx_query.c) and    *)
(* the search for a mode (video/video.c).                                  *)
(*                                                                         *)
(* Both parsers work in the buffer the file was read into: they put a NUL  *)
(* where a string ends, and the options point into the buffer.  Positions  *)
(* count from 1, 0 is the null pointer.  A character is a token: each mark *)
(* of the syntax is one, and so is a whole word or number between them.    *)
(***************************************************************************)
EXTENDS Integers, Sequences, Functions
LOCAL INSTANCE FiniteSetsExt

CONSTANTS Defaults,  \* [kernel, initrd, cmd, gfx |-> a sequence of tokens]
          NumberOf,  \* what atoi makes of a number's token
          Modes      \* the video modes of the BIOS: [mode, width, height, depth]

ASSUME BootOptsAssumption ==
    /\ Defaults \in [{"kernel", "initrd", "cmd", "gfx"} -> Seq(STRING)]
    /\ Defaults["gfx"] = <<"text">>
    /\ Modes \in Seq([mode : Nat, width : Nat, height : Nat, depth : Nat])

VARIABLES ini,    \* what was read of BOOT.INI
          text,   \* bootconf, with the NULs that were put into it
          src,    \* ini->src
          opts,   \* where the value of each option begins
          query,  \* gfx_query_parse's locals, and the query
          conf    \* how far the options are dealt with

optVars == <<ini, text, src, opts, query, conf>>

NUL == "nul"
NEWLINE == "\n"
SPACE == " "
EQUALS == "="
OPEN == "["
CLOSE == "]"
SEMICOLON == ";"
COLON == ":"
LESS == "<"
MORE == ">"
VBE_MODE_END == 0
-----------------------------------------------------------------------------
(* Strings in the buffer *)

\* The first place from p on with c or a NUL, where eat_until stops.
until(p, c) == Min({q \in p .. Len(text) : text[q] \in {c, NUL}})

\* eat_ws
behind_ws(p) == Min({q \in p .. Len(text) : text[q] \notin {SPACE, NEWLINE}})

StringAt(p) == SubSeq(text, p, until(p, NUL) - 1)
Option(k) == IF opts[k] = 0 THEN Defaults[k] ELSE StringAt(opts[k])

NoQuery == [at |-> 0, type |-> 0, ineq |-> EQUALS, parts |-> <<>>, mode |-> 0, tried |-> 0]

OptsOff ==
    /\ ini = <<>> /\ text = <<NUL>> /\ src = 1 /\ opts = [k \in DOMAIN Defaults |-> 0]
    /\ query = NoQuery /\ conf = "off"

\* bootconf has been read, and bootopts_fill begins.
bootopts_fill(t) ==
    /\ conf = "off"
    /\ ini' = t /\ text' = Append(t, NUL) /\ src' = 1 /\ conf' = "ini"
    /\ UNCHANGED <<opts, query>>
-----------------------------------------------------------------------------
(* ini_iter and what bootopts_fill does with its result *)

\* The iteration, and with it the loop, ends.
IniEnds(p) == src' = p /\ conf' = "options" /\ UNCHANGED <<text, opts>>

IniSection(p) ==
    LET q == until(p + 1, CLOSE) IN
    IF text[q] = NUL THEN IniEnds(q)
    ELSE /\ text' = [text EXCEPT ![q] = NUL]
         /\ src' = until(q + 1, NEWLINE)
         /\ UNCHANGED <<opts, conf>>

IniComment(p) ==
    LET q == until(p, NEWLINE) IN
    /\ src' = IF text[q] = NUL THEN q ELSE q + 1
    /\ UNCHANGED <<text, opts, conf>>

\* Mutant: the first value counts.
SetOptionOnce(key, p) ==
    opts' = [k \in DOMAIN opts |-> IF key = <<k>> /\ opts[k] = 0 THEN p ELSE opts[k]]

SetOption(key, p) ==
    opts' = [k \in DOMAIN opts |-> IF key = <<k>> THEN p ELSE opts[k]]

IniAssignment(p) ==
    LET q == until(p, EQUALS)
        r == until(q + 1, NEWLINE)
    IN
    IF text[q] = NUL THEN IniEnds(q)
    ELSE /\ text' = [text EXCEPT ![q] = NUL, ![r] = NUL]
         /\ src' = IF text[r] = NUL THEN r ELSE r + 1
         /\ SetOption(SubSeq(text, p, q - 1), q + 1)
         /\ UNCHANGED conf

ini_iter ==
    LET p == behind_ws(src) IN
    /\ conf = "ini"
    /\ \/ text[src] = NUL /\ IniEnds(src)
       \/ text[src] # NUL /\ text[p] = OPEN /\ IniSection(p)
       \/ text[src] # NUL /\ text[p] = SEMICOLON /\ IniComment(p)
       \/ text[src] # NUL /\ text[p] \notin {OPEN, SEMICOLON} /\ IniAssignment(p)
    /\ UNCHANGED <<ini, query>>
-----------------------------------------------------------------------------
(* gfx_query_parse and vbe_mode_search *)

\* A video mode is asked for, unless the option is `text'.
StartVideo ==
    /\ conf = "options"
    /\ IF Option("gfx") = <<"text">> THEN conf' = "text" /\ UNCHANGED query
       ELSE /\ conf' = "gfx"
            /\ query' = [query EXCEPT !.at = opts["gfx"], !.type = opts["gfx"]]
    /\ UNCHANGED <<text, src, opts>>

IneqAt(p) == IF p < Len(text) /\ text[p + 1] = EQUALS THEN text[p] ELSE NUL

\* The iteration from the place p on, behind the separator if there was one: a
\* number begins here or behind an inequality.
NextPart(p, separator) ==
    LET found == IneqAt(p) \in {LESS, MORE}
        ineq  == IF found THEN IneqAt(p) ELSE IF separator = "x" THEN EQUALS ELSE query.ineq
        next  == IF found THEN p + 2 ELSE p
    IN  [query EXCEPT !.at = IF found THEN p + 2 ELSE p + 1, !.ineq = ineq,
                      !.parts = IF (found \/ separator # NUL) /\ Len(@) < 3
                                THEN Append(@, [at |-> next, ineq |-> ineq]) ELSE @]

\* One iteration of gfx_query_parse's loop.
ParseQuery ==
    /\ conf = "gfx" /\ text[query.at] # NUL
    /\ IF text[query.at] \in {COLON, "x"}
       THEN /\ text' = [text EXCEPT ![query.at] = NUL]
            /\ query' = NextPart(query.at + 1, text[query.at])
       ELSE query' = NextPart(query.at, NUL) /\ UNCHANGED text
    /\ UNCHANGED <<src, opts, conf>>

\* What is behind the loop: is it a query?
QueryParsed ==
    LET type == StringAt(query.type) IN
    /\ conf = "gfx" /\ text[query.at] = NUL
    /\ conf' = IF \/ type = <<"mode">> /\ query.parts # <<>>
                  \/ type = <<"find">> /\ Len(query.parts) = 3
               THEN "search" ELSE "panic"
    /\ UNCHANGED <<text, src, opts, query>>

Value(part) == NumberOf[Head(StringAt(part.at))]

Meets(n, part) == CASE part.ineq = EQUALS -> n = Value(part)
                    [] part.ineq = MORE -> n >= Value(part)
                    [] part.ineq = LESS -> n <= Value(part)

\* Mutant: two of the three conditions are enough.
FitsAlmost(m) ==
    IF StringAt(query.type) = <<"mode">> THEN m.mode = Value(query.parts[1])
    ELSE \E k \in 1 .. 3 : \A l \in (1 .. 3) \ {k} :
            Meets(<<m.width, m.height, m.depth>>[l], query.parts[l])

Fits(m) ==
    IF StringAt(query.type) = <<"mode">> THEN m.mode = Value(query.parts[1])
    ELSE \A k \in 1 .. 3 : Meets(<<m.width, m.height, m.depth>>[k], query.parts[k])

\* One iteration of vbe_mode_search: the BIOS describes a mode.
vbe_mode_search ==
    LET m == Modes[query.tried + 1] IN
    /\ conf = "search" /\ query.tried < Len(Modes)
    /\ query' = [query EXCEPT !.tried = @ + 1, !.mode = IF Fits(m) THEN m.mode ELSE VBE_MODE_END]
    /\ conf' = IF Fits(m) THEN "graphic" ELSE "search"
    /\ UNCHANGED <<text, src, opts>>

NoMode ==
    /\ conf = "search" /\ query.tried = Len(Modes)
    /\ conf' = "panic"
    /\ UNCHANGED <<text, src, opts, query>>

Video ==
    /\ StartVideo \/ ParseQuery \/ QueryParsed \/ vbe_mode_search \/ NoMode
    /\ UNCHANGED ini
-----------------------------------------------------------------------------
(* What a file says, line by line *)

\* The lines of a file, without the spaces in front of them.
Breaks(f) == {0, Len(f) + 1} \cup {p \in DOMAIN f : f[p] = NEWLINE}
LineFrom(f, p) ==
    LET end   == Min({q \in Breaks(f) : q > p}) - 1
        begin == Min({q \in p + 1 .. end + 1 : q = end + 1 \/ f[q] # SPACE})
    IN  SubSeq(f, begin, end)

Assigns(line, key) == Len(line) >= 2 /\ SubSeq(line, 1, 2) = <<key, EQUALS>>

WellFormed(f) ==
    \A p \in Breaks(f) \ {Len(f) + 1} :
        LET line == LineFrom(f, p) IN
        \/ line = <<>> \/ line[1] = SEMICOLON
        \/ line[1] = OPEN /\ CLOSE \in Range(line)
        \/ line[1] \notin {OPEN, SEMICOLON} /\ EQUALS \in Range(line)

\* What an option is set to: by its last line, or by default.
Said(f, key) ==
    LET places == {p \in Breaks(f) \ {Len(f) + 1} : Assigns(LineFrom(f, p), key)}
    IN  IF places = {} THEN Defaults[key]
        ELSE SubSeq(LineFrom(f, Max(places)), 3, Len(LineFrom(f, Max(places))))
=============================================================================
