------------------------------- MODULE Console -------------------------------
(***************************************************************************)
(* The kernel's text screen, kernel/src/vga/vga.c: a page of cells, a      *)
(* cursor, and vga_print, which wraps and scrolls.  Colours and the        *)
(* hardware's cursor, which follows this one, are left out.                *)
(***************************************************************************)
EXTENDS Integers, SequencesExt

CONSTANTS Width, Height, \* what vga_init is called with: 80 and 25
          LastRow,       \* the row from which vga_new_line scrolls: 24
          Tab            \* how many spaces a tab prints: 8

ASSUME ConsoleAssumption == {Width, Height, Tab} \subseteq Nat \ {0} /\ LastRow \in Nat

VARIABLES vga,   \* [cell, x, y]: the frame buffer and the cursor
          page   \* [row, x]: all that was printed since the last clear

consoleVars == <<vga, page>>

Blank == " "
BACKSPACE == "bs"
Spaces(n) == [k \in 1 .. n |-> Blank]
-----------------------------------------------------------------------------
vga_clear == [cell |-> [k \in 0 .. Width * Height - 1 |-> Blank], x |-> 0, y |-> 0]

\* Mutant: what was in the last row stays there.
vga_scroll_up_smear(v) ==
    [v EXCEPT !.cell = [k \in DOMAIN @ |-> IF k < Width * (Height - 1) THEN @[k + Width] ELSE @[k]]]

vga_scroll_up(v) ==
    [v EXCEPT !.cell = [k \in DOMAIN @ |-> IF k < Width * (Height - 1) THEN @[k + Width] ELSE Blank]]

vga_new_line(v) ==
    IF v.y = LastRow THEN [vga_scroll_up(v) EXCEPT !.x = 0]
                     ELSE [v EXCEPT !.x = 0, !.y = @ + 1]

\* A character that finds its row full makes a new line, and is lost.
Glyph(v, c) ==
    IF v.x = Width THEN vga_new_line(v)
    ELSE [v EXCEPT !.cell[v.x + Width * v.y] = c, !.x = @ + 1]

\* n spaces.
Glyphs(v, n) ==
    LET after[k \in 0 .. n] == IF k = 0 THEN v ELSE Glyph(after[k - 1], Blank)
    IN  after[n]

\* One iteration of vga_print.  A backspace prints a space over the character
\* before the cursor, which brings the cursor back to where it was.
PrintChar(v, c) ==
    CASE c = "\n" -> vga_new_line(v)
      [] c = "\r" -> [v EXCEPT !.x = 0]
      [] c = "\f" -> vga_clear
      [] c = BACKSPACE /\ v.x > 0 -> Glyph([v EXCEPT !.x = @ - 1], Blank)
      [] c = "\t" -> Glyphs(v, Tab)
      [] OTHER -> Glyph(v, c)

vga_print(v, str) ==
    LET after[k \in 0 .. Len(str)] == IF k = 0 THEN v ELSE PrintChar(after[k - 1], str[k])
    IN  after[Len(str)]
-----------------------------------------------------------------------------
(* The same on paper that never ends, and that has a margin: a character that *)
(* finds its row full is written there, behind the last column, so that the   *)
(* paper has everything that was printed.                                     *)

NoPage == [row |-> << Spaces(Width) >>, x |-> 0]

Feed(p) == [row |-> Append(p.row, Spaces(Width)), x |-> 0]

Onto(p, c) ==
    IF p.x = Width THEN Feed([p EXCEPT !.row[Len(p.row)] = Append(@, c)])
    ELSE [p EXCEPT !.row[Len(p.row)][p.x + 1] = c, !.x = @ + 1]

Ontos(p, n) ==
    LET after[k \in 0 .. n] == IF k = 0 THEN p ELSE Onto(after[k - 1], Blank)
    IN  after[n]

WriteChar(p, c) ==
    CASE c = "\n" -> Feed(p)
      [] c = "\r" -> [p EXCEPT !.x = 0]
      [] c = "\f" -> NoPage
      [] c = BACKSPACE /\ p.x > 0 -> [p EXCEPT !.row[Len(p.row)][p.x] = Blank]
      [] c = "\t" -> Ontos(p, Tab)
      [] OTHER -> Onto(p, c)

Write(p, str) ==
    LET after[k \in 0 .. Len(str)] == IF k = 0 THEN p ELSE WriteChar(after[k - 1], str[k])
    IN  after[Len(str)]

ConsoleInit == vga = vga_clear /\ page = NoPage

Shown(str) == vga' = vga_print(vga, str) /\ page' = Write(page, str)
-----------------------------------------------------------------------------
\* The screen shows the columns of the last rows of what was printed, with the
\* cursor in the last of them, and blanks below it, however often it wrapped and
\* scrolled.  What it does not show of them is the margin: vga_print makes a new
\* line of the character that finds its row full instead of printing it
\* (vga.c:44-46).  That is one character for each row that was left in this way,
\* and none of the row of the cursor.
ScreenShowsTail ==
    LET rows == Len(page.row)
        top  == IF rows > Height THEN rows - Height ELSE 0
    IN  /\ vga.x = page.x /\ vga.y = rows - top - 1
        /\ \A k \in 1 .. rows : Len(page.row[k]) <= IF k < rows THEN Width + 1 ELSE Width
        /\ \A y \in 0 .. Height - 1, x \in 0 .. Width - 1 :
              vga.cell[x + Width * y] = IF y <= vga.y THEN page.row[top + y + 1][x + 1] ELSE Blank
=============================================================================
