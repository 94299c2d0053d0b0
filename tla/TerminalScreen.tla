--------------------------- MODULE TerminalScreen ---------------------------
(***************************************************************************)
(* The screen model behind a terminal session: two buffers of cells, the   *)
(* cursor with its deferred wrap, the scrolling region, the modes and the  *)
(* scrollback, under the operations the escape-sequence parser emits and   *)
(* the resizes of the terminal tools.                                      *)
(*                                                                         *)
(* A cell is blank (" "), a narrow character ("x"), a wide one ("W") or    *)
(* the second column of a wide one ("_"); colours, the title and the       *)
(* cursor's visibility are left out.  An operation is an operator from     *)
(* screens to screens, rows and columns from 0 as in the code, and an      *)
(* index outside the cells panics, which ends the session's reader thread. *)
(***************************************************************************)
EXTENDS Integers, Sequences

CONSTANTS
  Sizes,          \* the <<cols, rows>> the screen may have
  FirstSize,      \* the one the session is created with
  MaxScrollback,  \* max_scrollback
  Counts,         \* the parameters of the sequences that occur
  MaxOps          \* operations that change something, in one behaviour

ScreenAssumption ==
  /\ Sizes \subseteq (Nat \ {0}) \X (Nat \ {0})
  /\ FirstSize \in Sizes
  /\ MaxScrollback \in Nat /\ MaxOps \in Nat /\ Counts \subseteq Nat

VARIABLES
  screen,  \* TerminalScreen
  ops,     \* operations so far
  shrunk   \* history: was the screen ever made smaller?

vars == <<screen, ops, shrunk>>

Least(a, b) == IF a < b THEN a ELSE b
Most(a, b) == IF a < b THEN b ELSE a

Blank(cols, rows) == [r \in 0 .. rows - 1 |-> [c \in 0 .. cols - 1 |-> " "]]
Buffers == {"primary", "alternate"}

New(cols, rows) ==
  [cols |-> cols, rows |-> rows, active |-> "primary",
   grid |-> [b \in Buffers |-> Blank(cols, rows)],
   row |-> 0, col |-> 0, saved |-> <<0, 0>>, wrap |-> FALSE,
   top |-> 0, bottom |-> rows - 1, autowrap |-> TRUE, origin |-> FALSE,
   last |-> " ", back |-> <<>>, dead |-> FALSE]

Panic(s) == [s EXCEPT !.dead = TRUE]

\* The cells of the active buffer, and the rows of it that f gives.
Cells(s) == s.grid[s.active]
Draw(s, f) == [s EXCEPT !.grid[s.active] = f]
Move(s, row, col) == [s EXCEPT !.row = row, !.col = col, !.wrap = FALSE]
BlankRow(s) == [c \in 0 .. s.cols - 1 |-> " "]

-----------------------------------------------------------------------------
(* Scrolling *)

\* Rows first .. last move up by n; what was above them is lost.
ShiftUp(s, n, first, last) ==
  Draw(s, [r \in 0 .. s.rows - 1 |->
    CASE r \in first .. last - n -> Cells(s)[r + n]
      [] r \in last - n + 1 .. last -> BlankRow(s)
      [] OTHER -> Cells(s)[r]])

ShiftDown(s, n, first, last) ==
  Draw(s, [r \in 0 .. s.rows - 1 |->
    CASE r \in first + n .. last -> Cells(s)[r - n]
      [] r \in first .. first + n - 1 -> BlankRow(s)
      [] OTHER -> Cells(s)[r]])

\* Only the primary screen has a scrollback, and only lines that leave the top.
SavesLines(s) == s.active = "primary" /\ s.top = 0

\* Every one of the n lines saved is the one at the top now.
ScrollUp(s, n) ==
  LET lines == s.back \o [i \in 1 .. n |-> Cells(s)[0]]
      kept == SubSeq(lines, Most(1, Len(lines) - MaxScrollback + 1), Len(lines))
      noted == IF SavesLines(s) THEN [s EXCEPT !.back = kept] ELSE s
  IN IF s.top >= s.bottom \/ n = 0 THEN noted
     ELSE ShiftUp(noted, Least(n, s.bottom - s.top), s.top, s.bottom)

ScrollDown(s, n) ==
  IF s.top >= s.bottom \/ n = 0 THEN s
  ELSE ShiftDown(s, Least(n, s.bottom - s.top), s.top, s.bottom)

Linefeed(s) ==
  IF s.row = s.bottom THEN ScrollUp(s, 1)
  ELSE IF s.row < s.rows - 1 THEN [s EXCEPT !.row = @ + 1] ELSE s

-----------------------------------------------------------------------------
(* put_char *)

Width(k) == IF k = "W" THEN 2 ELSE 1

\* A wrap that is pending takes place, then one for a character that does not fit.
Wrapped(s, k) ==
  LET pending == IF s.wrap THEN Linefeed(Move(s, s.row, 0)) ELSE s
  IN IF pending.col + Width(k) > s.cols /\ s.autowrap
     THEN Linefeed([pending EXCEPT !.col = 0]) ELSE pending

\* Half of a wide character that is overwritten goes too.  The cell to the
\* right is looked up, and cleared, by its column alone: in the first row.
ClearHalves(s, k, at) ==
  LET g == Cells(s)
      left == at > 0 /\ g[s.row][at] = "_"
      right == ~left /\ at + 1 < s.cols /\ g[0][at + 1] = "_"
      g1 == IF left THEN [g EXCEPT ![s.row][at - 1] = " ", ![s.row][at] = " "]
            ELSE IF right THEN [g EXCEPT ![0][at + 1] = " "] ELSE g
  IN Draw(s, IF k = "W" /\ at + 1 < s.cols THEN [g1 EXCEPT ![0][at + 1] = " "] ELSE g1)

PutChar(s, k) ==
  LET w == Wrapped(s, k)
      at == IF w.col + Width(k) > s.cols THEN Most(s.cols - Width(k), 0) ELSE w.col
      c == ClearHalves(w, k, at)
      one == [Cells(c) EXCEPT ![w.row][at] = k]
      both == IF k = "W" /\ at + 1 < s.cols THEN [one EXCEPT ![w.row][at + 1] = "_"] ELSE one
      full == at + Width(k) >= s.cols
  IN CASE s.dead -> s
       [] ~s.dead /\ w.row >= s.rows -> Panic(w)
       [] OTHER -> [Draw(c, both) EXCEPT
            !.col = IF full THEN s.cols - 1 ELSE at + Width(k),
            !.wrap = full /\ s.autowrap, !.last = k]

Repeat(s, n) ==
  LET after[i \in 0 .. n] == IF i = 0 THEN s ELSE PutChar(after[i - 1], s.last)
  IN after[n]

-----------------------------------------------------------------------------
(* The cursor *)

CarriageReturn(s) == Move(s, s.row, 0)
Backspace(s) == Move(s, s.row, Most(s.col - 1, 0))
Tab(s) == Move(s, s.row, Least((s.col \div 8 + 1) * 8, s.cols - 1))
CursorUp(s, n) == Move(s, Most(s.row - n, 0), s.col)

CursorDown(s, n) == Move(s, Least(s.row + n, s.rows - 1), s.col)
CursorForward(s, n) == Move(s, s.row, Least(s.col + n, s.cols - 1))
CursorBack(s, n) == Move(s, s.row, Most(s.col - n, 0))
CursorNextLine(s, n) == Move(s, Least(s.row + n, s.rows - 1), 0)
CursorPreviousLine(s, n) == Move(s, Most(s.row - n, 0), 0)
Horizontal(s, n) == Move(s, s.row, Least(Most(n, 1) - 1, s.cols - 1))
Vertical(s, n) == Move(s, Least(Most(n, 1) - 1, s.rows - 1), s.col)

\* In origin mode rows count from the region's top.  A region whose top lies
\* below its bottom makes the subtraction underflow: a build that checks for
\* overflow panics, another one wraps around and limits nothing.
CursorPosition(s, m, n, checked) ==
  LET base == IF s.origin THEN s.top ELSE 0
      room == (IF s.origin THEN s.bottom ELSE s.rows - 1) - base
      asked == Most(m, 1) - 1
      down == IF room >= 0 THEN Least(asked, room) ELSE asked
  IN IF room < 0 /\ checked THEN Panic([s EXCEPT !.wrap = FALSE])
     ELSE Move(s, Least(base + down, s.rows - 1), Least(Most(n, 1) - 1, s.cols - 1))

SaveCursor(s) == [s EXCEPT !.saved = <<s.row, s.col>>]
RestoreCursor(s) == Move(s, s.saved[1], s.saved[2])

-----------------------------------------------------------------------------
(* Erasing, inserting, deleting *)

Modes == {"to end", "to start", "all"}

Columns(s, mode) ==
  CASE mode = "to end" -> s.col .. s.cols - 1
    [] mode = "to start" -> 0 .. Least(s.col, s.cols - 1)
    [] mode = "all" -> 0 .. s.cols - 1

EraseInLine(s, mode) ==
  IF Columns(s, mode) = {} THEN s
  ELSE IF s.row >= s.rows THEN Panic(s)
  ELSE Draw(s, [Cells(s) EXCEPT ![s.row] =
         [c \in 0 .. s.cols - 1 |-> IF c \in Columns(s, mode) THEN " " ELSE @[c]]])

EraseInDisplay(s, mode) ==
  LET Whole(r) == CASE mode = "to end" -> r > s.row
                    [] mode = "to start" -> r < s.row
                    [] mode = "all" -> TRUE
      others == Draw(s, [r \in 0 .. s.rows - 1 |-> IF Whole(r) THEN BlankRow(s) ELSE Cells(s)[r]])
  IN IF mode = "all" THEN others ELSE EraseInLine(others, mode)

\* From the cursor's row, wherever the region begins.
InsertLine(s, n) ==
  IF s.row >= s.bottom THEN s ELSE ShiftDown(s, Least(n, s.bottom - s.row), s.row, s.bottom)
DeleteLine(s, n) ==
  IF s.row >= s.bottom THEN s ELSE ShiftUp(s, Least(n, s.bottom - s.row), s.row, s.bottom)

EditLine(s, f) ==
  IF s.col >= s.cols THEN s
  ELSE IF s.row >= s.rows THEN Panic(s)
  ELSE Draw(s, [Cells(s) EXCEPT ![s.row] = f])

InsertCharacter(s, n) ==
  LET m == Least(n, s.cols - s.col)
  IN EditLine(s, [c \in 0 .. s.cols - 1 |->
       CASE c < s.col -> Cells(s)[s.row][c]
         [] c \in s.col .. s.col + m - 1 -> " "
         [] OTHER -> Cells(s)[s.row][c - m]])
DeleteCharacter(s, n) ==
  LET m == Least(n, s.cols - s.col)
  IN EditLine(s, [c \in 0 .. s.cols - 1 |->
       CASE c < s.col -> Cells(s)[s.row][c]
         [] c >= s.cols - m -> " "
         [] OTHER -> Cells(s)[s.row][c + m]])

-----------------------------------------------------------------------------
(* Regions, modes, sizes *)

\* 0 is the parameter left out.
SetScrollingRegion(s, m, n) ==
  LET top == IF m = 0 THEN 0 ELSE m - 1
      bottom == IF n = 0 THEN s.rows - 1 ELSE Least(n, s.rows) - 1
  IN IF top < bottom THEN [s EXCEPT !.top = top, !.bottom = bottom] ELSE s

OriginMode(s, on) == Move([s EXCEPT !.origin = on], IF on THEN s.top ELSE 0, 0)
AutoWrap(s, on) == [s EXCEPT !.autowrap = on, !.wrap = @ /\ on]

WholeScreen(s) == [s EXCEPT !.top = 0, !.bottom = s.rows - 1]

EnterAlternate(s) ==
  IF s.active = "alternate" THEN s
  ELSE [WholeScreen(Move(s, 0, 0)) EXCEPT
         !.active = "alternate", !.saved = <<0, 0>>,
         !.grid["alternate"] = Blank(s.cols, s.rows)]

\* The cursor stays where the alternate screen had it.
LeaveAlternate(s) ==
  IF s.active = "primary" THEN s
  ELSE [WholeScreen(s) EXCEPT !.active = "primary"]

\* The top of the region, a pending wrap and the saved cursor stay as they are.
Resize(s, cols, rows) ==
  LET Cut(g) == [r \in 0 .. rows - 1 |-> [c \in 0 .. cols - 1 |->
                   IF r < s.rows /\ c < s.cols THEN g[r][c] ELSE " "]]
  IN [s EXCEPT
       !.cols = cols, !.rows = rows,
       !.grid = [b \in Buffers |-> Cut(@[b])],
       !.bottom = rows - 1,
       !.row = Least(@, rows - 1), !.col = Least(@, cols - 1)]

-----------------------------------------------------------------------------

Init ==
  /\ screen = New(FirstSize[1], FirstSize[2])
  /\ ops = 0 /\ shrunk = FALSE

\* An operation changes the screen to t.
Do(t) ==
  /\ ~screen.dead /\ ops < MaxOps /\ t # screen
  /\ ops' = ops + 1 /\ screen' = t
  /\ UNCHANGED shrunk

PrintText(k) == Do(PutChar(screen, k))

ResizeTo(size) ==
  /\ ~screen.dead /\ ops < MaxOps /\ size # <<screen.cols, screen.rows>>
  /\ ops' = ops + 1 /\ screen' = Resize(screen, size[1], size[2])
  /\ shrunk' = (shrunk \/ size[1] < screen.cols \/ size[2] < screen.rows)

Plain ==
  \/ Do(Linefeed(screen)) \/ Do(CarriageReturn(screen)) \/ Do(Backspace(screen))
  \/ Do(Tab(screen)) \/ Do(SaveCursor(screen)) \/ Do(RestoreCursor(screen))
  \/ Do(EnterAlternate(screen)) \/ Do(LeaveAlternate(screen))

Counted(n) ==
  \/ Do(Repeat(screen, n)) \/ Do(CursorUp(screen, n)) \/ Do(CursorDown(screen, n))
  \/ Do(CursorForward(screen, n)) \/ Do(CursorBack(screen, n))
  \/ Do(CursorNextLine(screen, n)) \/ Do(CursorPreviousLine(screen, n))
  \/ Do(Horizontal(screen, n)) \/ Do(Vertical(screen, n))
  \/ Do(ScrollUp(screen, n)) \/ Do(ScrollDown(screen, n))
  \/ Do(InsertLine(screen, n)) \/ Do(DeleteLine(screen, n))
  \/ Do(InsertCharacter(screen, n)) \/ Do(DeleteCharacter(screen, n))

Switch(on) == Do(OriginMode(screen, on)) \/ Do(AutoWrap(screen, on))
Erase(mode) == Do(EraseInDisplay(screen, mode)) \/ Do(EraseInLine(screen, mode))
Position(m, n, checked) == Do(CursorPosition(screen, m, n, checked))
Region(m, n) == Do(SetScrollingRegion(screen, m, n))

Next ==
  \/ \E k \in {"x", "W"} : PrintText(k)
  \/ Plain
  \/ \E n \in Counts : Counted(n)
  \/ \E on \in BOOLEAN : Switch(on)
  \/ \E mode \in Modes : Erase(mode)
  \/ \E m, n \in Counts, checked \in BOOLEAN : Position(m, n, checked)
  \/ \E m, n \in Counts \union {0} : Region(m, n)
  \/ \E size \in Sizes : ResizeTo(size)

Spec == Init /\ [][Next]_vars

-----------------------------------------------------------------------------
(* Properties *)

TypeOK ==
  /\ <<screen.cols, screen.rows>> \in Sizes
  /\ screen.active \in Buffers
  /\ \A b \in Buffers :
       screen.grid[b] \in [0 .. screen.rows - 1 -> [0 .. screen.cols - 1 -> {" ", "x", "W", "_"}]]
  /\ {screen.row, screen.col, screen.saved[1], screen.saved[2], screen.top} \subseteq Nat
  /\ screen.bottom \in 0 .. screen.rows - 1
  /\ Len(screen.back) <= MaxScrollback
  /\ ops \in 0 .. MaxOps /\ shrunk \in BOOLEAN

\* As long as nobody makes the screen smaller, no sequence of operations takes
\* the cursor off it or indexes outside its cells.
OnScreenUnlessShrunk ==
  shrunk \/ (~screen.dead /\ screen.row < screen.rows /\ screen.col < screen.cols)

\* A full-screen program leaves the shell's screen and its scrollback alone.
ShellScreenIsKept ==
  [][/\ screen.active = "alternate"
     /\ <<screen'.cols, screen'.rows>> = <<screen.cols, screen.rows>>
     => screen'.grid["primary"] = screen.grid["primary"] /\ screen'.back = screen.back]_vars
=============================================================================
