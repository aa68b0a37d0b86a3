----------------------------- MODULE NvboardTerm ----------------------------
(***************************************************************************)
(* nvboard/src/term.cpp: the terminal on the virtual board.  It keeps all  *)
(* lines ever printed and shows the last Height of them.  A character only *)
(* marks the cells it touches; update_gui redraws the marked ones.         *)
(*                                                                         *)
(* dirty_line and dirty_screen say which lines have marked cells and       *)
(* whether there are any.  backspace(true), clear, set_cursor_visibility   *)
(* and feed_str are not called by anything on the board.                   *)
(***************************************************************************)
EXTENDS Integers, Sequences

CONSTANTS Width, Height,                \* w_in_char, h_in_char
          Char,
          Space,                        \* the blank
          Newline, Return, Backspace,   \* what feed_ch does not print
          Cursor                        \* the picture of the cursor

ASSUME TermAssumption == /\ Width \in Nat \ {0} /\ Height \in Nat \ {0}
                         /\ {Space, Newline, Return, Backspace} \subseteq Char
                         /\ Cursor \notin Char
                         /\ Newline # Return /\ Newline # Backspace /\ Return # Backspace

VARIABLES lines, cursor_x, cursor_y,
          screen_y,     \* the line shown on top
          dirty,        \* the cells marked in dirty_char
          drawn         \* what each cell of the window shows

termVars == <<lines, cursor_x, cursor_y, screen_y, dirty, drawn>>

Column    == 0 .. Width - 1
Cell      == (0 .. Height - 1) \X Column
EmptyLine == [x \in Column |-> Space]
Lines     == 0 .. Len(lines) - 1
Line(y)   == lines[y + 1]

is_cursor_on_screen == cursor_y >= screen_y /\ cursor_y < screen_y + Height

CursorCell == <<cursor_y - screen_y, cursor_x>>

\* The cells, with the cursor drawn over them.
draw_cursor(cells) == IF is_cursor_on_screen THEN [cells EXCEPT ![CursorCell] = Cursor]
                      ELSE cells

TermInit == /\ lines = <<EmptyLine>>
            /\ cursor_x = 0 /\ cursor_y = 0 /\ screen_y = 0
            /\ dirty = {}
            /\ drawn = [[c \in Cell |-> Space] EXCEPT ![<<0, 0>>] = Cursor]

MarkedScroll_none(marked) == marked
MarkedScroll(marked)      == Cell

newline(printed, marked) ==
    LET scrolls == cursor_y + 1 = screen_y + Height IN
    /\ cursor_x' = 0 /\ cursor_y' = cursor_y + 1
    /\ lines'    = IF cursor_y + 1 >= Len(printed) THEN Append(printed, EmptyLine)
                   ELSE printed
    /\ screen_y' = IF scrolls THEN screen_y + 1 ELSE screen_y
    /\ dirty'    = IF scrolls THEN MarkedScroll(marked) ELSE marked

\* What feed_ch marks before it does anything.
Touched == IF is_cursor_on_screen THEN dirty \cup {CursorCell} ELSE dirty

Printed(x, ch) == [lines EXCEPT ![cursor_y + 1][x] = ch]

WrapsAt_late(x) == x = Width + 1
WrapsAt(x)      == x = Width

\* feed_ch of a character it does not assert on.
feed_ch(ch) ==
    /\ UNCHANGED drawn
    /\ CASE ch = Newline -> newline(lines, Touched)
         [] ch = Return ->
              /\ cursor_x' = 0 /\ dirty' = Touched
              /\ UNCHANGED <<lines, cursor_y, screen_y>>
         [] ch = Backspace /\ cursor_x = 0 ->
              /\ dirty' = Touched
              /\ UNCHANGED <<lines, cursor_x, cursor_y, screen_y>>
         [] ch = Backspace /\ cursor_x > 0 ->
              /\ cursor_x' = cursor_x - 1
              /\ lines' = Printed(cursor_x - 1, Space)
              /\ dirty' = IF is_cursor_on_screen
                          THEN Touched \cup {<<cursor_y - screen_y, cursor_x - 1>>}
                          ELSE Touched
              /\ UNCHANGED <<cursor_y, screen_y>>
         [] OTHER ->
              IF WrapsAt(cursor_x + 1) THEN newline(Printed(cursor_x, ch), Touched)
              ELSE /\ cursor_x' = cursor_x + 1
                   /\ lines' = Printed(cursor_x, ch)
                   /\ dirty' = Touched
                   /\ UNCHANGED <<cursor_y, screen_y>>

Redraw(c) == c \in dirty /\ screen_y + c[1] \in Lines

update_gui == /\ dirty' = {}
              /\ drawn' = IF dirty = {} THEN drawn
                          ELSE draw_cursor([c \in Cell |->
                                  IF Redraw(c) THEN Line(screen_y + c[1])[c[2]] ELSE drawn[c]])
              /\ UNCHANGED <<lines, cursor_x, cursor_y, screen_y>>

\* The colour of the cursor changes, at once.
set_focus == /\ drawn' = draw_cursor(drawn)
             /\ UNCHANGED <<lines, cursor_x, cursor_y, screen_y, dirty>>

-----------------------------------------------------------------------------
TermTypeOK == /\ lines \in Seq([Column -> Char]) /\ Len(lines) > 0
              /\ cursor_x \in Column /\ cursor_y \in Lines
              /\ screen_y \in Nat
              /\ dirty \subseteq Cell
              /\ drawn \in [Cell -> Char \cup {Cursor}]

\* What a cell should show, the cursor aside.
Content(c) == IF screen_y + c[1] \in Lines THEN Line(screen_y + c[1])[c[2]] ELSE Space

(* The window never shows what the lines do not say: a cell that no redraw *)
(* is going to repaint shows its character, and the only picture of the    *)
(* cursor among them is where the cursor is, which never leaves the window.*)
(* feed_ch, backspace, newline and the scrolling each mark cells of their  *)
(* own for this.                                                           *)
WindowFaithful == /\ is_cursor_on_screen
                  /\ \A c \in Cell \ dirty :
                        \/ drawn[c] = Content(c)
                        \/ drawn[c] = Cursor /\ c = CursorCell
=============================================================================
