------------------------ MODULE BoardTerminalProofs -------------------------
(***************************************************************************)
(* The terminal's window shows its lines, and the loop through the design  *)
(* delivers what was typed, for every size of the window, every width of a *)
(* character and every divisor of the UART.                                *)
(***************************************************************************)
EXTENDS BoardTerminal, SequenceTheorems, TLAPS

USE DEF Cell, Column, Lines, Line

-----------------------------------------------------------------------------
(* A row below the last line is blank: no line has ever been shown there,  *)
(* so that update_gui has nothing to repaint in it.                        *)
BlankBelow == \A c \in Cell : screen_y + c[1] \notin Lines => drawn[c] = Space

TermInv == TermTypeOK /\ WindowFaithful /\ BlankBelow

CharSeq == Seq([Column -> Char])

LEMMA EmptyLineType == EmptyLine \in [Column -> Char]
  BY TermAssumption DEF EmptyLine

(* The cursor is in the window, and the lines are a sequence.              *)
LEMMA Layout ==
    ASSUME TermTypeOK, WindowFaithful
    PROVE  /\ CursorCell \in Cell
           /\ is_cursor_on_screen
           /\ cursor_x \in Column /\ cursor_y \in Nat /\ screen_y \in Nat
           /\ screen_y <= cursor_y /\ cursor_y < screen_y + Height
           /\ cursor_y < Len(lines) /\ Len(lines) \in Nat /\ lines \in CharSeq
           /\ Touched = dirty \cup {CursorCell}
  <1>1. Len(lines) \in Nat /\ lines \in CharSeq
    BY LenProperties DEF TermTypeOK, CharSeq
  <1>2. /\ is_cursor_on_screen /\ cursor_x \in Column /\ cursor_y \in Nat
        /\ screen_y \in Nat /\ screen_y <= cursor_y /\ cursor_y < screen_y + Height
        /\ cursor_y < Len(lines)
    BY <1>1 DEF TermTypeOK, WindowFaithful, is_cursor_on_screen
  <1>3. CursorCell \in Cell
    BY <1>2, TermAssumption DEF CursorCell
  <1> QED
    BY <1>1, <1>2, <1>3 DEF Touched

(* Printing changes one cell of one line.                                  *)
LEMMA PrintedLayout ==
    ASSUME TermTypeOK, WindowFaithful, NEW x \in Column, NEW ch \in Char
    PROVE  /\ Printed(x, ch) \in CharSeq
           /\ Len(Printed(x, ch)) = Len(lines)
           /\ \A y \in Lines, z \in Column :
                 y # cursor_y \/ z # x => Printed(x, ch)[y + 1][z] = lines[y + 1][z]
  <1> DEFINE e == [lines[cursor_y + 1] EXCEPT ![x] = ch]
  <1>1. Printed(x, ch) = [lines EXCEPT ![cursor_y + 1] = e]
    BY DEF Printed
  <1>2. cursor_y + 1 \in 1 .. Len(lines) /\ lines \in CharSeq
    BY Layout
  <1>3. lines[cursor_y + 1] \in [Column -> Char]
    BY <1>2, ElementOfSeq DEF CharSeq
  <1>4. e \in [Column -> Char]
    BY <1>3
  <1>5. /\ [lines EXCEPT ![cursor_y + 1] = e] \in CharSeq
        /\ Len([lines EXCEPT ![cursor_y + 1] = e]) = Len(lines)
        /\ \A j \in 1 .. Len(lines) :
              [lines EXCEPT ![cursor_y + 1] = e][j] = IF j = cursor_y + 1 THEN e ELSE lines[j]
    BY <1>2, <1>4, ExceptSeq DEF CharSeq
  <1>6. ASSUME NEW y \in Lines, NEW z \in Column, y # cursor_y \/ z # x
        PROVE  Printed(x, ch)[y + 1][z] = lines[y + 1][z]
    <2>1. y + 1 \in 1 .. Len(lines) /\ (y + 1 = cursor_y + 1 <=> y = cursor_y)
      BY Layout
    <2>2. CASE y = cursor_y
      BY <1>1, <1>3, <1>5, <1>6, <2>1, <2>2
    <2>3. CASE y # cursor_y
      BY <1>1, <1>5, <2>1, <2>3
    <2> QED
      BY <2>2, <2>3
  <1> QED
    BY <1>1, <1>5, <1>6

(* What a step owes when it marks all that it changes: the lines only grow,*)
(* an unmarked cell kept its character and was not under the cursor, and   *)
(* the rows between the last line and the end of the window are untouched. *)
Marks == /\ drawn' = drawn
         /\ dirty \cup {CursorCell} \subseteq dirty' /\ dirty' \subseteq Cell
         /\ lines' \in CharSeq /\ Len(lines') >= Len(lines)
         /\ cursor_x' \in Column /\ cursor_y' \in 0 .. Len(lines') - 1
         /\ screen_y' \in Nat
         /\ screen_y' <= cursor_y' /\ cursor_y' < screen_y' + Height
         /\ \/ /\ screen_y' = screen_y
               /\ \A c \in Cell \ dirty' :
                     /\ screen_y + c[1] \in Lines =>
                           lines'[screen_y + c[1] + 1][c[2]]
                              = lines[screen_y + c[1] + 1][c[2]]
                     /\ screen_y + c[1] \in 0 .. Len(lines') - 1 /\ screen_y + c[1] \notin Lines =>
                           lines'[screen_y + c[1] + 1][c[2]] = Space
            \/ /\ dirty' = Cell
               /\ \A c \in Cell : screen_y' + c[1] \in 0 .. Len(lines') - 1

LEMMA MarksSuffice ==
    ASSUME TermInv, Marks
    PROVE  TermInv'
  <1>1. TermTypeOK'
    BY LenProperties DEF TermInv, TermTypeOK, Marks, CharSeq
  <1>2. /\ Len(lines) \in Nat /\ Len(lines') \in Nat /\ screen_y \in Nat
    BY LenProperties DEF TermInv, TermTypeOK, Marks, CharSeq
  <1>3. WindowFaithful'
    <2>1. is_cursor_on_screen'
      BY DEF Marks, is_cursor_on_screen
    <2>2. ASSUME NEW c \in Cell, c \notin dirty'
          PROVE  drawn'[c] = Content(c)'
      <3>1. /\ screen_y' = screen_y /\ drawn' = drawn
            /\ c \notin dirty /\ c # CursorCell
        BY <2>2 DEF Marks
      <3>2. drawn[c] = Content(c)
        BY <3>1, <2>2 DEF TermInv, WindowFaithful
      <3>3. screen_y + c[1] \in Nat
        BY <1>2, <2>2, TermAssumption
      <3>4. dirty' # Cell
        BY <2>2
      <3>5. /\ screen_y + c[1] \in Lines =>
                  lines'[screen_y + c[1] + 1][c[2]] = lines[screen_y + c[1] + 1][c[2]]
            /\ screen_y + c[1] \in 0 .. Len(lines') - 1 /\ screen_y + c[1] \notin Lines =>
                  lines'[screen_y + c[1] + 1][c[2]] = Space
            /\ Len(lines') >= Len(lines)
        BY <2>2, <3>4 DEF Marks
      <3>6. drawn[c] = IF screen_y + c[1] \in Lines THEN lines[screen_y + c[1] + 1][c[2]]
                       ELSE Space
        BY <3>2 DEF Content
      <3>7. Content(c)' = IF screen_y + c[1] \in 0 .. Len(lines') - 1
                          THEN lines'[screen_y + c[1] + 1][c[2]] ELSE Space
        BY <3>1 DEF Content
      <3> QED
        BY <1>2, <3>1, <3>3, <3>5, <3>6, <3>7
    <2> QED
      BY <2>1, <2>2 DEF WindowFaithful
  <1>4. BlankBelow'
    <2>1. SUFFICES ASSUME NEW c \in Cell, ~ (screen_y' + c[1] \in 0 .. Len(lines') - 1)
                   PROVE  drawn'[c] = Space
      BY DEF BlankBelow
    <2>2. screen_y' = screen_y /\ drawn' = drawn /\ Len(lines') >= Len(lines)
      BY <2>1 DEF Marks
    <2>3. c[1] \in Int
      BY <2>1, TermAssumption
    <2>4. screen_y + c[1] \notin Lines
      BY <1>2, <2>1, <2>2, <2>3
    <2> QED
      BY <2>2, <2>4 DEF TermInv, BlankBelow
  <1> QED
    BY <1>1, <1>3, <1>4 DEF TermInv

(* A line feed, after the character that filled the line or without one.   *)
LEMMA NewlineMarks ==
    ASSUME TermInv, drawn' = drawn,
           NEW printed \in CharSeq, Len(printed) = Len(lines),
           \A y \in Lines, z \in Column :
              y # cursor_y \/ z # cursor_x => printed[y + 1][z] = lines[y + 1][z],
           newline(printed, Touched)
    PROVE  Marks
  <1>1. /\ CursorCell \in Cell /\ Touched = dirty \cup {CursorCell}
        /\ cursor_x \in Column /\ cursor_y \in Nat /\ screen_y \in Nat
        /\ screen_y <= cursor_y /\ cursor_y < screen_y + Height
        /\ cursor_y < Len(lines) /\ Len(lines) \in Nat
    BY Layout DEF TermInv
  <1>2. dirty \subseteq Cell
    BY DEF TermInv, TermTypeOK
  <1>3. /\ Append(printed, EmptyLine) \in CharSeq
        /\ Len(Append(printed, EmptyLine)) = Len(lines) + 1
        /\ \A y \in Lines : Append(printed, EmptyLine)[y + 1] = printed[y + 1]
        /\ Append(printed, EmptyLine)[Len(lines) + 1] = EmptyLine
    <2>1. /\ Append(printed, EmptyLine) \in CharSeq
          /\ Len(Append(printed, EmptyLine)) = Len(printed) + 1
          /\ \A i \in 1 .. Len(printed) : Append(printed, EmptyLine)[i] = printed[i]
          /\ Append(printed, EmptyLine)[Len(printed) + 1] = EmptyLine
      BY AppendProperties, EmptyLineType DEF CharSeq
    <2> QED
      BY <1>1, <2>1
  <1>4. /\ lines' \in CharSeq /\ Len(lines') >= Len(lines)
        /\ cursor_x' \in Column /\ cursor_y' = cursor_y + 1
        /\ cursor_y + 1 < Len(lines')
        /\ \A y \in Lines : lines'[y + 1] = printed[y + 1]
        /\ Len(lines') = Len(lines) \/ /\ Len(lines') = Len(lines) + 1
                                       /\ lines'[Len(lines) + 1] = EmptyLine
    BY <1>1, <1>3, TermAssumption DEF newline
  <1>5. Len(lines') \in Nat
    BY <1>1, <1>4
  <1>6. CASE cursor_y + 1 = screen_y + Height
    <2>1. screen_y' = screen_y + 1 /\ dirty' = Cell
      BY <1>6 DEF newline, MarkedScroll
    <2>2. ASSUME NEW c \in Cell PROVE screen_y' + c[1] \in 0 .. Len(lines') - 1
      <3>1. c[1] \in 0 .. Height - 1
        OBVIOUS
      <3> QED
        BY <1>1, <1>4, <1>5, <1>6, <2>1, <3>1, TermAssumption
    <2>3. screen_y' <= cursor_y' /\ cursor_y' < screen_y' + Height
      BY <1>1, <1>4, <1>6, <2>1, TermAssumption
    <2> QED
      BY <1>1, <1>2, <1>4, <1>5, <2>1, <2>2, <2>3 DEF Marks
  <1>7. CASE cursor_y + 1 # screen_y + Height
    <2>1. screen_y' = screen_y /\ dirty' = dirty \cup {CursorCell}
      BY <1>1, <1>7 DEF newline
    <2>2. ASSUME NEW c \in Cell, c # CursorCell
          PROVE  /\ screen_y + c[1] \in Lines =>
                       lines'[screen_y + c[1] + 1][c[2]] = lines[screen_y + c[1] + 1][c[2]]
                 /\ screen_y + c[1] \in 0 .. Len(lines') - 1 /\ screen_y + c[1] \notin Lines =>
                       lines'[screen_y + c[1] + 1][c[2]] = Space
      <3>1. c = <<c[1], c[2]>> /\ c[1] \in Int /\ c[2] \in Column
        BY <2>2, TermAssumption
      <3>2. screen_y + c[1] # cursor_y \/ c[2] # cursor_x
        BY <1>1, <2>2, <3>1 DEF CursorCell
      <3>3. ASSUME screen_y + c[1] \in Lines
            PROVE  lines'[screen_y + c[1] + 1][c[2]] = lines[screen_y + c[1] + 1][c[2]]
        BY <1>4, <3>1, <3>2, <3>3
      <3>4. ASSUME screen_y + c[1] \in 0 .. Len(lines') - 1, screen_y + c[1] \notin Lines
            PROVE  lines'[screen_y + c[1] + 1][c[2]] = Space
        <4>1. screen_y + c[1] = Len(lines) /\ lines'[Len(lines) + 1] = EmptyLine
          BY <1>1, <1>4, <3>1, <3>4
        <4>2. \A z \in Column : EmptyLine[z] = Space
          BY DEF EmptyLine
        <4>3. screen_y + c[1] + 1 = Len(lines) + 1
          BY <4>1
        <4> QED
          BY <3>1, <4>1, <4>2, <4>3
      <3> QED
        BY <3>3, <3>4
    <2>3. screen_y' <= cursor_y' /\ cursor_y' < screen_y' + Height
      BY <1>1, <1>4, <1>7, <2>1, TermAssumption
    <2> QED
      BY <1>1, <1>2, <1>4, <1>5, <2>1, <2>2, <2>3 DEF Marks
  <1> QED
    BY <1>6, <1>7

LEMMA FeedKeeps ==
    ASSUME TermInv, NEW ch \in Char, feed_ch(ch)
    PROVE  TermInv'
  <1> SUFFICES Marks
    BY MarksSuffice
  <1>1. /\ CursorCell \in Cell /\ Touched = dirty \cup {CursorCell}
        /\ is_cursor_on_screen
        /\ cursor_x \in Column /\ cursor_y \in Nat /\ screen_y \in Nat
        /\ screen_y <= cursor_y /\ cursor_y < screen_y + Height
        /\ cursor_y < Len(lines) /\ Len(lines) \in Nat /\ lines \in CharSeq
    BY Layout DEF TermInv
  <1>2. dirty \subseteq Cell /\ drawn' = drawn
    BY DEF TermInv, TermTypeOK, feed_ch
  <1>3. CASE ch = Newline
    <2>1. newline(lines, Touched)
      BY <1>3, TermAssumption DEF feed_ch
    <2> QED
      BY <1>1, <1>2, <2>1, NewlineMarks
  <1>4. CASE ch = Return
    <2>1. /\ cursor_x' = 0 /\ dirty' = Touched
          /\ lines' = lines /\ cursor_y' = cursor_y /\ screen_y' = screen_y
      BY <1>4, TermAssumption DEF feed_ch
    <2> QED
      BY <1>1, <1>2, <2>1, TermAssumption DEF Marks
  <1>5. CASE ch = Backspace /\ cursor_x = 0
    <2>1. /\ cursor_x' = cursor_x /\ dirty' = Touched
          /\ lines' = lines /\ cursor_y' = cursor_y /\ screen_y' = screen_y
      BY <1>5, TermAssumption DEF feed_ch
    <2> QED
      BY <1>1, <1>2, <2>1, TermAssumption DEF Marks
  <1>6. CASE ch = Backspace /\ cursor_x > 0
    <2>1. /\ cursor_x' = cursor_x - 1 /\ lines' = Printed(cursor_x - 1, Space)
          /\ dirty' = Touched \cup {<<cursor_y - screen_y, cursor_x - 1>>}
          /\ cursor_y' = cursor_y /\ screen_y' = screen_y
      BY <1>1, <1>6, TermAssumption DEF feed_ch
    <2>2. cursor_x - 1 \in Column /\ Space \in Char
      BY <1>1, <1>6, TermAssumption
    <2>3. /\ lines' \in CharSeq /\ Len(lines') = Len(lines)
          /\ \A y \in Lines, z \in Column :
                y # cursor_y \/ z # cursor_x - 1 => lines'[y + 1][z] = lines[y + 1][z]
      BY <2>1, <2>2, PrintedLayout DEF TermInv
    <2>4. <<cursor_y - screen_y, cursor_x - 1>> \in Cell
      BY <1>1, <2>2, TermAssumption
    <2>5. ASSUME NEW c \in Cell, c # <<cursor_y - screen_y, cursor_x - 1>>,
                 screen_y + c[1] \in Lines
          PROVE  lines'[screen_y + c[1] + 1][c[2]] = lines[screen_y + c[1] + 1][c[2]]
      <3>1. c = <<c[1], c[2]>> /\ c[1] \in Int /\ c[2] \in Column
        BY <2>5, TermAssumption
      <3>2. screen_y + c[1] # cursor_y \/ c[2] # cursor_x - 1
        BY <1>1, <2>5, <3>1
      <3> QED
        BY <2>3, <2>5, <3>1, <3>2
    <2>6. dirty \cup {CursorCell} \subseteq dirty' /\ dirty' \subseteq Cell
      BY <1>1, <1>2, <2>1, <2>4
    <2>7. \A c \in Cell \ dirty' : c # <<cursor_y - screen_y, cursor_x - 1>>
      BY <2>1
    <2>8. /\ cursor_x' \in Column /\ cursor_y' \in 0 .. Len(lines') - 1
          /\ Len(lines') >= Len(lines)
      BY <1>1, <2>1, <2>2, <2>3
    <2> QED
      BY <1>1, <1>2, <2>1, <2>3, <2>5, <2>6, <2>7, <2>8 DEF Marks
  <1>7. CASE ch \notin {Newline, Return, Backspace}
    <2>1. IF WrapsAt(cursor_x + 1) THEN newline(Printed(cursor_x, ch), Touched)
          ELSE /\ cursor_x' = cursor_x + 1
               /\ lines' = Printed(cursor_x, ch)
               /\ dirty' = Touched
               /\ UNCHANGED <<cursor_y, screen_y>>
      BY <1>7 DEF feed_ch
    <2>2. /\ Printed(cursor_x, ch) \in CharSeq /\ Len(Printed(cursor_x, ch)) = Len(lines)
          /\ \A y \in Lines, z \in Column :
                y # cursor_y \/ z # cursor_x =>
                   Printed(cursor_x, ch)[y + 1][z] = lines[y + 1][z]
      BY <1>1, PrintedLayout DEF TermInv
    <2>3. CASE cursor_x + 1 = Width
      BY <1>2, <2>1, <2>2, <2>3, NewlineMarks DEF WrapsAt
    <2>4. CASE cursor_x + 1 # Width
      <3>1. /\ cursor_x' = cursor_x + 1 /\ lines' = Printed(cursor_x, ch)
            /\ dirty' = dirty \cup {CursorCell} /\ cursor_y' = cursor_y /\ screen_y' = screen_y
        BY <1>1, <2>1, <2>4 DEF WrapsAt
      <3>2. ASSUME NEW c \in Cell, c # CursorCell, screen_y + c[1] \in Lines
            PROVE  lines'[screen_y + c[1] + 1][c[2]] = lines[screen_y + c[1] + 1][c[2]]
        <4>1. c = <<c[1], c[2]>> /\ c[1] \in Int /\ c[2] \in Column
          BY <3>2, TermAssumption
        <4>2. screen_y + c[1] # cursor_y \/ c[2] # cursor_x
          BY <1>1, <3>2, <4>1 DEF CursorCell
        <4> QED
          BY <2>2, <3>1, <3>2, <4>1, <4>2
      <3>3. /\ cursor_x' \in Column /\ cursor_y' \in 0 .. Len(lines') - 1
            /\ lines' \in CharSeq /\ Len(lines') = Len(lines) /\ Len(lines') >= Len(lines)
        BY <1>1, <2>2, <2>4, <3>1, TermAssumption
      <3> QED
        BY <1>1, <1>2, <3>1, <3>2, <3>3 DEF Marks
    <2> QED
      BY <2>3, <2>4
  <1> QED
    <2>1. cursor_x = 0 \/ cursor_x > 0
      BY <1>1, TermAssumption
    <2> QED
      BY <1>3, <1>4, <1>5, <1>6, <1>7, <2>1

LEMMA UpdateKeeps ==
    ASSUME TermInv, update_gui
    PROVE  TermInv'
  <1>1. /\ CursorCell \in Cell /\ is_cursor_on_screen
        /\ screen_y \in Nat /\ Len(lines) \in Nat /\ lines \in CharSeq
    BY Layout DEF TermInv
  <1>2. /\ lines' = lines /\ cursor_x' = cursor_x /\ cursor_y' = cursor_y
        /\ screen_y' = screen_y /\ dirty' = {}
    BY DEF update_gui
  <1>3. /\ drawn \in [Cell -> Char \cup {Cursor}] /\ Space \in Char
        /\ \A c \in Cell \ dirty : drawn[c] = Content(c) \/ (drawn[c] = Cursor /\ c = CursorCell)
        /\ \A c \in Cell : screen_y + c[1] \notin Lines => drawn[c] = Space
    <2>1. drawn \in [Cell -> Char \cup {Cursor}] /\ Space \in Char
      BY TermAssumption DEF TermInv, TermTypeOK
    <2>2. \A c \in Cell \ dirty :
             drawn[c] = Content(c) \/ (drawn[c] = Cursor /\ c = CursorCell)
      BY DEF TermInv, WindowFaithful
    <2>3. \A c \in Cell : screen_y + c[1] \notin Lines => drawn[c] = Space
      BY DEF TermInv, BlankBelow
    <2> QED
      BY <2>1, <2>2, <2>3
  <1>4. \A c \in Cell : Content(c) \in Char
    <2>1. ASSUME NEW c \in Cell, screen_y + c[1] \in Lines
          PROVE  lines[screen_y + c[1] + 1][c[2]] \in Char
      <3>1. screen_y + c[1] + 1 \in 1 .. Len(lines) /\ c[2] \in Column
        BY <1>1, <2>1
      <3>2. lines[screen_y + c[1] + 1] \in [Column -> Char]
        BY <1>1, <3>1, ElementOfSeq DEF CharSeq
      <3> QED
        BY <3>1, <3>2
    <2> QED
      BY <1>3, <2>1 DEF Content
  <1>5. /\ drawn' \in [Cell -> Char \cup {Cursor}]
        /\ \A c \in Cell : drawn'[c] = Content(c) \/ (drawn'[c] = Cursor /\ c = CursorCell)
    <2>1. CASE dirty = {}
      BY <1>3, <2>1 DEF update_gui
    <2>2. CASE dirty # {}
      <3> DEFINE cells == [c \in Cell |-> IF Redraw(c) THEN Line(screen_y + c[1])[c[2]]
                                          ELSE drawn[c]]
      <3>1. drawn' = [cells EXCEPT ![CursorCell] = Cursor]
        BY <1>1, <2>2 DEF update_gui, draw_cursor
      <3>2. \A c \in Cell : cells[c] = Content(c) \/ (cells[c] = Cursor /\ c = CursorCell)
        <4>1. SUFFICES ASSUME NEW c \in Cell
                       PROVE  cells[c] = Content(c) \/ (cells[c] = Cursor /\ c = CursorCell)
          OBVIOUS
        <4>2. CASE Redraw(c)
          BY <4>2 DEF Redraw, Content
        <4>3. CASE c \in dirty /\ screen_y + c[1] \notin Lines
          BY <1>3, <4>3 DEF Redraw, Content
        <4>4. CASE c \notin dirty
          BY <1>3, <4>4 DEF Redraw
        <4> QED
          BY <4>2, <4>3, <4>4 DEF Redraw
      <3>3. cells \in [Cell -> Char \cup {Cursor}]
        BY <1>3, <1>4, <3>2
      <3> HIDE DEF cells
      <3>4. drawn' \in [Cell -> Char \cup {Cursor}]
        BY <3>1, <3>3
      <3>5. ASSUME NEW c \in Cell
            PROVE  drawn'[c] = Content(c) \/ (drawn'[c] = Cursor /\ c = CursorCell)
        BY <3>1, <3>2, <3>3
      <3> QED
        BY <3>4, <3>5
    <2> QED
      BY <2>1, <2>2
  <1>6. /\ CursorCell' = CursorCell /\ is_cursor_on_screen' = is_cursor_on_screen
        /\ \A c \in Cell : Content(c)' = Content(c)
    BY <1>2 DEF CursorCell, is_cursor_on_screen, Content
  <1>7. TermTypeOK'
    BY <1>2, <1>5 DEF TermInv, TermTypeOK
  <1>8. WindowFaithful'
    BY <1>1, <1>5, <1>6 DEF WindowFaithful
  <1>9. BlankBelow'
    <2>1. SUFFICES ASSUME NEW c \in Cell, screen_y + c[1] \notin Lines
                   PROVE  drawn'[c] = Space
      BY <1>2 DEF BlankBelow
    <2>2. Content(c) = Space
      BY <2>1 DEF Content
    <2>3. c # CursorCell
      BY <2>1, Layout DEF TermInv, CursorCell
    <2> QED
      BY <1>5, <2>1, <2>2, <2>3
  <1> QED
    BY <1>7, <1>8, <1>9 DEF TermInv

LEMMA FocusKeeps ==
    ASSUME TermInv, set_focus
    PROVE  TermInv'
  <1>1. /\ CursorCell \in Cell /\ is_cursor_on_screen
    BY Layout DEF TermInv
  <1>2. /\ lines' = lines /\ cursor_x' = cursor_x /\ cursor_y' = cursor_y
        /\ screen_y' = screen_y /\ dirty' = dirty
        /\ drawn' = [drawn EXCEPT ![CursorCell] = Cursor]
    BY <1>1 DEF set_focus, draw_cursor
  <1>3. /\ CursorCell' = CursorCell /\ is_cursor_on_screen' = is_cursor_on_screen
        /\ \A c \in Cell : Content(c)' = Content(c)
    BY <1>2 DEF CursorCell, is_cursor_on_screen, Content
  <1>4. drawn \in [Cell -> Char \cup {Cursor}]
    BY DEF TermInv, TermTypeOK
  <1>5. /\ drawn' \in [Cell -> Char \cup {Cursor}]
        /\ \A c \in Cell : drawn'[c] = IF c = CursorCell THEN Cursor ELSE drawn[c]
    BY <1>1, <1>2, <1>4
  <1>6. TermTypeOK'
    BY <1>2, <1>5 DEF TermInv, TermTypeOK
  <1>7. WindowFaithful'
    BY <1>1, <1>2, <1>3, <1>5 DEF TermInv, WindowFaithful
  <1>8. BlankBelow'
    <2>1. SUFFICES ASSUME NEW c \in Cell, screen_y + c[1] \notin Lines
                   PROVE  drawn'[c] = Space
      BY <1>2 DEF BlankBelow
    <2>2. c # CursorCell
      BY <2>1, Layout DEF TermInv, CursorCell
    <2> QED
      BY <1>5, <2>1, <2>2 DEF TermInv, BlankBelow
  <1> QED
    BY <1>6, <1>7, <1>8 DEF TermInv

LEMMA TermStutters ==
    ASSUME TermInv, UNCHANGED termVars
    PROVE  TermInv'
  <1>1. /\ lines' = lines /\ cursor_x' = cursor_x /\ cursor_y' = cursor_y
        /\ screen_y' = screen_y /\ dirty' = dirty /\ drawn' = drawn
    BY DEF termVars
  <1> QED
    BY <1>1 DEF TermInv, TermTypeOK, WindowFaithful, BlankBelow, is_cursor_on_screen,
               CursorCell, Content

LEMMA TermStarts == TermInit => TermInv
  <1> SUFFICES ASSUME TermInit PROVE TermInv
    OBVIOUS
  <1>1. /\ lines = <<EmptyLine>> /\ cursor_x = 0 /\ cursor_y = 0 /\ screen_y = 0
        /\ dirty = {} /\ drawn = [[c \in Cell |-> Space] EXCEPT ![<<0, 0>>] = Cursor]
    BY DEF TermInit
  <1>2. Len(lines) = 1 /\ lines \in CharSeq /\ lines[1] = EmptyLine
    BY <1>1, EmptyLineType DEF CharSeq
  <1>3. <<0, 0>> \in Cell /\ CursorCell = <<0, 0>>
    BY <1>1, TermAssumption DEF CursorCell
  <1>4. /\ drawn \in [Cell -> Char \cup {Cursor}]
        /\ \A c \in Cell : drawn[c] = IF c = <<0, 0>> THEN Cursor ELSE Space
    BY <1>1, <1>3, TermAssumption
  <1>5. \A c \in Cell : Content(c) = Space
    <2>1. SUFFICES ASSUME NEW c \in Cell, screen_y + c[1] \in Lines
                   PROVE  lines[screen_y + c[1] + 1][c[2]] = Space
      BY DEF Content
    <2>2. screen_y + c[1] = 0 /\ c[2] \in Column
      BY <1>1, <1>2, <2>1, TermAssumption
    <2>3. \A z \in Column : EmptyLine[z] = Space
      BY DEF EmptyLine
    <2>4. screen_y + c[1] + 1 = 1
      BY <2>2
    <2> QED
      BY <1>2, <2>2, <2>3, <2>4
  <1>6. TermTypeOK
    BY <1>1, <1>2, <1>4, TermAssumption DEF TermTypeOK, CharSeq
  <1>7. WindowFaithful
    BY <1>1, <1>3, <1>4, <1>5, TermAssumption DEF WindowFaithful, is_cursor_on_screen
  <1>8. BlankBelow
    <2>1. SUFFICES ASSUME NEW c \in Cell, screen_y + c[1] \notin Lines
                   PROVE  drawn[c] = Space
      BY DEF BlankBelow
    <2>2. c # <<0, 0>>
      BY <1>1, <1>2, <2>1
    <2> QED
      BY <1>4, <2>1, <2>2
  <1> QED
    BY <1>6, <1>7, <1>8 DEF TermInv

-----------------------------------------------------------------------------
(* The wires.  The design copies RX to TX; RX is high between two frames   *)
(* and low in a start bit, and nothing is being sent while the UART idles. *)
Wire == /\ tx = rx
        /\ rx_state = 0 => rx = 1
        /\ rx_state = 1 => rx = 0
        /\ is_uart_rx_idle => rx_state = 0
        /\ rx_sending_str \in Seq(Typable)

Echoing == IF InFlight
           THEN \E ch \in Typable : /\ OnTheWay(ch)
                                    /\ typed = (fed \o <<ch>>) \o rx_sending_str
           ELSE typed = fed \o rx_sending_str

Sends == IF is_uart_rx_idle
         THEN UNCHANGED <<rx_state, rx_data, rx_sending_str, is_uart_rx_idle, rx>>
         ELSE rx_send

LEMMA ShiftLayout ==
    ASSUME NEW data \in Char, NEW bit \in {0, 1}
    PROVE  /\ ShiftIn(data, bit) \in Char
           /\ \A i \in 1 .. DataBits :
                 ShiftIn(data, bit)[i] = IF i = DataBits THEN bit ELSE data[i + 1]
  BY UartAssumption DEF ShiftIn

LEMMA NulType == Nul \in Char
  BY UartAssumption DEF Nul

LEMMA FrontThenTail ==
    ASSUME NEW S, NEW f \in Seq(S), NEW s \in Seq(S), s # <<>>
    PROVE  f \o s = (f \o <<Head(s)>>) \o Tail(s)
  <1>1. /\ Head(s) \in S /\ Tail(s) \in Seq(S) /\ Len(Tail(s)) = Len(s) - 1
        /\ \A i \in 1 .. Len(Tail(s)) : Tail(s)[i] = s[i + 1]
    BY HeadTailProperties
  <1>2. <<Head(s)>> \in Seq(S) /\ Len(<<Head(s)>>) = 1 /\ <<Head(s)>>[1] = Head(s)
    BY <1>1
  <1>3. /\ <<Head(s)>> \o Tail(s) \in Seq(S)
        /\ Len(<<Head(s)>> \o Tail(s)) = 1 + Len(Tail(s))
        /\ \A i \in 1 .. 1 + Len(Tail(s)) : (<<Head(s)>> \o Tail(s))[i]
              = IF i <= 1 THEN <<Head(s)>>[i] ELSE Tail(s)[i - 1]
    BY <1>1, <1>2, ConcatProperties
  <1>4. Len(s) \in Nat \ {0} /\ Head(s) = s[1]
    BY EmptySeq, LenProperties
  <1>5. Len(<<Head(s)>> \o Tail(s)) = Len(s)
    BY <1>1, <1>3, <1>4
  <1>6. \A i \in 1 .. Len(s) : (<<Head(s)>> \o Tail(s))[i] = s[i]
    <2>1. SUFFICES ASSUME NEW i \in 1 .. Len(s)
                   PROVE  (<<Head(s)>> \o Tail(s))[i] = s[i]
      OBVIOUS
    <2>2. CASE i = 1
      BY <1>1, <1>2, <1>3, <1>4, <2>2
    <2>3. CASE i # 1
      <3>1. i - 1 \in 1 .. Len(Tail(s)) /\ i \in 1 .. 1 + Len(Tail(s)) /\ ~ (i <= 1)
        BY <1>1, <1>4, <2>1, <2>3
      <3>2. (<<Head(s)>> \o Tail(s))[i] = Tail(s)[i - 1]
        BY <1>3, <3>1
      <3>3. Tail(s)[i - 1] = s[(i - 1) + 1]
        BY <1>1, <3>1
      <3> QED
        BY <3>1, <3>2, <3>3
    <2> QED
      BY <2>2, <2>3
  <1>7. <<Head(s)>> \o Tail(s) = s
    BY <1>3, <1>5, <1>6, SeqEqual
  <1> QED
    BY <1>1, <1>2, <1>7, ConcatAssociative

LEMMA AppendAfter ==
    \A f \in Seq(Char), s \in Seq(Char), e \in Char : Append(f \o s, e) = f \o Append(s, e)
  <1> SUFFICES ASSUME NEW f \in Seq(Char), NEW s \in Seq(Char), NEW e \in Char
               PROVE  Append(f \o s, e) = f \o Append(s, e)
    OBVIOUS
  <1>1. <<e>> \in Seq(Char)
    OBVIOUS
  <1>2. f \o s \in Seq(Char)
    BY ConcatProperties
  <1>3. Append(f \o s, e) = (f \o s) \o <<e>>
    BY <1>2, AppendIsConcat
  <1>4. Append(s, e) = s \o <<e>>
    BY AppendIsConcat
  <1>5. (f \o s) \o <<e>> = f \o (s \o <<e>>)
    BY <1>1, ConcatAssociative
  <1> QED
    BY <1>3, <1>4, <1>5

(* The types of a call of update's UART part.                              *)
LEMMA BaudTypes ==
    ASSUME UartTypeOK, tx \in {0, 1}, tx_receive(tx), Sends,
           uart_divisor_cnt' \in 0 .. divisor - 1
    PROVE  UartTypeOK'
  <1>1. DataBits \in Nat \ {0} /\ Stop = DataBits + 1 /\ 1 \in 1 .. DataBits
    BY UartAssumption DEF Stop
  <1>2. tx_state' \in 0 .. Stop
    BY <1>1 DEF tx_receive, UartTypeOK
  <1>3. tx_data' \in Char
    BY ShiftLayout, NulType DEF tx_receive, UartTypeOK
  <1>4. need_update_gui' \in BOOLEAN
    BY DEF tx_receive, UartTypeOK
  <1>5. /\ rx_state' \in 0 .. Stop /\ rx_data' \in Char
        /\ rx_sending_str' \in Seq(Char) /\ is_uart_rx_idle' \in BOOLEAN
        /\ rx' \in {0, 1}
    <2>1. CASE is_uart_rx_idle
      BY <2>1 DEF Sends, UartTypeOK
    <2>2. CASE ~is_uart_rx_idle /\ rx_state = 0 /\ Front = Nul
      <3>1. /\ rx_data' = Nul /\ is_uart_rx_idle' = TRUE /\ rx_state' = rx_state
            /\ rx_sending_str' = rx_sending_str /\ rx' = rx
        BY <1>1, <2>2 DEF Sends, rx_send, Stops
      <3> QED
        BY <3>1, NulType DEF UartTypeOK
    <2>3. CASE ~is_uart_rx_idle /\ rx_state = 0 /\ Front # Nul
      <3>1. /\ rx_data' = Front /\ rx_sending_str' = Tail(rx_sending_str)
            /\ rx' = 0 /\ rx_state' = 1 /\ is_uart_rx_idle' = is_uart_rx_idle
        BY <1>1, <2>3 DEF Sends, rx_send, Stops
      <3>2. rx_sending_str # <<>> /\ Front = Head(rx_sending_str)
        BY <2>3 DEF Front
      <3>3. Head(rx_sending_str) \in Char /\ Tail(rx_sending_str) \in Seq(Char)
        BY <3>2, HeadTailProperties DEF UartTypeOK
      <3> QED
        BY <1>1, <3>1, <3>2, <3>3 DEF UartTypeOK
    <2>4. CASE ~is_uart_rx_idle /\ rx_state > 0 /\ ~Stops
      <3>1. /\ rx' = rx_data[1] /\ rx_data' = ShiftIn(rx_data, 0)
            /\ rx_state' = rx_state + 1
            /\ rx_sending_str' = rx_sending_str /\ is_uart_rx_idle' = is_uart_rx_idle
        BY <2>4 DEF Sends, rx_send, UartTypeOK
      <3>2. rx_data[1] \in {0, 1}
        BY <1>1, UartAssumption DEF UartTypeOK
      <3> QED
        BY <1>1, <2>4, <3>1, <3>2, ShiftLayout DEF UartTypeOK, Stops
    <2>5. CASE ~is_uart_rx_idle /\ Stops
      BY <1>1, <2>5 DEF Sends, rx_send, UartTypeOK, Stops
    <2> QED
      BY <1>1, <2>1, <2>2, <2>3, <2>4, <2>5 DEF UartTypeOK
  <1> QED
    BY <1>2, <1>3, <1>4, <1>5 DEF UartTypeOK

(* Between two frames the next character starts, or none does.             *)
LEMMA NextFrame ==
    ASSUME UartTypeOK, Wire, rx_state = 0, Sends, tx_state' = 0, tx' = rx',
           typed' \in Seq(Char), fed' \in Seq(Char),
           typed' = fed' \o rx_sending_str
    PROVE  Echoing' /\ Wire'
  <1>1. DataBits \in Nat \ {0} /\ Stop = DataBits + 1 /\ ~Stops
    BY UartAssumption DEF Stop, Stops
  <1>2. CASE \/ is_uart_rx_idle
             \/ ~is_uart_rx_idle /\ Front = Nul
    <2>1. /\ rx_state' = 0 /\ rx_sending_str' = rx_sending_str /\ rx' = rx
      BY <1>1, <1>2 DEF Sends, rx_send
    <2>2. ~InFlight'
      BY <2>1 DEF InFlight
    <2> QED
      BY <2>1, <2>2 DEF Echoing, Wire
  <1>3. CASE ~is_uart_rx_idle /\ Front # Nul
    <2>1. /\ rx_data' = Front /\ rx_sending_str' = Tail(rx_sending_str)
          /\ rx' = 0 /\ rx_state' = 1 /\ is_uart_rx_idle' = is_uart_rx_idle
      BY <1>1, <1>3 DEF Sends, rx_send
    <2>2. rx_sending_str # <<>> /\ Front = Head(rx_sending_str)
      BY <1>3 DEF Front
    <2>3. Front \in Typable /\ Tail(rx_sending_str) \in Seq(Typable)
      BY <2>2, HeadTailProperties DEF Wire
    <2>4. typed' = (fed' \o <<Front>>) \o rx_sending_str'
      BY <2>1, <2>2, FrontThenTail DEF UartTypeOK
    <2>5. PICK ch \in Typable : ch = Front
      BY <2>3
    <2>6. OnTheWay(ch)'
      BY <1>1, <2>1, <2>5 DEF OnTheWay
    <2>7. InFlight'
      BY <2>1 DEF InFlight
    <2>8. Wire'
      BY <1>3, <2>1, <2>3 DEF Wire
    <2> QED
      BY <2>4, <2>5, <2>6, <2>7, <2>8 DEF Echoing
  <1> QED
    BY <1>2, <1>3

(* The last bit of a frame is not sampled before the stop bit is sent.     *)
LEMMA MidFrame ==
    ASSUME UartTypeOK, Wire, Echoing, rx_state > 0
    PROVE  ~Receives(tx)
  <1>1. DataBits \in Nat \ {0} /\ Stop = DataBits + 1 /\ rx_state \in 1 .. Stop
    BY UartAssumption DEF Stop, UartTypeOK
  <1>2. InFlight
    BY <1>1 DEF InFlight
  <1>3. PICK ch \in Typable : OnTheWay(ch)
    BY <1>2 DEF Echoing
  <1> QED
    BY <1>1, <1>3 DEF OnTheWay, Receives

(* A bit of a frame is sampled and the next one is sent.                   *)
LEMMA NextBit ==
    ASSUME UartTypeOK, Wire, Echoing, rx_state > 0, tx_receive(tx), Sends, tx' = rx',
           typed' = typed, fed' = fed
    PROVE  Echoing' /\ Wire'
  <1>1. DataBits \in Nat \ {0} /\ Stop = DataBits + 1 /\ rx_state \in 1 .. Stop
    BY UartAssumption DEF Stop, UartTypeOK
  <1>2. InFlight /\ ~is_uart_rx_idle
    BY <1>1 DEF InFlight, Wire
  <1>3. PICK ch \in Typable : /\ OnTheWay(ch)
                              /\ typed = (fed \o <<ch>>) \o rx_sending_str
    BY <1>2 DEF Echoing
  <1>4. /\ tx_state = rx_state - 1
        /\ \A i \in 1 .. DataBits :
              /\ i < tx_state => tx_data[DataBits - tx_state + 1 + i] = ch[i]
              /\ i = tx_state => tx = ch[i]
              /\ i > tx_state => rx_data[i - tx_state] = ch[i]
    BY <1>1, <1>3 DEF OnTheWay
  <1>5. tx \in {0, 1} /\ tx_data \in Char /\ rx_data \in Char
    BY DEF Wire, UartTypeOK
  <1>6. tx_state' = tx_state + 1
    <2>1. tx_state = 0 => tx = 0
      BY <1>1, <1>4 DEF Wire
    <2> QED
      BY <1>1, <1>4, <2>1 DEF tx_receive
  <1>7. \A i \in 1 .. DataBits :
           i < tx_state' => tx_data'[DataBits - tx_state' + 1 + i] = ch[i]
    <2>1. CASE tx_state = 0
      BY <1>1, <1>6, <2>1
    <2>2. CASE tx_state > 0
      <3>1. tx_data' = ShiftIn(tx_data, tx)
        BY <1>1, <1>4, <2>2 DEF tx_receive
      <3>2. SUFFICES ASSUME NEW i \in 1 .. DataBits, i < tx_state + 1
                     PROVE  tx_data'[DataBits - tx_state + i] = ch[i]
        BY <1>1, <1>4, <1>6
      <3>3. DataBits - tx_state + i \in 1 .. DataBits
        BY <1>1, <1>4, <2>2, <3>2
      <3>4. tx_data'[DataBits - tx_state + i]
               = IF DataBits - tx_state + i = DataBits THEN tx
                 ELSE tx_data[(DataBits - tx_state + i) + 1]
        BY <1>5, <3>1, <3>3, ShiftLayout
      <3>5. CASE i = tx_state
        BY <1>1, <1>4, <3>4, <3>5
      <3>6. CASE i < tx_state
        <4>1. /\ (DataBits - tx_state + i) + 1 = DataBits - tx_state + 1 + i
              /\ DataBits - tx_state + i # DataBits
          BY <1>1, <1>4, <3>6
        <4> QED
          BY <1>4, <3>4, <3>6, <4>1
      <3> QED
        BY <1>1, <1>4, <3>2, <3>5, <3>6
    <2> QED
      BY <1>1, <1>4, <2>1, <2>2
  <1>8. CASE rx_state = Stop
    <2>1. /\ rx' = 1 /\ rx_state' = 0
          /\ rx_sending_str' = rx_sending_str /\ is_uart_rx_idle' = is_uart_rx_idle
      BY <1>1, <1>2, <1>8 DEF Sends, rx_send, Stops
    <2>2. tx_state' = Stop
      BY <1>1, <1>4, <1>6, <1>8
    <2>3. InFlight' /\ OnTheWay(ch)'
      BY <1>1, <1>7, <2>1, <2>2 DEF InFlight, OnTheWay
    <2> QED
      BY <1>2, <1>3, <1>6, <2>1, <2>3 DEF Echoing, Wire
  <1>9. CASE rx_state # Stop
    <2>1. /\ rx' = rx_data[1] /\ rx_data' = ShiftIn(rx_data, 0)
          /\ rx_state' = rx_state + 1
          /\ rx_sending_str' = rx_sending_str /\ is_uart_rx_idle' = is_uart_rx_idle
      BY <1>1, <1>2, <1>9 DEF Sends, rx_send, Stops
    <2>2. /\ tx_state' = rx_state /\ rx_state \in 1 .. DataBits
      BY <1>1, <1>4, <1>6, <1>9
    <2>3. \A i \in 1 .. DataBits : i = tx_state' => tx' = ch[i]
      <3>1. SUFFICES ASSUME NEW i \in 1 .. DataBits, i = rx_state PROVE rx' = ch[i]
        BY <2>2
      <3>2. i > tx_state /\ i - tx_state = 1
        BY <1>1, <1>4, <3>1
      <3> QED
        BY <1>4, <2>1, <3>2
    <2>4. \A i \in 1 .. DataBits : i > tx_state' => rx_data'[i - tx_state'] = ch[i]
      <3>1. SUFFICES ASSUME NEW i \in 1 .. DataBits, i > rx_state
                     PROVE  rx_data'[i - rx_state] = ch[i]
        BY <2>2
      <3>2. i - rx_state \in 1 .. DataBits /\ i - rx_state # DataBits
        BY <1>1, <2>2, <3>1
      <3>3. rx_data'[i - rx_state] = rx_data[(i - rx_state) + 1]
        BY <1>5, <2>1, <3>2, ShiftLayout
      <3>4. (i - rx_state) + 1 = i - tx_state /\ i > tx_state
        BY <1>1, <1>4, <3>1
      <3> QED
        BY <1>4, <3>3, <3>4
    <2>5. InFlight' /\ OnTheWay(ch)'
      <3>1. rx_state' # 0 /\ tx_state' = rx_state' - 1
        BY <1>1, <2>1, <2>2
      <3> QED
        BY <1>7, <2>3, <2>4, <3>1 DEF InFlight, OnTheWay
    <2>6. Wire'
      <3>1. rx_state' # 0 /\ rx_state' # 1
        BY <1>1, <2>1
      <3> QED
        BY <1>2, <2>1, <3>1 DEF Wire
    <2> QED
      BY <1>3, <1>6, <2>1, <2>5, <2>6 DEF Echoing
  <1> QED
    BY <1>8, <1>9

LEMMA SameFunction ==
    ASSUME NEW A, NEW B, NEW f \in [A -> B], NEW g \in [A -> B], \A x \in A : f[x] = g[x]
    PROVE  f = g
  OBVIOUS

(* The character sampled is the one that was on its way.                   *)
LEMMA WholeFrame ==
    ASSUME UartTypeOK, Wire, Echoing, rx_state = 0, tx_state # 0
    PROVE  /\ Receives(tx)
           /\ tx_data \in Typable
           /\ typed = (fed \o <<tx_data>>) \o rx_sending_str
  <1>1. DataBits \in Nat \ {0} /\ Stop = DataBits + 1 /\ InFlight
    BY UartAssumption DEF Stop, InFlight
  <1>2. PICK ch \in Typable : /\ OnTheWay(ch)
                              /\ typed = (fed \o <<ch>>) \o rx_sending_str
    BY <1>1 DEF Echoing
  <1>3. tx_state = Stop /\ tx = 1
    BY <1>2 DEF OnTheWay, Wire
  <1>4. tx_data \in [1 .. DataBits -> {0, 1}] /\ ch \in [1 .. DataBits -> {0, 1}]
    BY <1>2, UartAssumption, BoardAssumption DEF UartTypeOK
  <1>5. \A i \in 1 .. DataBits : tx_data[i] = ch[i]
    <2>1. SUFFICES ASSUME NEW i \in 1 .. DataBits PROVE tx_data[i] = ch[i]
      OBVIOUS
    <2>2. i < tx_state /\ DataBits - tx_state + 1 + i = i
      BY <1>1, <1>3, <2>1
    <2>3. tx_data[DataBits - tx_state + 1 + i] = ch[i]
      BY <1>2, <2>2 DEF OnTheWay
    <2> QED
      BY <2>2, <2>3
  <1>6. tx_data = ch
    <2> DEFINE D == 1 .. DataBits
               B == {0, 1}
    <2>1. tx_data \in [D -> B] /\ ch \in [D -> B] /\ \A i \in D : tx_data[i] = ch[i]
      BY <1>4, <1>5
    <2> HIDE DEF D, B
    <2> QED
      BY <2>1, SameFunction
  <1> QED
    BY <1>2, <1>3, <1>6 DEF Receives

-----------------------------------------------------------------------------
Types == /\ UartTypeOK
         /\ tx \in {0, 1} /\ uart_term_get_focus \in BOOLEAN /\ aborted \in BOOLEAN
         /\ typed \in Seq(Typable) /\ fed \in Seq(Char)

IInv == /\ Types /\ TermInv
        /\ ~aborted => Wire /\ Echoing
        /\ EchoFaithful

LEMMA TypableSeq == ASSUME NEW s \in Seq(Typable) PROVE s \in Seq(Char)
  BY SeqMonotonic, BoardAssumption

(* Echoing is EchoFaithful without the index.                              *)
LEMMA EchoingSuffices ==
    ASSUME Types, Wire, Echoing, ~aborted
    PROVE  EchoFaithful
  <1>1. CASE ~InFlight
    BY <1>1 DEF Echoing, EchoFaithful
  <1>2. CASE InFlight
    <2>1. PICK ch \in Typable : /\ OnTheWay(ch)
                                /\ typed = (fed \o <<ch>>) \o rx_sending_str
      BY <1>2 DEF Echoing
    <2>2. /\ fed \in Seq(Char) /\ <<ch>> \in Seq(Char) /\ Len(<<ch>>) = 1 /\ <<ch>>[1] = ch
          /\ rx_sending_str \in Seq(Char)
      BY BoardAssumption, TypableSeq DEF Types, Wire
    <2>3. /\ fed \o <<ch>> \in Seq(Char) /\ Len(fed \o <<ch>>) = Len(fed) + 1
          /\ (fed \o <<ch>>)[Len(fed) + 1] = ch
      BY <2>2, ConcatProperties, LenProperties
    <2>4. /\ Len(typed) = Len(fed) + 1 + Len(rx_sending_str)
          /\ typed[Len(fed) + 1] = ch
      BY <2>1, <2>2, <2>3, ConcatProperties, LenProperties
    <2> QED
      BY <1>2, <2>1, <2>4 DEF EchoFaithful
  <1> QED
    BY <1>1, <1>2

LEMMA EchoingState == Types /\ Wire /\ Echoing /\ ~aborted => EchoFaithful
  BY EchoingSuffices

LEMMA EchoingPrimed == (Types /\ Wire /\ Echoing /\ ~aborted => EchoFaithful)'
  BY EchoingState, PTL

(* What is left when the assertion fails.                                  *)
LEMMA AbortedOn ==
    ASSUME Types, Wire, NEW ch \in Typable, typed = (fed \o <<ch>>) \o rx_sending_str
    PROVE  /\ typed[Len(fed) + 1] = ch
           /\ SubSeq(typed, 1, Len(fed)) = fed
  <1>1. /\ fed \in Seq(Char) /\ <<ch>> \in Seq(Char) /\ Len(<<ch>>) = 1 /\ <<ch>>[1] = ch
        /\ rx_sending_str \in Seq(Char) /\ Len(fed) \in Nat /\ Len(rx_sending_str) \in Nat
    BY BoardAssumption, TypableSeq, LenProperties DEF Types, Wire
  <1>2. /\ fed \o <<ch>> \in Seq(Char) /\ Len(fed \o <<ch>>) = Len(fed) + 1
        /\ (fed \o <<ch>>)[Len(fed) + 1] = ch
        /\ \A i \in 1 .. Len(fed) : (fed \o <<ch>>)[i] = fed[i]
    BY <1>1, ConcatProperties
  <1>3. /\ typed \in Seq(Char) /\ Len(typed) = Len(fed) + 1 + Len(rx_sending_str)
        /\ typed[Len(fed) + 1] = ch
        /\ \A i \in 1 .. Len(fed) : typed[i] = fed[i]
    BY <1>1, <1>2, ConcatProperties
  <1>4. \A i \in 1 .. Len(fed) : typed[i] \in Char
    BY <1>1, <1>3, ElementOfSeq
  <1>5. /\ SubSeq(typed, 1, Len(fed)) \in Seq(Char)
        /\ Len(SubSeq(typed, 1, Len(fed))) = IF 1 <= Len(fed) THEN Len(fed) - 1 + 1 ELSE 0
        /\ \A i \in 1 .. Len(fed) - 1 + 1 : SubSeq(typed, 1, Len(fed))[i] = typed[1 + i - 1]
    BY <1>1, <1>4, SubSeqProperties
  <1>6. /\ Len(SubSeq(typed, 1, Len(fed))) = Len(fed)
        /\ \A i \in 1 .. Len(fed) : SubSeq(typed, 1, Len(fed))[i] = fed[i]
    BY <1>1, <1>3, <1>5
  <1> QED
    BY <1>1, <1>3, <1>5, <1>6, SeqEqual

LEMMA Starts == Init => IInv
  <1> SUFFICES ASSUME Init PROVE IInv
    OBVIOUS
  <1>1. TermInv
    BY TermStarts DEF Init
  <1>2. Types
    <2>1. divisor - 1 \in 0 .. divisor - 1 /\ 0 \in 0 .. Stop
      BY UartAssumption DEF Stop
    <2>2. <<>> \in Seq(Char) /\ <<>> \in Seq(Typable)
      BY EmptySeq
    <2>3. UartTypeOK
      BY <2>1, <2>2, NulType DEF Init, UartInit, UartTypeOK
    <2> QED
      BY <2>2, <2>3 DEF Init, Types
  <1>3. Wire
    BY EmptySeq DEF Init, UartInit, Wire
  <1>4. Echoing
    <2>1. /\ ~InFlight /\ typed = <<>> /\ fed = <<>> /\ rx_sending_str = <<>>
      BY DEF Init, UartInit, InFlight
    <2>2. <<>> \o <<>> = <<>>
      BY ConcatEmptySeq, EmptySeq
    <2> QED
      BY <2>1, <2>2 DEF Echoing
  <1>5. ~aborted
    BY DEF Init
  <1> QED
    BY <1>1, <1>2, <1>3, <1>4, <1>5, EchoingSuffices DEF IInv

LEMMA BaudKeeps == IInv /\ Baud => IInv'
  <1> SUFFICES ASSUME IInv, Baud PROVE IInv'
    OBVIOUS
  <1>1. /\ Types /\ UartTypeOK /\ TermInv /\ Wire /\ Echoing /\ ~aborted
        /\ tx \in {0, 1} /\ fed \in Seq(Char) /\ rx_sending_str \in Seq(Char)
    BY TypableSeq DEF IInv, Types, Baud, Wire
  <1>2. /\ uart_divisor_cnt' \in 0 .. divisor - 1
        /\ tx_receive(tx) /\ Feed /\ Sends /\ tx' = rx'
        /\ uart_term_get_focus' = uart_term_get_focus /\ typed' = typed
    BY UartAssumption DEF Baud, Sends
  <1>3. UartTypeOK'
    BY <1>1, <1>2, BaudTypes
  <1>4. tx' \in {0, 1}
    BY <1>2, <1>3 DEF UartTypeOK
  <1>5. typed \in Seq(Typable) /\ typed \in Seq(Char)
    BY <1>1, TypableSeq DEF Types
  <1>6. CASE ~Receives(tx)
    <2>1. TermInv' /\ aborted' = aborted /\ fed' = fed
      BY <1>1, <1>2, <1>6, TermStutters DEF Feed
    <2>2. Types'
      BY <1>1, <1>2, <1>3, <1>4, <2>1 DEF Types
    <2>3. Wire' /\ Echoing'
      <3>1. CASE rx_state > 0
        BY <1>1, <1>2, <2>1, <3>1, NextBit
      <3>2. CASE rx_state = 0
        <4>1. tx_state = 0
          BY <1>1, <1>6, <3>2, WholeFrame
        <4>2. tx_state' = 0 /\ typed = fed \o rx_sending_str
          BY <1>1, <1>2, <3>2, <4>1 DEF tx_receive, Wire, Echoing, InFlight
        <4> QED
          BY <1>1, <1>2, <1>5, <2>1, <3>2, <4>2, NextFrame
      <3> QED
        BY <1>1, <3>1, <3>2, UartAssumption DEF UartTypeOK, Stop
    <2>4. EchoFaithful'
      BY <1>1, <2>1, <2>2, <2>3, EchoingPrimed
    <2> QED
      BY <2>1, <2>2, <2>3, <2>4 DEF IInv
  <1>7. CASE Receives(tx)
    <2>1. rx_state = 0 /\ tx_state # 0
      <3>1. ~(rx_state > 0)
        BY <1>1, <1>7, MidFrame
      <3> QED
        BY <1>1, <1>7, <3>1, UartAssumption DEF Receives, UartTypeOK, Stop
    <2>2. /\ tx_data \in Typable
          /\ typed = (fed \o <<tx_data>>) \o rx_sending_str
      BY <1>1, <2>1, WholeFrame
    <2>3. tx_data \in Char
      BY <2>2, BoardAssumption
    <2>4. CASE IsAscii(tx_data)
      <3>1. feed_ch(tx_data) /\ fed' = Append(fed, tx_data) /\ aborted' = aborted
        BY <1>2, <1>7, <2>4 DEF Feed
      <3>2. TermInv'
        BY <1>1, <2>3, <3>1, FeedKeeps
      <3>3. fed' \in Seq(Char) /\ fed' = fed \o <<tx_data>>
        BY <1>1, <2>3, <3>1, AppendProperties, AppendIsConcat
      <3>4. Types'
        BY <1>1, <1>2, <1>3, <1>4, <3>1, <3>3 DEF Types
      <3>5. tx_state' = 0
        BY <1>2, <1>7, UartAssumption DEF tx_receive, Receives, Stop
      <3>6. Wire' /\ Echoing'
        BY <1>1, <1>2, <1>5, <2>1, <2>2, <3>3, <3>5, NextFrame
      <3>7. EchoFaithful'
        BY <1>1, <3>1, <3>4, <3>6, EchoingPrimed
      <3> QED
        BY <3>2, <3>4, <3>6, <3>7 DEF IInv
    <2>5. CASE ~IsAscii(tx_data)
      <3>1. UNCHANGED termVars /\ fed' = fed /\ aborted' = TRUE
        BY <1>2, <1>7, <2>5 DEF Feed
      <3>2. TermInv'
        BY <1>1, <3>1, TermStutters
      <3>3. Types'
        BY <1>1, <1>2, <1>3, <1>4, <3>1 DEF Types
      <3>4. typed[Len(fed) + 1] = tx_data /\ SubSeq(typed, 1, Len(fed)) = fed
        BY <1>1, <2>2, AbortedOn
      <3>5. EchoFaithful'
        BY <1>2, <2>5, <3>1, <3>4 DEF EchoFaithful, IsAscii
      <3> QED
        BY <3>1, <3>2, <3>3, <3>5 DEF IInv
    <2> QED
      BY <2>4, <2>5
  <1> QED
    BY <1>6, <1>7

(* Every step but Baud leaves the frame and the terminal's part apart.     *)
LEMMA OthersKeep ==
    ASSUME IInv, ~aborted, Types', TermInv', aborted' = aborted, fed' = fed,
           Wire /\ Echoing => Wire' /\ Echoing'
    PROVE  IInv'
  <1>1. ~aborted' /\ Wire' /\ Echoing'
    BY DEF IInv
  <1>2. EchoFaithful'
    BY <1>1, EchoingPrimed
  <1> QED
    BY <1>1, <1>2 DEF IInv

LEMMA SameFrame ==
    ASSUME UNCHANGED <<tx, tx_state, tx_data, rx_state, rx_data, is_uart_rx_idle, rx>>,
           UNCHANGED <<rx_sending_str, typed, fed>>
    PROVE  Wire /\ Echoing => Wire' /\ Echoing'
  BY DEF Wire, Echoing, InFlight, OnTheWay

LEMMA WaitKeeps == IInv /\ Wait => IInv'
  <1> SUFFICES ASSUME IInv, Wait PROVE IInv'
    OBVIOUS
  <1>1. /\ Types /\ TermInv /\ ~aborted /\ Wire
    BY DEF IInv, Wait
  <1>2. TermInv'
    BY <1>1, TermStutters DEF Wait
  <1>3. tx' = tx
    BY <1>1 DEF Wait, Wire
  <1>4. Types'
    BY <1>1, <1>3, UartAssumption DEF Types, UartTypeOK, Wait
  <1>5. Wire /\ Echoing => Wire' /\ Echoing'
    BY <1>3, SameFrame DEF Wait
  <1> QED
    BY <1>1, <1>2, <1>4, <1>5, OthersKeep DEF Wait

LEMMA RedrawnKeeps == IInv /\ Redrawn => IInv'
  <1> SUFFICES ASSUME IInv, Redrawn PROVE IInv'
    OBVIOUS
  <1>1. Types /\ TermInv /\ ~aborted
    BY DEF IInv, Redrawn
  <1>2. TermInv'
    BY <1>1, UpdateKeeps DEF Redrawn, update_state
  <1>3. Types'
    BY <1>1 DEF Types, UartTypeOK, Redrawn, update_state, boardVars
  <1>4. Wire /\ Echoing => Wire' /\ Echoing'
    BY SameFrame DEF Redrawn, update_state, boardVars
  <1> QED
    BY <1>1, <1>2, <1>3, <1>4, OthersKeep DEF Redrawn, boardVars

LEMMA ClickKeeps ==
    ASSUME IInv, NEW v \in BOOLEAN, mousedown_handler(v)
    PROVE  IInv'
  <1>1. Types /\ TermInv /\ ~aborted
    BY DEF IInv, mousedown_handler
  <1>2. TermInv'
    BY <1>1, FocusKeeps DEF mousedown_handler
  <1>3. Types'
    BY <1>1 DEF Types, UartTypeOK, mousedown_handler, uartVars
  <1>4. Wire /\ Echoing => Wire' /\ Echoing'
    BY SameFrame DEF mousedown_handler, uartVars
  <1> QED
    BY <1>1, <1>2, <1>3, <1>4, OthersKeep DEF mousedown_handler

LEMMA TypedKeeps ==
    ASSUME IInv, NEW c \in Typable, KeyTyped(c)
    PROVE  IInv'
  <1>1. Types /\ TermInv /\ ~aborted /\ Wire /\ Echoing /\ c \in Char
    BY BoardAssumption DEF IInv, KeyTyped
  <1>2. TermInv'
    BY <1>1, TermStutters DEF KeyTyped
  <1>3. /\ typed' = Append(typed, c) /\ rx_sending_str' = Append(rx_sending_str, c)
        /\ typed' \in Seq(Typable) /\ rx_sending_str' \in Seq(Typable)
        /\ rx_sending_str' \in Seq(Char) /\ is_uart_rx_idle' = FALSE
        /\ rx_sending_str \in Seq(Char) /\ fed \in Seq(Char)
    BY <1>1, AppendProperties, TypableSeq DEF KeyTyped, rx_getchar, Wakes, Types, Wire
  <1>4. Types'
    BY <1>1, <1>3 DEF Types, UartTypeOK, KeyTyped, rx_getchar
  <1>5. Wire'
    BY <1>1, <1>3 DEF Wire, KeyTyped, rx_getchar
  <1>6. ASSUME NEW f \in Seq(Char)
        PROVE  Append(f \o rx_sending_str, c) = f \o Append(rx_sending_str, c)
    <2>1. c \in Char /\ rx_sending_str \in Seq(Char)
      BY <1>1, <1>3
    <2> QED
      BY <1>6, <2>1, AppendAfter
  <1>7. Echoing'
    <2>1. InFlight' = InFlight /\ \A ch \in Typable : OnTheWay(ch)' = OnTheWay(ch)
      BY DEF KeyTyped, rx_getchar, InFlight, OnTheWay
    <2>2. fed' = fed
      BY DEF KeyTyped
    <2>3. CASE ~InFlight
      BY <1>1, <1>3, <1>6, <2>1, <2>2, <2>3 DEF Echoing
    <2>4. CASE InFlight
      <3>1. PICK ch \in Typable : /\ OnTheWay(ch)
                                  /\ typed = (fed \o <<ch>>) \o rx_sending_str
        BY <1>1, <2>4 DEF Echoing
      <3>2. <<ch>> \in Seq(Char)
        BY BoardAssumption
      <3>3. fed \o <<ch>> \in Seq(Char)
        BY <1>3, <3>2, ConcatProperties
      <3>4. typed' = (fed' \o <<ch>>) \o rx_sending_str'
        BY <1>3, <1>6, <2>2, <3>1, <3>3
      <3> QED
        BY <2>1, <2>4, <3>1, <3>4 DEF Echoing
    <2> QED
      BY <2>3, <2>4
  <1>8. aborted' = aborted /\ fed' = fed
    BY DEF KeyTyped
  <1> QED
    BY <1>1, <1>2, <1>4, <1>5, <1>7, <1>8, OthersKeep

LEMMA StutterKeeps == IInv /\ UNCHANGED vars => IInv'
  <1> SUFFICES ASSUME IInv, UNCHANGED vars PROVE IInv'
    OBVIOUS
  <1>1. UNCHANGED termVars /\ UNCHANGED uartVars /\ UNCHANGED boardVars
    BY DEF vars
  <1>2. TermInv'
    BY <1>1, TermStutters DEF IInv
  <1>3. Types'
    BY <1>1 DEF IInv, Types, UartTypeOK, uartVars, boardVars
  <1>4. Wire /\ Echoing => Wire' /\ Echoing'
    BY <1>1, SameFrame DEF uartVars, boardVars
  <1>5. EchoFaithful'
    BY <1>1 DEF IInv, EchoFaithful, InFlight, OnTheWay, IsAscii, uartVars, boardVars
  <1>6. aborted' = aborted
    BY <1>1 DEF boardVars
  <1> QED
    BY <1>2, <1>3, <1>4, <1>5, <1>6 DEF IInv

LEMMA Inductive == Spec => []IInv
  <1>1. IInv /\ [Next]_vars => IInv'
    <2>1. ASSUME IInv, Next PROVE IInv'
      <3>1. CASE Baud \/ Wait
        BY <2>1, <3>1, BaudKeeps, WaitKeeps
      <3>2. CASE Redrawn
        BY <2>1, <3>2, RedrawnKeeps
      <3>3. CASE \E v \in BOOLEAN : mousedown_handler(v)
        BY <2>1, <3>3, ClickKeeps
      <3>4. CASE \E c \in Typable : KeyTyped(c)
        BY <2>1, <3>4, TypedKeeps
      <3> QED
        BY <2>1, <3>1, <3>2, <3>3, <3>4 DEF Next, nvboard_update
    <2> QED
      BY <2>1, StutterKeeps
  <1> QED
    BY <1>1, Starts, PTL DEF Spec

(* The state of the terminal, of the UART's two shift registers and of the *)
(* pins stays within its types, whatever is typed and clicked: the cursor  *)
(* in particular stays on a line that exists (term.cpp, uart.cpp).         *)
THEOREM TerminalTypes == Spec => []TypeOK
  <1>1. IInv => TypeOK
    BY DEF IInv, Types, TermInv, TypeOK
  <1> QED
    BY <1>1, Inductive, PTL

(* The window of term.cpp shows what the lines hold, in every size of it.  *)
THEOREM TerminalWindow == Spec => []WindowFaithful
  <1>1. IInv => WindowFaithful
    BY DEF IInv, TermInv
  <1> QED
    BY <1>1, Inductive, PTL

(* uart.cpp and the design deliver what was typed, in order, for every     *)
(* width of a character and every divisor.                                 *)
THEOREM TerminalEcho == Spec => []EchoFaithful
  <1>1. IInv => EchoFaithful
    BY DEF IInv
  <1> QED
    BY <1>1, Inductive, PTL
=============================================================================
