------------------------------- MODULE Console -------------------------------
(***************************************************************************)
(* What is on the screen, after the console part of init/kernel.c: the     *)
(* double buffer of pixels with its cursor, written by the keyboard        *)
(* interrupt (PrintChar echoes each key) and by the shell in ring 3        *)
(* (Print through a system call, cls directly), and the text screen that   *)
(* every system call writes as well.                                       *)
(*                                                                         *)
(* A system call and the interrupt run with interrupts off: each draws in  *)
(* one step. The shell's own statements do not: `todo' holds those it has  *)
(* still to execute, and a key may be echoed between any two. Which line   *)
(* the shell reads when another is entered meanwhile is the business of    *)
(* module Shell; here it reads the line whole when it polls.               *)
(***************************************************************************)
EXTENDS Integers, SequencesExt

CONSTANTS CellW, CellH,     \* a character's width and height in pixels: 8 and 16
          Word,             \* 2^32, the range of the cursor's coordinates
          VGA_WIDTH, VGA_HEIGHT,    \* the text screen, in characters
          Setups,           \* what the disk may have: behind "res=" in boot.ini a text and
                            \* the numbers it stands for, 0 and 0 when it is no resolution
                            \* (640x480 when there is none), and a valid font.psf or not
          BootText,         \* what the kernel displays of the CPU before the shell starts
          Backspace, Enter, Newline, Blank,
          Keys,             \* the other keys
          BufSize,          \* sizeof(input_buffer)
          Cls, Help,        \* the shell's two commands
          Programs,         \* lines that start a program
          Banner, Prompt, HelpMsg,
          Quote, NotRecognized,     \* the two parts of the message on any other line
          Outputs,          \* what a program may display
          MaxKeys,          \* bound: how many keys are pressed,
          MaxRushed         \* and how many of them while the shell is busy

ASSUME ConsoleAssumption ==
    /\ {CellW, CellH, Word, BufSize, VGA_WIDTH, VGA_HEIGHT} \subseteq Nat \ {0}
    /\ 2 * CellW <= Word
    /\ \A str \in {Banner, Prompt, HelpMsg, Quote, NotRecognized} \cup {BootText} \cup Outputs :
          str \in Seq(Range(str))
    /\ Backspace \notin Keys
    /\ {Newline, Blank} \cap (Keys \cup {Backspace}) = {}
    /\ Enter \notin Keys \cup {Backspace}
    /\ {MaxKeys, MaxRushed} \subseteq Nat

VARIABLES w, h,             \* the resolution
          buffer,           \* the double buffer: what was drawn over each pixel
          outside,          \* the pixels drawn that the buffer does not have
          cursor,           \* global_cursor_x and global_cursor_y
          input_buffer, ex_buffer, exec,
          todo,             \* what the shell does next
          terminal,         \* the text screen, by row and column
          terminal_row, terminal_col,
          \* What happened:
          setup,            \* the disk the system was started from
          keys,             \* how many keys were pressed
          rushed,           \* how many of them while the shell was busy
          bent,             \* one of them a Backspace on an empty line
          skewed,           \* Print left text at or behind the cursor
          sunk,             \* a character was drawn below the last line
          start,            \* where the cursor was after the last prompt
          printed           \* the characters displayed at boot and by system calls

graphics == <<buffer, outside, cursor, sunk>>
text == <<terminal, terminal_row, terminal_col, printed>>
keyboard == <<input_buffer, keys, rushed, bent>>
vars == <<w, h, setup, graphics, text, keyboard, ex_buffer, exec, todo, skewed, start>>

-----------------------------------------------------------------------------
(* fetchwh: the resolution is two numbers, the end unchecked by its caller *)

Digits == <<"0", "1", "2", "3", "4", "5", "6", "7", "8", "9">>
IsDigit(c) == \E d \in DOMAIN Digits : Digits[d] = c
Value(c) == CHOOSE d \in 0..9 : Digits[d + 1] = c

\* The character at place i of a string, NUL behind its end.
CharAt(str, i) == IF i \in DOMAIN str THEN str[i] ELSE "NUL"

\* Where a run of digits that begins at place i ends, and its value.
DigitsEnd(str, i) == CHOOSE j \in i..(Len(str) + 1) :
    /\ \A k \in i..(j - 1) : IsDigit(CharAt(str, k))
    /\ ~ IsDigit(CharAt(str, j))

Number(str, i) ==
    LET upTo[j \in i..DigitsEnd(str, i)] ==
          IF j = i THEN 0 ELSE upTo[j - 1] * 10 + Value(str[j - 1])
    IN  upTo[DigitsEnd(str, i)]

\* A height is read only when the width ends in `x'; what was read stays in
\* w and h whatever fetchwh answers.
fetchwh(str) ==
    LET end == DigitsEnd(str, 1)
    IN  [width  |-> Number(str, 1),
         height |-> IF CharAt(str, end) = "x" THEN Number(str, end + 1) ELSE 0]

\* No screen is so wide that the column behind it is out of the cursor's range.
ASSUME SetupsAssumption ==
    \A r \in Setups : /\ r.text \in Seq(Range(r.text))
                       /\ {r.width, r.height} \subseteq Nat
                       /\ fetchwh(r.text).width + CellW < Word
                       /\ r.font \in BOOLEAN

-----------------------------------------------------------------------------
(* Where the next character goes *)

Place(x, y) == [x |-> x % Word, y |-> y % Word]

\* Mutant: the edge is looked for one character too late.
Advance_TooFar(p, c, left) ==
    IF c = Newline THEN Place(left, p.y + CellH)
    ELSE LET q == Place(p.x + CellW, p.y)
         IN  IF q.x > w THEN Place(left, p.y + CellH) ELSE q

\* The place behind character c at p; a new row begins at column left.
Advance(p, c, left) ==
    IF c = Newline THEN Place(left, p.y + CellH)
    ELSE LET q == Place(p.x + CellW, p.y)
         IN  IF (q.x + CellW) % Word > w THEN Place(left, p.y + CellH) ELSE q

\* Mutant: at the start of a row the cursor stays in it.
BackOne_StaysInRow(p) ==
    IF p.x >= CellW THEN Place(p.x - CellW, p.y) ELSE p

\* The first branch of PrintChar: where a Backspace goes.
BackOne(p) ==
    IF p.x >= CellW THEN Place(p.x - CellW, p.y)
    ELSE IF p.y >= CellH THEN Place(w - CellW, p.y - CellH)
    ELSE p

\* The places of a string's characters, with the one behind it, when it begins
\* at p and its rows begin at column left.
Places(str, p, left) ==
    LET place[i \in 1..(Len(str) + 1)] ==
          IF i = 1 THEN p ELSE Advance(place[i - 1], str[i - 1], left)
    IN  place

-----------------------------------------------------------------------------
(* Drawing *)

Parts == (0..(CellH - 1)) \X (0..(CellW - 1))

\* PutPixel's index for a part of the cell at p.
PixelAt(p, part) == ((p.y + part[1]) * w + p.x + part[2]) % Word

\* What RenderChar draws: nothing without a valid font, which LoadPsfFont only
\* logs; the glyph of a blank has no pixels, and no glyph clears what is there.
RenderChar(p, c) == IF c = Blank \/ ~ setup.font THEN {}
                    ELSE {[pixel |-> PixelAt(p, part), mark |-> <<c, part>>] : part \in Parts}

DrawnString(str, places) ==
    UNION {RenderChar(places[i], str[i]) : i \in {j \in DOMAIN str : str[j] # Newline}}

\* RenderString comes back to the column it began in.
RenderString(str, p) == DrawnString(str, Places(str, p, p.x))

\* The buffer with something drawn over it.
Draw(drawn) ==
    /\ buffer' = [a \in DOMAIN buffer |->
                    buffer[a] \cup {d.mark : d \in {e \in drawn : e.pixel = a}}]
    /\ outside' = outside \cup ({d.pixel : d \in drawn} \ DOMAIN buffer)

\* Is one of these places below the last line of the screen?
Below(places) == \E p \in places : p.y + CellH > h

PrintChar(c) ==
    IF c = Backspace
    THEN LET p == BackOne(cursor)
             cell == {PixelAt(p, part) : part \in Parts}
         IN  /\ buffer' = [a \in DOMAIN buffer |-> IF a \in cell THEN {} ELSE buffer[a]]
             /\ outside' = outside \cup (cell \ DOMAIN buffer)
             /\ cursor' = p
             /\ sunk' = (sunk \/ Below({p}))
    ELSE /\ Draw(RenderChar(cursor, c))
         /\ cursor' = Advance(cursor, c, 0)
         /\ sunk' = (sunk \/ Below({cursor}))

\* Mutant: the cursor passes the characters and takes no newline for one.
PrintCursor_NoNewline(str, p) == Last(Places(SelectSeq(str, LAMBDA c : c # Newline), p, 0))

\* The loop that moves the cursor after Print has drawn; it comes back to
\* column 0.
PrintCursor(str, p) == Last(Places(str, p, 0))

\* Is place p at or behind place q?
NotBefore(p, q) == p.y > q.y \/ (p.y = q.y /\ p.x >= q.x)

PrintOut(str) ==
    LET places == Places(str, cursor, cursor.x)
        end == PrintCursor(str, cursor)
        visible == {places[i] : i \in {j \in DOMAIN str : str[j] # Newline}}
    IN  /\ Draw(RenderString(str, cursor))
        /\ cursor' = end
        /\ sunk' = (sunk \/ Below(visible))
        /\ skewed' = (skewed \/ \E p \in visible : NotBefore(p, end))

-----------------------------------------------------------------------------
(* The text screen *)

Rows == 0..(VGA_HEIGHT - 1)
Columns == 0..(VGA_WIDTH - 1)

terminal_initialize == [screen |-> [y \in Rows |-> [x \in Columns |-> Blank]],
                        row |-> 0, col |-> 0]

terminal_scroll(t) == [y \in Rows |-> IF y = VGA_HEIGHT - 1 THEN [x \in Columns |-> Blank]
                                      ELSE t[y + 1]]

\* Mutant: the screen scrolls when its last row is begun.
terminal_writechar_EarlyScroll(t, c) ==
    LET put == IF c = Newline THEN t.screen
               ELSE [t.screen EXCEPT ![t.row][t.col] = c]
        newRow == c = Newline \/ t.col + 1 >= VGA_WIDTH
        row == IF newRow THEN t.row + 1 ELSE t.row
    IN  [screen |-> IF row >= VGA_HEIGHT - 1 THEN terminal_scroll(put) ELSE put,
         row |-> IF row >= VGA_HEIGHT THEN VGA_HEIGHT - 1 ELSE row,
         col |-> IF newRow THEN 0 ELSE t.col + 1]

terminal_writechar(t, c) ==
    LET put == IF c = Newline THEN t.screen
               ELSE [t.screen EXCEPT ![t.row][t.col] = c]
        newRow == c = Newline \/ t.col + 1 >= VGA_WIDTH
        row == IF newRow THEN t.row + 1 ELSE t.row
    IN  [screen |-> IF row >= VGA_HEIGHT THEN terminal_scroll(put) ELSE put,
         row |-> IF row >= VGA_HEIGHT THEN VGA_HEIGHT - 1 ELSE row,
         col |-> IF newRow THEN 0 ELSE t.col + 1]

\* The text screen after so many of the string's characters.
Written(str, t) ==
    LET after[n \in 0..Len(str)] ==
          IF n = 0 THEN t ELSE terminal_writechar(after[n - 1], str[n])
    IN  after[Len(str)]

print(str) ==
    LET t == Written(str, [screen |-> terminal, row |-> terminal_row, col |-> terminal_col])
    IN  /\ terminal' = t.screen
        /\ terminal_row' = t.row
        /\ terminal_col' = t.col
        /\ printed' = printed \o str

-----------------------------------------------------------------------------
(* The keyboard interrupt *)

Idle == todo = <<>> /\ exec = 0

\* Mutant: a character is stored where the terminator belongs.
HasRoom_Overlong == Len(input_buffer) < BufSize

HasRoom == Len(input_buffer) < BufSize - 1

int21h_handler(key) ==
    /\ keys < MaxKeys
    /\ keys' = keys + 1
    /\ rushed' = IF Idle THEN rushed ELSE rushed + 1
    /\ rushed' <= MaxRushed
    /\ \/ /\ key = Backspace /\ input_buffer # <<>>
          /\ input_buffer' = Front(input_buffer)
          /\ PrintChar(Backspace)
          /\ UNCHANGED <<ex_buffer, exec, bent>>
       \/ /\ key = Enter
          /\ ex_buffer' = input_buffer
          /\ exec' = 1
          /\ input_buffer' = <<>>
          /\ UNCHANGED <<graphics, bent>>
       \* A Backspace on an empty line is kept and echoed like any other key.
       \/ /\ key # Enter /\ (key = Backspace => input_buffer = <<>>)
          /\ HasRoom
          /\ input_buffer' = Append(input_buffer, key)
          /\ PrintChar(key)
          /\ bent' = (bent \/ key = Backspace)
          /\ UNCHANGED <<ex_buffer, exec>>
    /\ UNCHANGED <<w, h, setup, text, todo, skewed, start>>

-----------------------------------------------------------------------------
(* The shell, one statement at a time *)

Show(str) == [does |-> "print", str |-> str]
Fill(i) == [does |-> "fill", column |-> i]
Does(what) == [does |-> what]

\* memset and FillRectangle, which fills column after column.
Cleared == <<Does("memset")>> \o [i \in 1..w |-> Fill(i - 1)]

\* KiUserInit before its loop.
Opening == Cleared \o <<Show(Banner), Show(Prompt)>>

\* What NsExec does about a line; a program displays what it likes.
NsExec(line, output) ==
    (CASE line = Cls -> Cleared \o <<Does("x"), Does("y")>>
       [] line = Help -> <<Show(HelpMsg)>>
       [] line = <<>> -> <<Show(<<Newline>>)>>
       [] line \in Programs -> <<Show(<<Newline>>), Show(output)>>
       [] OTHER -> <<Show(<<Newline>>), Show(Quote), Show(line), Show(NotRecognized)>>)
    \o <<Does("exec"), Show(Prompt)>>

KiUserInit_poll ==
    /\ todo = <<>> /\ exec = 1
    /\ \E output \in IF ex_buffer \in Programs THEN Outputs ELSE {<<>>} :
          todo' = NsExec(ex_buffer, output)
    /\ UNCHANGED <<w, h, setup, graphics, text, keyboard, ex_buffer, exec, skewed, start>>

Next_is(what) == todo # <<>> /\ Head(todo).does = what /\ todo' = Tail(todo)

NtDisplayStringSyscall ==
    /\ Next_is("print")
    /\ PrintOut(Head(todo).str)
    /\ print(Head(todo).str)
    /\ start' = IF todo' = <<>> THEN cursor' ELSE start
    /\ UNCHANGED <<w, h, setup, keyboard, ex_buffer, exec>>

\* Zero is black: nothing that was drawn before is left, nor the background.
Black == <<"black">>

ClearBuffer == /\ Next_is("memset")
               /\ buffer' = [a \in DOMAIN buffer |-> {Black}]
               /\ UNCHANGED <<w, h, setup, outside, cursor, sunk, text, keyboard, ex_buffer,
                              exec, skewed, start>>

FillRectangle ==
    /\ Next_is("fill")
    /\ buffer' = [a \in DOMAIN buffer |->
                    IF a % w = Head(todo).column THEN {} ELSE buffer[a]]
    /\ UNCHANGED <<w, h, setup, outside, cursor, sunk, text, keyboard, ex_buffer, exec,
                   skewed, start>>

ResetX == /\ Next_is("x")
          /\ cursor' = [cursor EXCEPT !.x = 0]
          /\ UNCHANGED <<w, h, setup, buffer, outside, sunk, text, keyboard, ex_buffer, exec,
                         skewed, start>>

ResetY == /\ Next_is("y")
          /\ cursor' = [cursor EXCEPT !.y = 0]
          /\ UNCHANGED <<w, h, setup, buffer, outside, sunk, text, keyboard, ex_buffer, exec,
                         skewed, start>>

ResetExec == /\ Next_is("exec")
             /\ exec' = 0
             /\ UNCHANGED <<w, h, setup, graphics, text, keyboard, ex_buffer, skewed, start>>

-----------------------------------------------------------------------------

Init == /\ setup \in Setups
        /\ w = fetchwh(setup.text).width
        /\ h = fetchwh(setup.text).height
        /\ buffer = [a \in 0..(w * h - 1) |-> {Black}]
        /\ outside = {}
        /\ cursor = Place(0, 0)
        /\ input_buffer = <<>> /\ ex_buffer = <<>> /\ exec = 0
        /\ todo = Opening
        /\ terminal = Written(BootText, terminal_initialize).screen
        /\ terminal_row = Written(BootText, terminal_initialize).row
        /\ terminal_col = Written(BootText, terminal_initialize).col
        /\ printed = BootText
        /\ keys = 0
        /\ rushed = 0 /\ bent = FALSE /\ skewed = FALSE /\ sunk = FALSE
        /\ start = Place(0, 0)

Next == \/ \E key \in Keys \cup {Backspace, Enter} : int21h_handler(key)
        \/ KiUserInit_poll
        \/ NtDisplayStringSyscall
        \/ ClearBuffer \/ FillRectangle
        \/ ResetX \/ ResetY \/ ResetExec

Spec == Init /\ [][Next]_vars

-----------------------------------------------------------------------------
(* Properties *)

\* Rows, and the indices of pixels, are in the range of 32 bits: each character
\* displayed, and each key, was a row at most. The code lets the cursor sink until
\* PutPixel's index wraps, and it draws over the top of the screen again.
InRange == LET rows == CellH * (Len(printed) + keys + 1)
           IN  rows <= Word /\ w * rows <= Word

TypeOK == /\ {w, h} \subseteq Nat
          /\ cursor \in [x : 0..(Word - 1), y : 0..(Word - 1)]
          /\ w >= CellW => cursor.x + CellW <= w
          /\ Len(input_buffer) < BufSize /\ Len(ex_buffer) < BufSize
          /\ terminal_row \in Rows /\ terminal_col \in Columns
          /\ exec \in {0, 1}

\* Behind the prompt the screen shows the line being typed, each character at
\* its place and nothing else drawn over it, with the cursor behind the last,
\* across the edge of the screen and back with Backspace. It holds only
\*  - with a valid font: without one the cursor moves over an empty screen;
\*  - for a user who never typed while the shell was busy (rushed), and never
\*    pressed Backspace on an empty line (bent);
\*  - while no Print left text at or below its cursor (skewed);
\*  - on a screen a whole number of characters wide.
\* Of a character below the last line it says only where the cursor goes: the
\* buffer has none of its pixels.
LineIsShown ==
    Idle /\ setup.font /\ rushed = 0 /\ ~ bent /\ ~ skewed /\ w >= CellW /\ w % CellW = 0 =>
      LET places == Places(input_buffer, start, 0)
          shows(p, c) == \A part \in Parts :
                            PixelAt(p, part) \in DOMAIN buffer =>
                              buffer[PixelAt(p, part)] =
                                IF c = Blank THEN {} ELSE {<<c, part>>}
      IN  /\ cursor = Last(places)
          /\ \A i \in DOMAIN input_buffer : shows(places[i], input_buffer[i])
          /\ shows(cursor, Blank)

\* Print draws a string where PrintChar would have put its characters one by
\* one, and leaves the cursor where PrintChar would, when it begins at column
\* 0 or stays in its row. (Otherwise its rows begin under its first character
\* while the cursor goes back to column 0.)
PrintIsStraight ==
    [][ LET str == Head(todo).str
            typed == Places(str, cursor, 0)
            drawn == DrawnString(str, typed)
            oneRow == \A i \in DOMAIN str :
                         str[i] # Newline => Places(str, cursor, cursor.x)[i].y = cursor.y
        IN  Next_is("print") /\ (cursor.x = 0 \/ oneRow) =>
              /\ cursor' = Last(typed)
              /\ buffer' = [a \in DOMAIN buffer |->
                              buffer[a] \cup {d.mark : d \in {e \in drawn : e.pixel = a}}]
              /\ skewed' = skewed
      ]_vars

\* The texts of boot.ini are read as the resolutions they stand for.
ResolutionsAreRead ==
    \A r \in Setups : r.width >= CellW =>
        fetchwh(r.text).width = r.width /\ fetchwh(r.text).height = r.height

\* A resolution boot.ini asks for is the one drawn in, and until the cursor is
\* below the last line every pixel is drawn inside the buffer: no cell reaches
\* over the right edge of the last row, no Backspace goes before the first
\* pixel, whichever key falls between the statements of cls.
DrawnInside ==
    setup.width >= CellW /\ ~ sunk =>
      /\ DOMAIN buffer = 0..(setup.width * setup.height - 1)
      /\ outside = {}

\* The row and the column of each character of a text, and of the one behind
\* it, when it is broken into rows of VGA_WIDTH characters.
Layout(str) ==
    LET place[i \in 1..(Len(str) + 1)] ==
          IF i = 1 THEN [row |-> 0, col |-> 0]
          ELSE LET p == place[i - 1]
               IN  IF str[i - 1] = Newline \/ p.col = VGA_WIDTH - 1
                   THEN [row |-> p.row + 1, col |-> 0]
                   ELSE [p EXCEPT !.col = @ + 1]
    IN  place

\* A text screen that shows the end of a text: the row the next character goes
\* to, and as many before it as fit.
ShowsTail(t, str) ==
    LET place == Layout(str)
        end == place[Len(str) + 1]
        top == IF end.row < VGA_HEIGHT THEN 0 ELSE end.row - VGA_HEIGHT + 1
        shown(y, x) == {i \in DOMAIN str : /\ str[i] # Newline
                                           /\ place[i] = [row |-> top + y, col |-> x]}
    IN  /\ t.row = end.row - top /\ t.col = end.col
        /\ \A y \in Rows, x \in Columns :
              t.screen[y][x] = IF shown(y, x) = {} THEN Blank
                               ELSE str[CHOOSE i \in shown(y, x) : TRUE]

\* The text screen shows the end of what was displayed, whatever it scrolled
\* over and wherever its rows were broken.
TextShowsTail ==
    ShowsTail([screen |-> terminal, row |-> terminal_row, col |-> terminal_col], printed)
===============================================================================
