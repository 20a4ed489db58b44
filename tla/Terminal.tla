------------------------------ MODULE Terminal ------------------------------
(***************************************************************************)
(* The keyboard of Pintos (devices/kbd.c): keyboard_interrupt, once for    *)
(* every key that is pressed, repeats or is released.  A key is a scan     *)
(* code, one or two bytes long; a character is its code.                   *)
(*                                                                         *)
(* The text screen of Pintos (devices/vga.c).  vga_putc runs with          *)
(* interrupts off and is one step; all that other code may do while the    *)
(* speaker beeps is to print as well, so that '\a' is a step that changes  *)
(* nothing.  Beside the frame buffer the model keeps `paper': what the     *)
(* same characters leave on a sheet that never ends.                       *)
(***************************************************************************)
EXTENDS Integers, Sequences, FiniteSets

CONSTANTS
  Keyboards,   \* the keys of a keyboard
  NoChar       \* no character was typed

VARIABLES
  shifts,      \* left_shift, right_shift, ... : the scan codes that are set
  caps_lock,
  held,        \* the keys that are down, on the keyboard
  typed,       \* the character of the last interrupt, and what was held then
  rebooted     \* shutdown_reboot was called

kbdVars == <<shifts, caps_lock, held, typed, rebooted>>

LShift == 42   RShift == 54
LAlt == 56     RAlt == 57400
LCtrl == 29    RCtrl == 57373
CapsLock == 58
ShiftKeys == {LShift, RShift, LAlt, RAlt, LCtrl, RCtrl}
OrdinaryKeys == {30, 2, 26, 83, 28}   \* A, 1, [, Del of the keypad, Enter
GreyDel == 57427                      \* the other Del, a key without effect

\* The keymaps, as far as these keys go.
invariant_keymap == [k \in {30, 83, 28} |-> CASE k = 30 -> 65 [] k = 83 -> 127 [] k = 28 -> 13]
unshifted_keymap == [k \in {2, 26} |-> IF k = 2 THEN 49 ELSE 91]
shifted_keymap == [k \in {2, 26} |-> IF k = 2 THEN 33 ELSE 123]

\* map_key in the order of keyboard_interrupt.
map_key(code, shift) ==
  IF code \in DOMAIN invariant_keymap THEN invariant_keymap[code]
  ELSE IF shift THEN shifted_keymap[code] ELSE unshifted_keymap[code]

tolower(c) == IF c \in 65..90 THEN c + 32 ELSE c

shift == {LShift, RShift} \cap shifts # {}
alt == {LAlt, RAlt} \cap shifts # {}
ctrl == {LCtrl, RCtrl} \cap shifts # {}

\* The character of an ordinary key: Ctrl overrides Shift, Alt sets the high bit.
character(code) ==
  LET c == map_key(code, shift)
      low == IF ctrl /\ c \in 64..95 THEN c - 64
             ELSE IF shift = caps_lock THEN tolower(c) ELSE c
  IN  (IF alt THEN low + 128 ELSE low) % 256

\* keyboard_interrupt for a key that goes down, or repeats; a character goes to
\* the input buffer unless that is full.
Pressed(code) ==
  LET char == code \in OrdinaryKeys
  IN  /\ held' = held \cup {code}
      /\ rebooted' = (char /\ map_key(code, shift) = 127 /\ ctrl /\ alt)
      /\ caps_lock' = IF code = CapsLock THEN ~caps_lock ELSE caps_lock
      /\ shifts' = IF code \in ShiftKeys THEN shifts \cup {code} ELSE shifts
      /\ \E full \in BOOLEAN :
           typed' = IF char /\ ~full THEN <<code, character(code), held, caps_lock>>
                    ELSE NoChar

released_keys(code) == shifts \ {code}

\* keyboard_interrupt for a key that is released.
Released(code) ==
  /\ code \in held
  /\ held' = held \ {code}
  /\ shifts' = released_keys(code)
  /\ typed' = NoChar
  /\ UNCHANGED <<caps_lock, rebooted>>

KbdInit ==
  /\ shifts = {} /\ caps_lock = FALSE /\ held = {}
  /\ typed = NoChar /\ rebooted = FALSE

KbdNext ==
  /\ ~rebooted
  /\ \E k \in Keyboards : Pressed(k) \/ Released(k)
-----------------------------------------------------------------------------
\* The character typed is the one that the keys held at that moment and Caps
\* Lock stand for, whatever was pressed and released before, and in which order.
TypedRight ==
  typed # NoChar =>
    LET key == typed[1]   keys == typed[3]   caps == typed[4]
        Held(S) == S \cap keys # {}
        plain == CASE key = 30 -> IF Held({LShift, RShift}) # caps THEN 65 ELSE 97
                   [] key = 2 -> IF Held({LShift, RShift}) THEN 33 ELSE 49
                   [] key = 26 -> IF Held({LShift, RShift}) THEN 123 ELSE 91
                   [] key = 83 -> 127
                   [] key = 28 -> 13
        control == Held({LCtrl, RCtrl})
        low == IF control /\ key = 30 THEN 1
               ELSE IF control /\ key = 26 /\ ~Held({LShift, RShift}) THEN 27
               ELSE plain
    IN  typed[2] = IF Held({LAlt, RAlt}) THEN low + 128 ELSE low
-----------------------------------------------------------------------------
CONSTANTS
  COL_CNT, ROW_CNT,
  TAB,            \* 8
  MaxLines        \* a bound: lines on the sheet

ASSUME ScreenAssumption ==
  COL_CNT \in Nat \ {0} /\ ROW_CNT \in Nat \ {0} /\ TAB \in Nat \ {0} /\ MaxLines \in Nat

VARIABLES fb,        \* fb[y][x]: the character there
          cx, cy,    \* the cursor
          cursor,    \* the hardware's cursor
          paper,     \* the lines printed since the screen was cleared
          beeps      \* a bell has rung last

vgaVars == <<fb, cx, cy, cursor, paper, beeps>>

Columns == 0 .. COL_CNT - 1
Rows == 0 .. ROW_CNT - 1
blank == [x \in Columns |-> " "]

\* Mutant: the last line is scrolled but not cleared.
scrolled_dirty(screen) == [y \in Rows |-> IF y = ROW_CNT - 1 THEN screen[y] ELSE screen[y + 1]]

\* newline's memmove and clear_row.
scrolled(screen) == [y \in Rows |-> IF y = ROW_CNT - 1 THEN blank ELSE screen[y + 1]]

\* newline, on a screen.
newline(screen) ==
  /\ cx' = 0
  /\ \/ cy + 1 >= ROW_CNT /\ cy' = ROW_CNT - 1 /\ fb' = scrolled(screen)
     \/ cy + 1 < ROW_CNT /\ cy' = cy + 1 /\ fb' = screen
  /\ paper' = Append([paper EXCEPT ![Len(paper)] = screen[cy]], blank)

past_end(x) == x >= COL_CNT

\* move_cursor, at the end of vga_putc.
move_cursor == cursor' = cx' + COL_CNT * cy'

Advance(x, screen) ==
  IF past_end(x) THEN newline(screen)
  ELSE /\ cx' = x /\ cy' = cy
       /\ fb' = screen
       /\ paper' = [paper EXCEPT ![Len(paper)] = screen[cy]]

PutChar(c) ==
  /\ Advance(cx + 1, [fb EXCEPT ![cy][cx] = c])
  /\ beeps' = FALSE

PutTab ==
  /\ Advance(((cx + 1 + TAB - 1) \div TAB) * TAB, fb)
  /\ beeps' = FALSE

PutNewline == newline(fb) /\ beeps' = FALSE

PutBackspace ==
  /\ cx' = IF cx > 0 THEN cx - 1 ELSE cx
  /\ beeps' = FALSE
  /\ UNCHANGED <<fb, cy, paper>>

PutReturn ==
  /\ cx' = 0
  /\ beeps' = FALSE
  /\ UNCHANGED <<fb, cy, paper>>

\* '\f': cls.
PutFormFeed ==
  /\ fb' = [y \in Rows |-> blank]
  /\ cx' = 0 /\ cy' = 0
  /\ paper' = <<blank>>
  /\ beeps' = FALSE

\* '\a': speaker_beep, with interrupts on for so long.
PutBell == beeps' = TRUE /\ UNCHANGED <<fb, cx, cy, paper>>

VgaInit ==
  /\ fb = [y \in Rows |-> blank]
  /\ cx = 0 /\ cy = 0 /\ cursor = 0
  /\ paper = <<blank>>
  /\ beeps = FALSE

VgaNext ==
  /\ Len(paper) < MaxLines
  /\ \/ \E c \in {"a", "b"} : PutChar(c)
     \/ PutTab \/ PutNewline \/ PutBackspace \/ PutReturn \/ PutFormFeed \/ PutBell
  /\ move_cursor

\* The keyboard and the screen, side by side.
TerminalSpec == KbdInit /\ [][KbdNext]_kbdVars /\ VgaInit /\ [][VgaNext]_vgaVars
-----------------------------------------------------------------------------
\* The screen shows the last lines of what was printed, in order and whole, with
\* nothing left over below; and both cursors are on the line being printed.
ScreenShowsPaper ==
  LET above == IF Len(paper) > ROW_CNT THEN Len(paper) - ROW_CNT ELSE 0
  IN  /\ cx \in Columns /\ cy = Len(paper) - above - 1
      /\ cursor = cx + COL_CNT * cy
      /\ \A y \in Rows : fb[y] = IF above + y + 1 <= Len(paper) THEN paper[above + y + 1]
                                 ELSE blank
\* The keys that are held decide what is typed, and the screen shows what was printed (kbd.c,
\* vga.c).
TerminalRight == TypedRight /\ ScreenShowsPaper
=============================================================================
