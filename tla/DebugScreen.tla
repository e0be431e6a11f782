----------------------------- MODULE DebugScreen -----------------------------
(***************************************************************************)
(* src/libs/psp/debug/scr.c: a text cursor over a frame buffer.  A frame   *)
(* buffer is its grid of character cells, of which the model keeps those   *)
(* that show something; colours, pixel formats and the offset into the     *)
(* frame buffer are left out, and so is the one pixel by which a glyph is  *)
(* wider than its cell.  One thread uses the screen.                       *)
(*                                                                         *)
(* scr_initex that fails in set_display has restored the display mode and  *)
(* left g_scr alone: no step.                                              *)
(***************************************************************************)
EXTENDS Integers

CONSTANTS
    MX, MY,   \* columns and rows of characters
    Base,     \* addresses of frame buffers
    Default,  \* the address g_scr starts with
    MaxX      \* bound on the column, which can leave the screen: still in
              \* the margin between its width and a row of pixels in memory

ASSUME ScreenAssumption ==
    /\ MX \in Nat \ {0} /\ MY \in Nat \ {0}
    /\ Default \in Base
    /\ MaxX \in Nat /\ MaxX >= MX + 4

VARIABLES
    g_init,
    x, y,      \* g_scr.x, g_scr.y
    flags,     \* those of g_scr.flags that are looked at after scr_initex
    base,      \* g_scr.vram_base
    shown,     \* cells <<frame buffer, column, row>> that are not blank
    fresh,     \* ghost: the cursor has only moved right since its line was cleared
    jumped     \* ghost: a tab went over the right edge since x was last set

scrVars == <<g_init, x, y, flags, base, shown, fresh, jumped>>

Column == 0 .. MX - 1
Row == 0 .. MY - 1
Flag == {"DEFAULT", "SET_DISPLAY", "CLEAR", "USE_BGCOL", "USE_CLEARLINE"}
Erases == {"USE_BGCOL", "USE_CLEARLINE"}

ScrTypeOK ==
    /\ g_init \in BOOLEAN
    /\ x \in 0 .. MaxX
    /\ y \in Row
    /\ flags \subseteq Erases
    /\ base \in Base
    /\ shown \subseteq Base \X Column \X Row
    /\ fresh \in BOOLEAN /\ jumped \in BOOLEAN

\* The frame buffers are blank, or hold what another program left there.
ScrInit ==
    /\ g_init = FALSE
    /\ x = 0 /\ y = 0
    /\ flags = Erases
    /\ base = Default
    /\ shown \in {{}, Base \X Column \X Row}
    /\ fresh = FALSE /\ jumped = FALSE

-----------------------------------------------------------------------------
(***************************************************************************)
(* Calls that set the screen up.                                           *)
(***************************************************************************)
Blanked(b) == {c \in shown : c[1] # b}

\* clear_screen works on g_scr, which is still the old screen: a new frame buffer
\* is not cleared.
InitEx(b, f) ==
    /\ g_init' = TRUE
    /\ x' = 0 /\ y' = 0
    /\ flags' = IF "DEFAULT" \in f THEN Erases ELSE f \cap Erases
    /\ shown' = IF "CLEAR" \in f THEN Blanked(base) ELSE shown
    /\ base' = b
    /\ fresh' = FALSE /\ jumped' = FALSE

\* Mutant of SetXY: one row too many is accepted.
SetXYBelow(col, row) ==
    /\ x' = IF col < MX THEN col ELSE x
    /\ y' = IF row <= MY THEN row ELSE y
    /\ jumped' = (jumped /\ col >= MX)
    /\ fresh' = FALSE
    /\ UNCHANGED <<g_init, flags, base, shown>>

\* scr_setxy, and scr_setx and scr_sety with the other value out of range
SetXY(col, row) ==
    /\ x' = IF col < MX THEN col ELSE x
    /\ y' = IF row < MY THEN row ELSE y
    /\ jumped' = (jumped /\ col >= MX)
    /\ fresh' = FALSE
    /\ UNCHANGED <<g_init, flags, base, shown>>

\* scr_use_bgcol and scr_use_clearline
UseFlag(f, on) ==
    /\ flags' = IF on THEN flags \cup {f} ELSE flags \ {f}
    /\ fresh' = (fresh /\ on)
    /\ UNCHANGED <<g_init, x, y, base, shown, jumped>>

SetBase(b) ==
    /\ base' = b
    /\ fresh' = FALSE
    /\ UNCHANGED <<g_init, x, y, flags, shown, jumped>>

\* scr_clear; the loop over scr_clearline is covered by clear_screen
Clear ==
    /\ g_init
    /\ x' = 0 /\ y' = 0
    /\ shown' = Blanked(base)
    /\ fresh' = (Erases \subseteq flags) /\ jumped' = FALSE
    /\ UNCHANGED <<g_init, flags, base>>

-----------------------------------------------------------------------------
(***************************************************************************)
(* scr_printdata, one character a step.                                    *)
(***************************************************************************)
Printing == g_init /\ UNCHANGED <<g_init, flags, base>>

\* drawchar: a blank erases the cell with FLAG_SCR_USE_BGCOL only.  Columns from
\* MX on are in the part of a row of pixels that is not displayed.
Drawn(columns, glyph) ==
    LET cells == {base} \X (columns \cap Column) \X {y} IN
    IF glyph THEN shown \cup cells
    ELSE IF "USE_BGCOL" \in flags THEN shown \ cells ELSE shown

\* scr_clearline draws blocks in the background colour over the cursor's row.
ClearLine(row, s) ==
    IF Erases \subseteq flags THEN s \ ({base} \X Column \X {row}) ELSE s

\* Mutant of NewLine: the line is cleared before the cursor has moved on.
NewLineClearsOld(s) ==
    /\ x' = 0 /\ jumped' = FALSE
    /\ y' = (y + 1) % MY
    /\ shown' = ClearLine(y, s)
    /\ fresh' = (Erases \subseteq flags)

\* g_scr.x = 0; g_scr.y++; if (g_scr.y == MY) g_scr.y = 0; scr_clearline
NewLine(s) ==
    /\ x' = 0 /\ jumped' = FALSE
    /\ y' = (y + 1) % MY
    /\ shown' = ClearLine(y', s)
    /\ fresh' = (Erases \subseteq flags)

Return ==
    /\ Printing
    /\ x' = 0
    /\ fresh' = FALSE /\ jumped' = FALSE
    /\ UNCHANGED <<y, shown>>

LineFeed == Printing /\ NewLine(shown)

Tab ==
    /\ Printing
    /\ x + 4 <= MaxX
    /\ x' = x + 4
    /\ shown' = Drawn(x .. x + 3, FALSE)
    /\ jumped' = (jumped \/ x + 4 >= MX)
    /\ UNCHANGED <<y, fresh>>

\* Mutant of Char: the line ends one column late.
CharLate(glyph) ==
    /\ Printing
    /\ x < MaxX
    /\ LET s == Drawn({x}, glyph) IN
       \/ x = MX /\ NewLine(s)
       \/ x # MX /\ x' = x + 1 /\ shown' = s /\ UNCHANGED <<y, fresh, jumped>>

\* Any other character.  The line ends when x is MX, and only then.
Char(glyph) ==
    /\ Printing
    /\ x < MaxX
    /\ LET s == Drawn({x}, glyph) IN
       \/ x + 1 = MX /\ NewLine(s)
       \/ x + 1 # MX /\ x' = x + 1 /\ shown' = s /\ UNCHANGED <<y, fresh, jumped>>

ScrNext ==
    \/ \E b \in Base, f \in SUBSET Flag : InitEx(b, f)
    \/ \E col \in 0 .. MX, row \in 0 .. MY : SetXY(col, row)
    \/ \E f \in Erases, on \in BOOLEAN : UseFlag(f, on)
    \/ \E b \in Base : SetBase(b)
    \/ Clear
    \/ Return \/ LineFeed \/ Tab
    \/ \E glyph \in BOOLEAN : Char(glyph)

ScrSpec == ScrInit /\ [][ScrNext]_scrVars

-----------------------------------------------------------------------------
\* MX and MY are the "Character max positions" (scr.c): the cursor stays on the
\* screen, unless a tab jumped over the right edge, after which the test for
\* equality with MX no longer ends the line.
CursorOnScreen == y \in Row /\ (~jumped => x \in Column)

\* With both erasing flags a line shows nothing of what was there before: in the
\* cursor's row everything from the cursor on is blank, also after the text has
\* gone over the bottom of the screen, until the program sets the cursor back.
RestIsBlank == fresh => \A col \in Column : col >= x => <<base, col, y>> \notin shown
=============================================================================
