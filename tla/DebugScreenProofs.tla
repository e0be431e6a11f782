-------------------------- MODULE DebugScreenProofs --------------------------
(***************************************************************************)
(* Proofs about the debug screen, for every size of the screen and every   *)
(* set of frame buffers.                                                   *)
(***************************************************************************)
EXTENDS DebugScreen, TLAPS

FlagsOK ==
    /\ g_init \in BOOLEAN
    /\ fresh \in BOOLEAN /\ jumped \in BOOLEAN

PlacesOK ==
    /\ x \in 0 .. MaxX
    /\ y \in Row
    /\ flags \subseteq Erases
    /\ base \in Base
    /\ shown \subseteq Base \X Column \X Row

\* The truth values and the rest of the type invariant are dealt with apart.
LEMMA ScrTypeParts == ScrTypeOK <=> FlagsOK /\ PlacesOK
BY DEF ScrTypeOK, FlagsOK, PlacesOK

ScrInv ==
    /\ ScrTypeOK
    /\ CursorOnScreen
    /\ RestIsBlank
    /\ fresh => Erases \subseteq flags

\* Drawing one cell or a range of cells touches the cursor's line only, and only
\* the cells it is told to draw become visible.
LEMMA DrawnFacts ==
    ASSUME ScrTypeOK, NEW columns \in SUBSET Int, NEW glyph \in BOOLEAN
    PROVE  /\ Drawn(columns, glyph) \subseteq Base \X Column \X Row
           /\ \A c \in Drawn(columns, glyph) :
                 c \in shown \/ (glyph /\ \E col \in columns \cap Column : c = <<base, col, y>>)
<1>1. {base} \X (columns \cap Column) \X {y} \subseteq Base \X Column \X Row
  BY DEF ScrTypeOK
<1>2. ASSUME NEW c \in {base} \X (columns \cap Column) \X {y}
      PROVE  \E col \in columns \cap Column : c = <<base, col, y>>
  <2>1. c[1] = base /\ c[2] \in columns \cap Column /\ c[3] = y /\ c = <<c[1], c[2], c[3]>>
    OBVIOUS
  <2>. QED
    BY <2>1
<1>. QED
  BY <1>1, <1>2 DEF Drawn, ScrTypeOK

\* The end of a line, in \n and in the wrap after the last column, keeps the
\* cursor on the screen and leaves a blank line when both erasing flags are set.
LEMMA NewLineKeeps ==
    ASSUME ScrInv,
           NEW s \in SUBSET (Base \X Column \X Row),
           NewLine(s),
           Printing
    PROVE  ScrInv'
<1>. USE ScreenAssumption
<1>1. y' \in Row
  <2>1. y + 1 \in Nat /\ MY \in Nat /\ MY > 0
    BY DEF ScrInv, ScrTypeOK, Row
  <2>2. (y + 1) % MY \in 0 .. MY - 1
    BY <2>1
  <2>. QED
    BY <2>2 DEF NewLine, Row
<1>2. /\ x' = 0 /\ jumped' = FALSE
      /\ fresh' = (Erases \subseteq flags)
      /\ UNCHANGED <<g_init, flags, base>>
  BY DEF NewLine, Printing
<1>3. shown' \subseteq s
  BY DEF NewLine, ClearLine
<1>4. fresh' => shown' = s \ ({base} \X Column \X {y'})
  BY DEF NewLine, ClearLine
<1>5. ScrTypeOK'
  <2>1. FlagsOK'
    BY <1>2, ScrTypeParts DEF ScrInv, FlagsOK
  <2>2. PlacesOK'
    BY <1>1, <1>2, <1>3, ScrTypeParts DEF ScrInv, PlacesOK
  <2>. QED
    BY <2>1, <2>2 DEF ScrTypeOK, FlagsOK, PlacesOK
<1>6. CursorOnScreen'
  BY <1>1, <1>2 DEF CursorOnScreen, Column
<1>7. RestIsBlank'
  BY <1>2, <1>4 DEF RestIsBlank
<1>. QED
  BY <1>2, <1>5, <1>6, <1>7 DEF ScrInv

\* Setting the screen up, and the calls that move the cursor or change a setting.
LEMMA SettingsKeep ==
    ASSUME ScrInv,
           \/ \E b \in Base, f \in SUBSET Flag : InitEx(b, f)
           \/ \E col \in 0 .. MX, row \in 0 .. MY : SetXY(col, row)
           \/ \E f \in Erases, on \in BOOLEAN : UseFlag(f, on)
           \/ \E b \in Base : SetBase(b)
           \/ Clear
    PROVE  ScrInv'
<1>. USE ScreenAssumption DEF ScrInv
<1>0. 0 \in Column /\ 0 \in Row /\ 0 \in 0 .. MaxX /\ Column \subseteq 0 .. MaxX
  BY DEF Column, Row
<1>1. ASSUME NEW b \in Base, NEW f \in SUBSET Flag, InitEx(b, f)
      PROVE  ScrInv'
  <2>1. flags' \subseteq Erases
    BY <1>1 DEF InitEx
  <2>2. shown' \subseteq shown
    BY <1>1 DEF InitEx, Blanked
  <2>3. g_init' \in BOOLEAN /\ fresh' = FALSE /\ jumped' = FALSE
        /\ x' = 0 /\ y' = 0 /\ base' = b
    BY <1>1 DEF InitEx
  <2>. QED
    BY <1>0, <2>1, <2>2, <2>3 DEF ScrTypeOK, CursorOnScreen, RestIsBlank
<1>2. ASSUME NEW col \in 0 .. MX, NEW row \in 0 .. MY, SetXY(col, row)
      PROVE  ScrInv'
  <2>1. x' \in 0 .. MaxX /\ y' \in Row /\ (~jumped' => x' \in Column)
    BY <1>2 DEF SetXY, ScrTypeOK, CursorOnScreen, Column, Row
  <2>2. jumped' \in BOOLEAN /\ fresh' = FALSE
        /\ UNCHANGED <<g_init, flags, base, shown>>
    BY <1>2 DEF SetXY
  <2>. QED
    BY <2>1, <2>2 DEF ScrTypeOK, CursorOnScreen, RestIsBlank
<1>3. ASSUME NEW f \in Erases, NEW on \in BOOLEAN, UseFlag(f, on)
      PROVE  ScrInv'
  <2>1. flags' \subseteq Erases /\ (on => flags \subseteq flags')
    BY <1>3 DEF UseFlag, ScrTypeOK
  <2>2. fresh' \in BOOLEAN /\ (fresh' => fresh /\ on)
        /\ UNCHANGED <<g_init, x, y, base, shown, jumped>>
    BY <1>3 DEF UseFlag
  <2>. QED
    BY <2>1, <2>2 DEF ScrTypeOK, CursorOnScreen, RestIsBlank
<1>4. ASSUME NEW b \in Base, SetBase(b)
      PROVE  ScrInv'
  BY <1>4 DEF SetBase, ScrTypeOK, CursorOnScreen, RestIsBlank
<1>5. CASE Clear
  <2>1. shown' \subseteq shown /\ \A c \in shown' : c[1] # base
    BY <1>5 DEF Clear, Blanked
  <2>2. /\ x' = 0 /\ y' = 0
        /\ fresh' = (Erases \subseteq flags) /\ jumped' = FALSE
        /\ UNCHANGED <<g_init, flags, base>>
    BY <1>5 DEF Clear
  <2>. QED
    BY <1>0, <2>1, <2>2 DEF ScrTypeOK, CursorOnScreen, RestIsBlank
<1>. QED
  BY <1>1, <1>2, <1>3, <1>4, <1>5

\* A character of a text.
LEMMA PrintKeeps ==
    ASSUME ScrInv, Return \/ LineFeed \/ Tab \/ \E glyph \in BOOLEAN : Char(glyph)
    PROVE  ScrInv'
<1>. USE ScreenAssumption
<1>1. CASE Return
  <2>1. /\ x' = 0 /\ fresh' = FALSE /\ jumped' = FALSE
        /\ UNCHANGED <<g_init, y, flags, base, shown>>
    BY <1>1 DEF Return, Printing
  <2>2. FlagsOK'
    BY <2>1, ScrTypeParts DEF ScrInv, FlagsOK
  <2>3. PlacesOK'
    BY <2>1, ScrTypeParts DEF ScrInv, PlacesOK
  <2>4. CursorOnScreen' /\ RestIsBlank'
    BY <2>1, <2>3 DEF PlacesOK, CursorOnScreen, RestIsBlank, Column
  <2>. QED
    BY <2>1, <2>2, <2>3, <2>4 DEF ScrInv, ScrTypeOK, FlagsOK, PlacesOK
<1>2. CASE LineFeed
  BY <1>2, NewLineKeeps DEF LineFeed, ScrInv, ScrTypeOK
<1>3. CASE Tab
  <2>1. /\ x' = x + 4 /\ x + 4 <= MaxX
        /\ jumped' = (jumped \/ x + 4 >= MX)
        /\ UNCHANGED <<g_init, y, flags, base, fresh>>
    BY <1>3 DEF Tab, Printing
  <2>2. shown' \subseteq shown
    BY <1>3 DEF Tab, Drawn
  <2>3. ScrTypeOK'
    <3>1. FlagsOK'
      BY <2>1, ScrTypeParts DEF ScrInv, FlagsOK
    <3>2. PlacesOK'
      BY <2>1, <2>2, ScrTypeParts DEF ScrInv, PlacesOK
    <3>. QED
      BY <3>1, <3>2 DEF ScrTypeOK, FlagsOK, PlacesOK
  <2>4. CursorOnScreen'
    <3>1. ~jumped' => ~jumped /\ ~(x + 4 >= MX)
      BY <2>1, Zenon
    <3>2. x \in Nat /\ y' \in Row
      BY <2>1, ScrTypeParts DEF ScrInv, PlacesOK
    <3>3. ~jumped' => x' \in Column
      BY <2>1, <3>1, <3>2 DEF Column
    <3>. QED
      BY <3>2, <3>3 DEF CursorOnScreen
  <2>5. RestIsBlank'
    BY <2>1, <2>2 DEF ScrInv, ScrTypeOK, RestIsBlank, Column
  <2>. QED
    BY <2>1, <2>3, <2>4, <2>5 DEF ScrInv
<1>4. ASSUME NEW glyph \in BOOLEAN, Char(glyph)
      PROVE  ScrInv'
  <2>. DEFINE s == Drawn({x}, glyph)
  <2>1. /\ s \subseteq Base \X Column \X Row
        /\ \A c \in s : c \in shown \/ c = <<base, x, y>>
    BY DrawnFacts DEF ScrInv, ScrTypeOK
  <2>. HIDE DEF s
  <2>2. CASE x + 1 = MX /\ NewLine(s)
    BY <1>4, <2>1, <2>2, NewLineKeeps DEF Char
  <2>3. CASE x + 1 # MX /\ x' = x + 1 /\ shown' = s /\ UNCHANGED <<y, fresh, jumped>>
    <3>1. UNCHANGED <<g_init, flags, base>> /\ x < MaxX
      BY <1>4 DEF Char, Printing
    <3>2. ScrTypeOK'
      <4>1. FlagsOK'
        BY <2>3, <3>1, ScrTypeParts DEF ScrInv, FlagsOK
      <4>2. PlacesOK'
        BY <2>1, <2>3, <3>1, ScrTypeParts DEF ScrInv, PlacesOK
      <4>. QED
        BY <4>1, <4>2 DEF ScrTypeOK, FlagsOK, PlacesOK
    <3>3. CursorOnScreen'
      BY <2>3, <3>1 DEF ScrInv, ScrTypeOK, CursorOnScreen, Column
    <3>4. RestIsBlank'
      <4>1. SUFFICES ASSUME fresh', NEW col \in Column, col >= x + 1
                     PROVE  <<base, col, y>> \notin s
        BY <2>3, <3>1 DEF RestIsBlank
      <4>2. <<base, col, y>> \notin shown
        BY <2>3, <4>1 DEF ScrInv, ScrTypeOK, RestIsBlank, Column
      <4>3. col # x
        BY <4>1 DEF ScrInv, ScrTypeOK, Column
      <4>. QED
        BY <2>1, <4>2, <4>3
    <3>. QED
      BY <2>3, <3>1, <3>2, <3>3, <3>4 DEF ScrInv
  <2>. QED
    BY <1>4, <2>2, <2>3 DEF Char, s
<1>. QED
  BY <1>1, <1>2, <1>3, <1>4

\* The inductive invariant of scr.c.
THEOREM ScreenInvariant == ScrSpec => []ScrInv
<1>1. ScrInit => ScrInv
  <2>. SUFFICES ASSUME ScrInit PROVE ScrInv
    OBVIOUS
  <2>1. FlagsOK
    BY DEF ScrInit, FlagsOK
  <2>2. PlacesOK
    BY ScreenAssumption DEF ScrInit, PlacesOK, Column, Row
  <2>3. CursorOnScreen /\ RestIsBlank /\ (fresh => Erases \subseteq flags)
    BY ScreenAssumption DEF ScrInit, CursorOnScreen, RestIsBlank, Column, Row
  <2>. QED
    BY <2>1, <2>2, <2>3, ScrTypeParts DEF ScrInv
<1>2. ScrInv /\ [ScrNext]_scrVars => ScrInv'
  <2>1. ScrInv /\ UNCHANGED scrVars => ScrInv'
    BY DEF scrVars, ScrInv, ScrTypeOK, CursorOnScreen, RestIsBlank
  <2>. QED
    BY <2>1, SettingsKeep, PrintKeeps DEF ScrNext
<1>. QED
  BY <1>1, <1>2, PTL DEF ScrSpec

\* Rows, columns and the cells that show something stay in the frame buffers.
THEOREM ScreenTypeCorrect == ScrSpec => []ScrTypeOK
<1>1. ScrInv => ScrTypeOK
  BY DEF ScrInv
<1>. QED
  BY <1>1, ScreenInvariant, PTL

\* The cursor stays on the screen unless a tab goes over its edge, for every size.
THEOREM CursorStaysOnScreen == ScrSpec => []CursorOnScreen
<1>1. ScrInv => CursorOnScreen
  BY DEF ScrInv
<1>. QED
  BY <1>1, ScreenInvariant, PTL

\* The rest of a line that was cleared is blank while text is written to it.
THEOREM RestStaysBlank == ScrSpec => []RestIsBlank
<1>1. ScrInv => RestIsBlank
  BY DEF ScrInv
<1>. QED
  BY <1>1, ScreenInvariant, PTL
=============================================================================
