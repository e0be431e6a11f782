--------------------------- MODULE MsgBufferProofs ---------------------------
(***************************************************************************)
(* Proofs about MsgBuffer, for every number of slots, every buffer size    *)
(* the assumption allows and every configuration, for handlers that use    *)
(* the buffer up to the size they are told.                                *)
(***************************************************************************)
EXTENDS MsgBuffer, TLAPS

\* The default handler will still see the message.
DefaultPending == \E i \in Slots : i >= slot /\ table[i] = "default"

\* A handler of another module has run.
UserBefore == \E u \in Slots : u < slot /\ table[u] = "user"

(***************************************************************************)
(* Handlers leave the last byte of the buffer for the NUL, which is        *)
(* index given + 15.  The default handler can move it one further, but not *)
(* while it is pending, and only if a handler in front of it has made the  *)
(* text longer.                                                            *)
(***************************************************************************)
HeldInv ==
    /\ given >= 1
    /\ size = given + 16
    /\ nul = len
    /\ top \in 0 .. given + 16
    /\ len <= given + 16
    /\ newline => len > 0
    /\ DefaultPending => len <= given + 15 /\ top <= given + 15 /\ out.count = 0
    /\ DefaultPending /\ len > given => UserBefore
    /\ top = given + 16 => AutoNewline /\ NewlineBehindUser

OutInv == out.count <= 1 /\ (AutoNewline => out.newline)

BufInv == BufTypeOK /\ (Held => HeldInv) /\ OutInv

\* What the assumption says of the sizes.
LEMMA SizeFacts == MaxHandlers \in Nat /\ BufSz \in Nat /\ 1 <= BufSz /\ BufSz <= 2544
BY BufferAssumption

\* Numbers that fit 16 bits.
LEMMA Fits == \A k \in Nat : k <= 2600 => k \in U16
<1>1. 2 ^ 16 = 65536
  OBVIOUS
<1>. QED
  BY <1>1 DEF U16

\* The positions of the loop in invoke_handlers.
LEMMA SlotFits == \A i \in 0 .. MaxHandlers : i \in -1 .. MaxHandlers
BY SizeFacts

\* Before the first message there is nothing to keep.
LEMMA BufInvInit == BufInit => BufInv
<1>. SUFFICES ASSUME BufInit PROVE BufInv
  OBVIOUS
<1>1. table \in Tables
  BY DEF BufInit, Tables
<1>2. slot \in -1 .. MaxHandlers /\ given \in 0 .. BufSz - 1 /\ len \in U16 /\ size \in U16
  BY SizeFacts DEF BufInit, U16
<1>3. out \in [count : Nat, newline : BOOLEAN] /\ isUser \in BOOLEAN /\ newline \in BOOLEAN
  BY DEF BufInit, Unwritten
<1>4. nul \in Nat /\ top \in Nat
  BY DEF BufInit
<1>5. BufTypeOK
  BY <1>1, <1>2, <1>3, <1>4 DEF BufTypeOK
<1>. QED
  BY <1>5 DEF BufInit, BufInv, Held, OutInv, Unwritten

\* new_msg leaves room for the newline and the 14 extra bytes.
LEMMA NewMsgKeeps ==
    ASSUME BufInv, NEW n \in -1 .. BufSz + 1, KprintfHandler(n)
    PROVE  BufInv'
<1>0. n \in 1 .. BufSz - 1
  BY SizeFacts DEF KprintfHandler
<1>1. n + 16 \in U16 /\ Room(n) % 65536 = n + 16
  BY <1>0, SizeFacts DEF Room, Extra, U16
<1>2. size' = n + 16 /\ given' = n /\ len' = n /\ nul' = n /\ top' = n /\ newline' \in BOOLEAN
  BY <1>1 DEF KprintfHandler, NewMsg
<1>3. slot' = 0 /\ table' \in Tables /\ isUser' \in BOOLEAN /\ out' = [count |-> 0, newline |-> TRUE]
  BY DEF KprintfHandler, Unwritten
<1>4. BufTypeOK'
  <2>1. 0 \in -1 .. MaxHandlers
    BY SizeFacts
  <2>2. n \in Nat /\ n <= 2600 /\ n \in 0 .. BufSz - 1
    BY <1>0, SizeFacts
  <2>3. n \in U16
    BY <2>2, Fits
  <2>4. out' \in [count : Nat, newline : BOOLEAN]
    BY <1>3
  <2>. QED
    BY <1>1, <1>2, <1>3, <2>1, <2>2, <2>3, <2>4 DEF BufTypeOK
<1>5. HeldInv'
  BY <1>0, <1>2, <1>3, SizeFacts DEF HeldInv
<1>. QED
  BY <1>3, <1>4, <1>5 DEF BufInv, OutInv

\* After the loop has moved on, fewer slots are pending.
LEMMA PendingShrinks ==
    ASSUME BufTypeOK, Held, slot' \in Int, slot' >= slot, UNCHANGED table, DefaultPending'
    PROVE  DefaultPending
BY DEF BufTypeOK, DefaultPending, Slots

\* After the loop has moved on, what has run has run.
LEMMA RunStaysRun ==
    ASSUME BufTypeOK, slot \in Slots, slot' \in Int, slot' >= slot, UNCHANGED table
    PROVE  (UserBefore => UserBefore') /\ (NewlineBehindUser => NewlineBehindUser')
BY SizeFacts DEF Slots, UserBefore, NewlineBehindUser

\* Free slots, handlers that only look, and the end of the loop.
LEMMA LookKeeps ==
    ASSUME BufInv, SkipFree \/ UserLooks \/ Remove
    PROVE  BufInv'
<1>1. CASE Remove
  BY <1>1, SizeFacts DEF Remove, BufInv, BufTypeOK, Held, OutInv
<1>2. CASE SkipFree \/ UserLooks
  <2>1. /\ slot \in Slots /\ slot' \in {slot + 1, MaxHandlers}
        /\ UNCHANGED <<table, isUser, given, len, size, nul, newline, top, out>>
    BY <1>2 DEF SkipFree, UserLooks, At, Returns
  <2>2. Held /\ slot' \in 0 .. MaxHandlers /\ slot' >= slot
    BY <2>1, SizeFacts DEF Slots, Held
  <2>3. DefaultPending' => DefaultPending
    BY <2>1, <2>2, PendingShrinks DEF BufInv
  <2>4. (UserBefore => UserBefore') /\ (NewlineBehindUser => NewlineBehindUser')
    BY <2>1, <2>2, RunStaysRun DEF BufInv
  <2>5. BufTypeOK' /\ OutInv'
    BY <2>1, <2>2 DEF BufInv, BufTypeOK, OutInv
  <2>6. HeldInv'
    BY <2>1, <2>2, <2>3, <2>4 DEF BufInv, HeldInv
  <2>. QED
    BY <2>5, <2>6 DEF BufInv
<1>. QED
  BY <1>1, <1>2

\* Handlers that keep to the size they are told do not write beyond the block.
LEMMA EditKeeps ==
    ASSUME BufInv, UserEdits
    PROVE  BufInv'
<1>1. slot \in Slots /\ slot' \in {slot + 1, MaxHandlers}
      /\ UNCHANGED <<table, isUser, given, size, out>>
  BY DEF UserEdits, At, Returns
<1>2. Held /\ slot' \in 0 .. MaxHandlers /\ slot' >= slot
  BY <1>1, SizeFacts DEF Slots, Held
<1>3. DefaultPending' => DefaultPending
  BY <1>1, <1>2, PendingShrinks DEF BufInv
<1>4. given \in 1 .. BufSz - 1 /\ top \in 0 .. given + 16 /\ size = given + 16
  BY <1>2, SizeFacts DEF BufInv, BufTypeOK, HeldInv
<1>5. len' \in 0 .. given + 15 /\ nul' = len' /\ newline' \in {FALSE, len' > 0}
  <2>1. len' \in 0 .. size - 1 /\ nul' = len' /\ newline' \in {FALSE, len' > 0}
    BY DEF UserEdits
  <2>2. size - 1 = given + 15
    BY <1>4
  <2>. QED
    BY <2>1, <2>2
<1>6. top' \in 0 .. given + 16 /\ (top <= given + 15 <=> top' <= given + 15)
  BY <1>4, <1>5 DEF UserEdits, MaxIndex
<1>7. BufTypeOK'
  <2>1. len' \in Nat /\ len' <= 2600 /\ top' \in Nat
    BY <1>4, <1>5, <1>6, SizeFacts
  <2>2. newline' \in BOOLEAN
    <3>1. newline' = FALSE \/ newline' = (len' > 0)
      BY <1>5
    <3>2. CASE newline' = FALSE
      BY <3>2
    <3>3. CASE newline' = (len' > 0)
      BY <3>3
    <3>. QED
      BY <3>1, <3>2, <3>3
  <2>. QED
    BY <1>1, <1>2, <1>5, <2>1, <2>2, Fits, SlotFits DEF BufInv, BufTypeOK
<1>8. HeldInv'
  <2>1. newline' => len' > 0
    BY <1>5
  <2>2. len' <= given + 15 /\ len' <= given + 16
    BY <1>4, <1>5
  <2>3. UserBefore'
    <3>1. table'[slot] = "user" /\ slot < slot'
      BY <1>1, SizeFacts DEF UserEdits, At, Slots
    <3>. QED
      BY <1>1, <3>1 DEF UserBefore
  <2>4. top' = given + 16 => AutoNewline /\ NewlineBehindUser'
    <3>1. top' = given + 16 => top = given + 16
      BY <1>4, <1>6
    <3>2. NewlineBehindUser => NewlineBehindUser'
      BY <1>1, <1>2, RunStaysRun DEF BufInv
    <3>. QED
      BY <1>2, <3>1, <3>2 DEF BufInv, HeldInv
  <2>. QED
    BY <1>1, <1>2, <1>3, <1>5, <1>6, <2>1, <2>2, <2>3, <2>4 DEF BufInv, HeldInv
<1>. QED
  BY <1>1, <1>7, <1>8 DEF BufInv, OutInv

\* The default handler makes the text one byte longer, and is not called again.
LEMMA DefaultKeeps ==
    ASSUME BufInv, DefaultHandler
    PROVE  BufInv'
<1>. DEFINE grows == AutoNewline /\ ~EndsInNewline
<1>1. slot \in Slots /\ table[slot] = "default" /\ slot' = slot + 1
      /\ UNCHANGED <<table, isUser, given, size>>
  BY DEF DefaultHandler, At
<1>2. Held /\ DefaultPending /\ slot' \in 0 .. MaxHandlers
  BY <1>1, SizeFacts DEF Slots, Held, DefaultPending
<1>3. HeldInv /\ len \in 0 .. given + 15 /\ given \in 1 .. BufSz - 1 /\ out.count = 0
  <2>1. HeldInv /\ BufTypeOK
    BY <1>2 DEF BufInv
  <2>2. given \in 0 .. BufSz - 1 /\ given >= 1 /\ len \in U16
    BY <2>1 DEF HeldInv, BufTypeOK
  <2>3. len <= given + 15 /\ out.count = 0
    BY <1>2, <2>1 DEF HeldInv
  <2>. QED
    BY <2>1, <2>2, <2>3, SizeFacts DEF U16
<1>4. ~DefaultPending'
  <2>1. \A i, j \in Slots : table[i] = "default" /\ table[j] = "default" => i = j
    BY DEF BufInv, BufTypeOK, Tables
  <2>2. ASSUME NEW i \in Slots, i >= slot + 1, table[i] = "default" PROVE FALSE
    BY <1>1, <2>1, <2>2 DEF Slots
  <2>. QED
    BY <1>1, <2>2 DEF DefaultPending
<1>5. size \div 256 # 10
  BY <1>3, SizeFacts DEF HeldInv
<1>6. EndsInNewline => newline
  BY <1>5 DEF EndsInNewline
<1>7. newline' = (grows \/ newline) /\ newline' \in BOOLEAN
  BY DEF DefaultHandler, BufInv, BufTypeOK
<1>8. AutoNewline => newline'
  BY <1>6, <1>7
<1>9. len' \in 0 .. given + 16 /\ nul' = len' /\ top' \in 0 .. given + 16
  <2>1. CASE grows
    BY <1>3, <2>1 DEF DefaultHandler, MaxIndex, HeldInv
  <2>2. CASE ~grows
    BY <1>3, <2>2 DEF DefaultHandler, HeldInv
  <2>. QED
    BY <2>1, <2>2
<1>10. ASSUME top' = given + 16
       PROVE  AutoNewline /\ NewlineBehindUser'
  <2>1. top <= given + 15 /\ top \in 0 .. given + 16
    BY <1>2, <1>3 DEF HeldInv
  <2>2. grows /\ len + 1 = given + 16
    BY <1>3, <1>10, <2>1 DEF DefaultHandler, MaxIndex
  <2>3. UserBefore
    BY <1>2, <1>3, <2>2 DEF HeldInv
  <2>4. NewlineBehindUser'
    BY <1>1, <2>3, SizeFacts DEF UserBefore, NewlineBehindUser, Slots
  <2>. QED
    BY <2>2, <2>4
<1>11. newline' => len' > 0
  <2>1. CASE grows
    BY <1>3, <2>1 DEF DefaultHandler
  <2>2. CASE ~grows
    BY <1>3, <1>7, <2>2 DEF DefaultHandler, HeldInv
  <2>. QED
    BY <2>1, <2>2
<1>12. out' \in [count : Nat, newline : BOOLEAN] /\ OutInv'
  <2>1. out' = out \/ out' = [count |-> 1, newline |-> newline']
    BY <1>3 DEF DefaultHandler
  <2>2. CASE out' = out
    BY <2>2 DEF BufInv, BufTypeOK, OutInv
  <2>3. CASE out' = [count |-> 1, newline |-> newline']
    BY <1>7, <1>8, <2>3 DEF OutInv
  <2>. QED
    BY <2>1, <2>2, <2>3
<1>13. BufTypeOK'
  <2>1. len' \in Nat /\ len' <= 2600 /\ top' \in Nat
    BY <1>3, <1>9, SizeFacts
  <2>. QED
    BY <1>1, <1>2, <1>7, <1>9, <1>12, <2>1, Fits, SlotFits DEF BufInv, BufTypeOK
<1>14. HeldInv'
  BY <1>1, <1>3, <1>4, <1>9, <1>11, <1>10 DEF HeldInv
<1>. QED
  BY <1>12, <1>13, <1>14 DEF BufInv

\* Every step keeps the invariant.
LEMMA BufInvStep == BufInv /\ [BufNext]_bufVars => BufInv'
<1>1. BufInv /\ UNCHANGED bufVars => BufInv'
  BY DEF bufVars, BufInv, BufTypeOK, Held, HeldInv, DefaultPending, UserBefore, NewlineBehindUser,
     OutInv
<1>. QED
  BY <1>1, NewMsgKeeps, LookKeeps, EditKeeps, DefaultKeeps DEF BufNext

\* The inductive invariant of a message's buffer.
THEOREM BufferInvariant == BufSpec => []BufInv
BY BufInvInit, BufInvStep, PTL DEF BufSpec

\* Lengths and sizes keep their 16 bits.
THEOREM BufTypeCorrect == BufSpec => []BufTypeOK
<1>1. BufInv => BufTypeOK
  BY DEF BufInv
<1>. QED
  BY <1>1, BufferInvariant, PTL

\* In whatever slots the handlers are and whatever they write up to the size they
\* are told: the only write beyond the block is the terminator that the default
\* handler moves one byte on, behind a handler of another module.
THEOREM OverrunOnlyNewline == BufSpec => []OverrunIsNewline
<1>1. BufInv => OverrunIsNewline
  BY SizeFacts DEF BufInv, BufTypeOK, HeldInv, OverrunIsNewline, Room, Extra
<1>. QED
  BY <1>1, BufferInvariant, PTL

\* Every handler gets a text that is terminated at its length.
THEOREM TextTerminated == BufSpec => []Terminated
<1>1. BufInv => Terminated
  BY DEF BufInv, HeldInv, Terminated
<1>. QED
  BY <1>1, BufferInvariant, PTL

\* Every message reaches stdout at most once and as a whole line.
THEOREM StdoutGetsLines == BufSpec => []StdoutLines
<1>1. BufInv => StdoutLines
  BY DEF BufInv, OutInv, StdoutLines
<1>. QED
  BY <1>1, BufferInvariant, PTL
=============================================================================
