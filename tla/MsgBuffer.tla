------------------------------ MODULE MsgBuffer ------------------------------
(***************************************************************************)
(* The buffer of one message, from kprintf_handler and new_msg through the *)
(* handlers of invoke_handlers.  MsgList takes a message's content for one *)
(* value; here it is numbers: the length and the size that handlers see    *)
(* (unsigned shorts), where the terminating NUL is, whether the last       *)
(* character is a newline, and the highest index of msg[] written so far.  *)
(*                                                                         *)
(* Handlers of other modules are external.  They may use the whole buffer, *)
(* whose capacity is the size they are told ("Maximum capacity in bytes of *)
(* the message buffer", kprintf.h), for a text and its NUL.                *)
(***************************************************************************)
EXTENDS Integers, FiniteSets

CONSTANTS
    MaxHandlers,  \* KPRINTF_MAX_HANDLERS
    BufSz,        \* KPRINTF_BUFSZ
    AutoNewline,  \* KPRINTF_DH_AUTO_NEWLINE
    WriteKprintf, \* KPRINTF_DH_WRITE_KPRINTF
    WritePrintf   \* KPRINTF_DH_WRITE_PRINTF

\* The high byte of no size is then the code of a newline, and sizes fit 16 bits.
ASSUME BufferAssumption ==
    /\ MaxHandlers \in Nat
    /\ BufSz \in 1 .. 2544
    /\ AutoNewline \in BOOLEAN
    /\ WriteKprintf \in BOOLEAN
    /\ WritePrintf \in BOOLEAN

VARIABLES
    slot,    \* i of invoke_handlers, -1 while there is no message
    table,   \* what is registered in each slot
    isUser,  \* kprintf_msg_t.isUser
    given,   \* length of the formatted text
    len,     \* kprintf_msg_t.len
    size,    \* kprintf_msg_t.size
    nul,     \* index of the terminating NUL
    newline, \* the text is not empty and ends in a newline
    top,     \* highest index of msg[] that was written
    out      \* what the default handler wrote to stdout: number of writes, newline

bufVars == <<slot, table, isUser, given, len, size, nul, newline, top, out>>

Slots == 0 .. MaxHandlers - 1

\* The default handler is registered once at most (HandlerTable).
Tables ==
    {t \in [Slots -> {"none", "user", "default"}] :
        \A i, j \in Slots : t[i] = "default" /\ t[j] = "default" => i = j}

Unwritten == [count |-> 0, newline |-> TRUE]

U16 == 0 .. 2 ^ 16 - 1
Extra == 14

\* Mutant of Room: the text and its NUL only.
RoomTextOnly(n) == n + 1

\* KPRINTF_MSG_SIZE: the text, its NUL, a newline and the extra bytes
Room(n) == n + 1 + 1 + Extra

BufTypeOK ==
    /\ slot \in -1 .. MaxHandlers
    /\ table \in Tables
    /\ isUser \in BOOLEAN
    /\ given \in 0 .. BufSz - 1
    /\ len \in U16
    /\ size \in U16
    /\ nul \in Nat
    /\ newline \in BOOLEAN
    /\ top \in Nat
    /\ out \in [count : Nat, newline : BOOLEAN]

BufInit ==
    /\ slot = -1
    /\ table = [i \in Slots |-> "none"]
    /\ isUser = FALSE
    /\ given = 0
    /\ len = 0
    /\ size = 0
    /\ nul = 0
    /\ newline = FALSE
    /\ top = 0
    /\ out = Unwritten

(***************************************************************************)
(* kprintf_handler formats n characters, and new_msg copies them.  An empty*)
(* or cut off text, or a full pool, leaves no message.                     *)
(***************************************************************************)
NewMsg(n) ==
    /\ given' = n
    /\ len' = n
    /\ size' = Room(n) % 65536
    /\ nul' = n
    /\ newline' \in BOOLEAN
    /\ top' = n

\* Mutant of KprintfHandler: a text as long as the buffer is taken for complete.
KprintfHandlerTruncated(n) ==
    /\ slot = -1
    /\ n > 0 /\ n <= BufSz
    /\ NewMsg(n)
    /\ isUser' \in BOOLEAN
    /\ slot' = 0
    /\ table' \in Tables
    /\ out' = Unwritten

KprintfHandler(n) ==
    /\ slot = -1
    /\ n > 0 /\ n < BufSz
    /\ NewMsg(n)
    /\ isUser' \in BOOLEAN
    /\ slot' = 0
    /\ table' \in Tables
    /\ out' = Unwritten

-----------------------------------------------------------------------------
(***************************************************************************)
(* invoke_handlers.                                                        *)
(***************************************************************************)
At(kind) == slot \in Slots /\ table[slot] = kind

SkipFree ==
    /\ At("none")
    /\ slot' = slot + 1
    /\ UNCHANGED <<table, isUser, given, len, size, nul, newline, top, out>>

\* KPRINTF_MSG_OK passes the message on, KPRINTF_MSG_STOP ends the loop.
Returns == slot' \in {slot + 1, MaxHandlers}

UserLooks ==
    /\ At("user")
    /\ Returns
    /\ UNCHANGED <<table, isUser, given, len, size, nul, newline, top, out>>

MaxIndex(a, b) == IF a >= b THEN a ELSE b

\* A handler rewrites the text, terminates it and sets its length.  No more than
\* the size of the buffer holds it back, which counts the terminating NUL.
UserEdits ==
    /\ At("user")
    /\ len' \in 0 .. size - 1
    /\ newline' \in {FALSE, len' > 0}
    /\ nul' = len'
    /\ top' = MaxIndex(top, len')
    /\ Returns
    /\ UNCHANGED <<table, isUser, given, size, out>>

\* msg[len - 1] of an empty text is the high byte of size, the field before msg.
EndsInNewline == IF len = 0 THEN size \div 256 = 10 ELSE newline

CanWrite == IF isUser THEN WritePrintf ELSE WriteKprintf

\* Mutant of DefaultHandler: the text is written as it came, then completed.
DefaultHandlerWritesFirst ==
    LET grows == AutoNewline /\ ~EndsInNewline IN
    /\ At("default")
    /\ len' = IF grows THEN len + 1 ELSE len
    /\ nul' = IF grows THEN len + 1 ELSE nul
    /\ newline' = (grows \/ newline)
    /\ top' = IF grows THEN MaxIndex(top, len + 1) ELSE top
    /\ out' = IF CanWrite THEN [count |-> out.count + 1, newline |-> newline] ELSE out
    /\ slot' = slot + 1
    /\ UNCHANGED <<table, isUser, given, size>>

\* Mutant of DefaultHandler: the text is completed but *pLen keeps its value.
DefaultHandlerKeepsLen ==
    LET grows == AutoNewline /\ ~EndsInNewline IN
    /\ At("default")
    /\ nul' = IF grows THEN len + 1 ELSE nul
    /\ newline' = (grows \/ newline)
    /\ top' = IF grows THEN MaxIndex(top, len + 1) ELSE top
    /\ out' = IF CanWrite THEN [count |-> out.count + 1, newline |-> newline'] ELSE out
    /\ slot' = slot + 1
    /\ UNCHANGED <<table, isUser, given, len, size>>

\* default_file_handler
DefaultHandler ==
    LET grows == AutoNewline /\ ~EndsInNewline IN
    /\ At("default")
    /\ len' = IF grows THEN len + 1 ELSE len
    /\ nul' = IF grows THEN len + 1 ELSE nul
    /\ newline' = (grows \/ newline)
    /\ top' = IF grows THEN MaxIndex(top, len + 1) ELSE top
    /\ out' = IF CanWrite THEN [count |-> out.count + 1, newline |-> newline'] ELSE out
    /\ slot' = slot + 1
    /\ UNCHANGED <<table, isUser, given, size>>

\* The loop ends, and flush_messages frees the block.
Remove ==
    /\ slot = MaxHandlers
    /\ slot' = -1
    /\ UNCHANGED <<table, isUser, given, len, size, nul, newline, top, out>>

BufNext ==
    \/ \E n \in -1 .. BufSz + 1 : KprintfHandler(n)
    \/ SkipFree
    \/ UserLooks
    \/ UserEdits
    \/ DefaultHandler
    \/ Remove

BufSpec == BufInit /\ [][BufNext]_bufVars

-----------------------------------------------------------------------------
Held == slot # -1

\* "Maximum capacity in bytes of the message buffer" (kprintf.h): no write to msg[]
\* goes beyond the block that new_msg allocated.  The default handler does not look
\* at the size: behind a handler that filled the buffer its newline takes the place
\* of the NUL, and the new NUL is written one byte past the block.
InBuffer == Held => top < Room(given)

\* The default handler has run behind a handler that may have filled the buffer.
NewlineBehindUser ==
    \E u, d \in Slots : u < d /\ d < slot /\ table[u] = "user" /\ table[d] = "default"

\* That is the only write beyond the block, and one byte is all: whatever handlers in
\* front of and behind the default handler do with the size they are told, which
\* is the block's, everything else stays in the block, and without the newline option
\* or without a handler in front of the default handler everything does.
OverrunIsNewline ==
    Held =>
        /\ size = Room(given)
        /\ top <= size
        /\ top = size => AutoNewline /\ NewlineBehindUser

\* Every handler gets a text that is terminated at its length, also behind the
\* default handler, which may have made it longer.
Terminated == Held => nul = len

\* "Automatically append a newline to messages that don't have one"
\* (config.cmake): what reaches stdout ends in a newline, for an emptied message
\* too, and no message reaches it twice.
StdoutLines == out.count <= 1 /\ (AutoNewline => out.newline)
=============================================================================
