------------------------------- MODULE MsgList -------------------------------
(***************************************************************************)
(* msg.c: the queue of formatted messages, a singly linked list of blocks  *)
(* allocated from the pool g_vplid.                                        *)
(*                                                                         *)
(* The Kprintf handler appends to the list with interrupts disabled, so    *)
(* new_msg and add_msg together are one step (Enqueue).  The events thread *)
(* runs flush_messages with interrupts enabled, so every access it makes   *)
(* to shared memory is a step of its own, except the unlinking and freeing *)
(* in remove_delete_msg, which suspends interrupts.                        *)
(*                                                                         *)
(* A message's text, length and origin are one value of Body.  The pool is *)
(* the set Addr of blocks it can hold.  Its allocator may refuse any       *)
(* request; the message is then lost and nothing changes.                  *)
(***************************************************************************)
EXTENDS Naturals, Sequences, FiniteSets

CONSTANTS
    Addr,   \* blocks of the pool
    Body,   \* contents of a message
    NULL,   \* the null pointer
    NoMsg   \* "no message" in the abstract queue

ASSUME MsgAssumption ==
    /\ IsFiniteSet(Addr)
    /\ NULL \notin Addr
    /\ NoMsg \notin Body
    /\ Addr # {}
    /\ Body # {}

VARIABLES
    g_head,  \* first message of the queue
    used,    \* blocks allocated from the pool
    next,    \* kprintf_msg_t.next of every block
    body,    \* isUser, len and msg of every block
    fpc,     \* where the events thread is in flush_messages
    m, n     \* its local pointers

listVars  == <<g_head, used, next, body>>
flushVars == <<fpc, m, n>>
msgVars   == <<g_head, used, next, body, fpc, m, n>>

Ptr == Addr \cup {NULL}

FlushPc == {"idle", "invoke", "next", "check", "remove", "advance"}

MsgTypeOK ==
    /\ g_head \in Ptr
    /\ used \subseteq Addr
    /\ next \in [Addr -> Ptr]
    /\ body \in [Addr -> Body]
    /\ fpc \in FlushPc
    /\ m \in Ptr
    /\ n \in Ptr

MsgInit ==
    /\ g_head = NULL
    /\ used = {}
    /\ next = [a \in Addr |-> NULL]
    /\ body \in [Addr -> Body]
    /\ fpc = "idle"
    /\ m = NULL
    /\ n = NULL

(***************************************************************************)
(* The blocks that a loop "for (cur = g_head; cur; cur = cur->next)"       *)
(* visits: the least set that holds g_head and is closed under next.       *)
(***************************************************************************)
HoldsList(S) ==
    /\ g_head # NULL => g_head \in S
    /\ \A a \in S : next[a] # NULL => next[a] \in S

Linked == {a \in Addr : \A S \in SUBSET Addr : HoldsList(S) => a \in S}

(***************************************************************************)
(* kprintf_handler's new_msg and add_msg: take a free block, clear it, and *)
(* hang it behind the last block of the list.                              *)
(***************************************************************************)

\* Mutant of AddMsg: the new block's next pointer keeps its old value.
AddMsgUncleared(a) ==
    \/ /\ g_head = NULL
       /\ g_head' = a
       /\ UNCHANGED next
    \/ \E last \in Linked :
          /\ next[last] = NULL
          /\ next' = [next EXCEPT ![last] = a]
          /\ UNCHANGED g_head

\* Mutant of AddMsg: the new block goes to the front of the list.
AddMsgAtFront(a) ==
    /\ g_head' = a
    /\ next' = [next EXCEPT ![a] = g_head]

AddMsg(a) ==
    \/ /\ g_head = NULL
       /\ g_head' = a
       /\ next' = [next EXCEPT ![a] = NULL]
    \/ \E last \in Linked :
          /\ next[last] = NULL
          /\ next' = [next EXCEPT ![a] = NULL, ![last] = a]
          /\ UNCHANGED g_head

\* Mutant of Enqueue: the result of the allocation is not checked.
EnqueueUnchecked(b) ==
    \E a \in IF used = Addr THEN {NULL} ELSE Addr \ used :
        /\ used' = used \cup {a}
        /\ body' = [body EXCEPT ![a] = b]
        /\ AddMsg(a)
        /\ UNCHANGED flushVars

Enqueue(b) ==
    \E a \in Addr \ used :
        /\ used' = used \cup {a}
        /\ body' = [body EXCEPT ![a] = b]
        /\ AddMsg(a)
        /\ UNCHANGED flushVars

(***************************************************************************)
(* flush_messages, called by the events thread.                            *)
(***************************************************************************)

\* m = g_head; while (m != NULL)
FlushBegin ==
    /\ fpc = "idle"
    /\ m' = g_head
    /\ fpc' = IF g_head = NULL THEN "idle" ELSE "invoke"
    /\ UNCHANGED <<listVars, n>>

\* invoke_handlers(m) returns
FlushInvoked ==
    /\ fpc = "invoke"
    /\ fpc' = "next"
    /\ UNCHANGED <<listVars, m, n>>

\* n = m->next, with interrupts enabled
FlushReadNext ==
    /\ fpc = "next"
    /\ n' = next[m]
    /\ fpc' = "check"
    /\ UNCHANGED <<listVars, m>>

\* remove_delete_msg: if (g_head == NULL) return 0, with interrupts enabled
FlushCheckHead ==
    /\ fpc = "check"
    /\ fpc' = IF g_head = NULL THEN "advance" ELSE "remove"
    /\ UNCHANGED <<listVars, m, n>>

\* remove_delete_msg between sceKernelCpuSuspendIntr and ...ResumeIntr

\* Mutant of Unlink: only the previous block is redirected, never g_head.
UnlinkNotHead(a) ==
    IF g_head = a
    THEN UNCHANGED <<g_head, next>>
    ELSE \E prev \in Linked :
            /\ next[prev] = a
            /\ next' = [next EXCEPT ![prev] = next[a]]
            /\ UNCHANGED g_head

Unlink(a) ==
    IF g_head = a
    THEN g_head' = next[a] /\ UNCHANGED next
    ELSE \E prev \in Linked :
            /\ next[prev] = a
            /\ next' = [next EXCEPT ![prev] = next[a]]
            /\ UNCHANGED g_head

RemoveDelete(a) ==
    IF a \in Linked
    THEN Unlink(a) /\ used' = used \ {a}
    ELSE UNCHANGED <<g_head, next, used>>

FlushRemove ==
    /\ fpc = "remove"
    /\ RemoveDelete(m)
    /\ fpc' = "advance"
    /\ UNCHANGED <<body, m, n>>

\* m = n; while (m != NULL)
FlushAdvance ==
    /\ fpc = "advance"
    /\ m' = n
    /\ fpc' = IF n = NULL THEN "idle" ELSE "invoke"
    /\ UNCHANGED <<listVars, n>>

FlushStep ==
    \/ FlushBegin
    \/ FlushInvoked
    \/ FlushReadNext
    \/ FlushCheckHead
    \/ FlushRemove
    \/ FlushAdvance

MsgNext == (\E b \in Body : Enqueue(b)) \/ FlushStep

(***************************************************************************)
(* The events thread runs whenever it is ready: it has a higher priority   *)
(* than the threads that print, and it calls flush_messages again for      *)
(* every flush event.                                                      *)
(***************************************************************************)
MsgSpec == MsgInit /\ [][MsgNext]_msgVars /\ WF_msgVars(FlushStep)

-----------------------------------------------------------------------------
(***************************************************************************)
(* The list as a sequence of blocks.                                       *)
(***************************************************************************)
IsChain(p) ==
    /\ g_head = IF p = <<>> THEN NULL ELSE p[1]
    /\ \A i \in 1 .. Len(p) : next[p[i]] = IF i = Len(p) THEN NULL ELSE p[i + 1]

NoRepeats(p) == \A i, j \in 1 .. Len(p) : p[i] = p[j] => i = j

Blocks(p) == {p[i] : i \in 1 .. Len(p)}

\* The sequences that can list the allocated blocks.
Listings == [1 .. Cardinality(used) -> used]

(***************************************************************************)
(* The flusher holds pointers it has to be able to follow: m is the first  *)
(* block of the list, and n is the second one or NULL.  n may be NULL      *)
(* although a second block exists: the handler appended it after n was     *)
(* read.                                                                   *)
(***************************************************************************)
OnMsg == {"invoke", "next", "check", "remove"}

FlusherOn(p) ==
    /\ fpc \in OnMsg => p # <<>> /\ m = p[1]
    /\ fpc \in {"check", "remove"} => n = NULL \/ (Len(p) > 1 /\ n = p[2])
    /\ fpc = "advance" => n = NULL \/ (p # <<>> /\ n = p[1])

ListShape(p) ==
    /\ IsChain(p)
    /\ NoRepeats(p)
    /\ Blocks(p) = used
    /\ FlusherOn(p)

\* The list built by add_msg and remove_delete_msg is all of the allocated
\* blocks in one piece, whatever the handler appends between two steps of
\* flush_messages: no block is lost from the pool, linked twice, or linked
\* after it was freed, and the flusher's pointers are into the list.
MsgShape == \E p \in Listings : ListShape(p)

\* flush_messages follows m only while the block is allocated, and goes on
\* with an n that is allocated: no use after remove_delete_msg's free.
NoUseAfterFree ==
    /\ fpc \in OnMsg => m \in used
    /\ fpc = "advance" => n = NULL \/ n \in used

(***************************************************************************)
(* The list implements the abstract queue: its blocks in list order hold   *)
(* the accepted messages, and the block the handlers run on is current.    *)
(***************************************************************************)
Chain == CHOOSE p \in Listings : IsChain(p)

Queued  == [i \in 1 .. Len(Chain) |-> body[Chain[i]]]
Current == IF fpc \in OnMsg THEN body[m] ELSE NoMsg

Fifo == INSTANCE MsgFifo WITH
    queue <- Queued,
    current <- Current,
    Capacity <- Cardinality(Addr)

\* Accepted messages reach the sub-handlers once each, in the order Kprintf
\* accepted them, and each one is eventually removed: the pointer code of
\* msg.c implements the abstract queue, also while the handler appends
\* behind the message that is being flushed.
FifoQueue == Fifo!FifoSpec
=============================================================================
