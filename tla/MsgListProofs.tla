---------------------------- MODULE MsgListProofs ----------------------------
(***************************************************************************)
(* Proofs about the message list, for every pool and every set of message  *)
(* contents.  The inductive invariant says that some sequence of blocks is *)
(* the list: it is what relates the flusher's two pointers to the blocks   *)
(* that the handler appends behind its back.                               *)
(***************************************************************************)
EXTENDS MsgList, TLAPS, SequenceTheorems, FiniteSetTheorems, WellFoundedInduction

ListInv ==
    /\ MsgTypeOK
    /\ \E p \in Seq(Addr) : ListShape(p)

\* The blocks a list loop visits are the blocks of the list: nothing outside
\* it is reached, so add_msg and remove_delete_msg touch allocated blocks only.
LEMMA LinkedInList ==
    ASSUME NEW p \in Seq(Addr), IsChain(p)
    PROVE  Linked \subseteq Blocks(p)
<1>1. HoldsList(Blocks(p))
  BY DEF HoldsList, Blocks, IsChain
<1>2. Blocks(p) \in SUBSET Addr
  BY DEF Blocks
<1>. QED
  BY <1>1, <1>2 DEF Linked

\* The first block of a nonempty list is visited by every list loop.
LEMMA HeadLinked ==
    ASSUME MsgTypeOK, g_head # NULL
    PROVE  g_head \in Linked
BY DEF Linked, HoldsList, MsgTypeOK, Ptr

\* Appending a free block to the list keeps its shape.
LEMMA EnqueueAppends ==
    ASSUME MsgTypeOK,
           NEW p \in Seq(Addr), ListShape(p),
           NEW b \in Body,
           NEW a \in Addr \ used,
           used' = used \cup {a},
           body' = [body EXCEPT ![a] = b],
           AddMsg(a),
           UNCHANGED flushVars
    PROVE  MsgTypeOK' /\ ListShape(Append(p, a))'
<1>. USE MsgAssumption
<1>1. ListShape(p)
  OBVIOUS
<1>2. /\ used' = used \cup {a}
      /\ body' = [body EXCEPT ![a] = b]
      /\ AddMsg(a)
      /\ UNCHANGED flushVars
  OBVIOUS
<1>. DEFINE q == Append(p, a)
<1>3. /\ q \in Seq(Addr)
      /\ Len(q) = Len(p) + 1
      /\ \A i \in 1 .. Len(p) : q[i] = p[i] /\ p[i] \in used
      /\ q[Len(p) + 1] = a
      /\ \A i \in 1 .. Len(p) : p[i] # a
  BY <1>1 DEF ListShape, Blocks
<1>4. MsgTypeOK'
  <2>1. UNCHANGED <<fpc, m, n>> /\ used' \subseteq Addr /\ body' \in [Addr -> Body]
    BY <1>2 DEF MsgTypeOK, flushVars
  <2>2. g_head' \in Ptr /\ next' \in [Addr -> Ptr]
    BY <1>2 DEF MsgTypeOK, AddMsg, Ptr, Linked
  <2>. QED
    BY <2>1, <2>2 DEF MsgTypeOK
<1>5. IsChain(q)'
  <2>1. CASE g_head = NULL
    <3>1. p = <<>>
      BY <1>1, <2>1 DEF ListShape, IsChain
    <3>2. g_head' = a /\ next' = [next EXCEPT ![a] = NULL]
      <4>1. Linked \subseteq Blocks(p)
        BY <1>1, LinkedInList DEF ListShape
      <4>2. Blocks(p) = {}
        BY <3>1 DEF Blocks
      <4>. QED
        BY <1>2, <4>1, <4>2 DEF AddMsg
    <3>. QED
      BY <1>3, <3>1, <3>2 DEF IsChain, MsgTypeOK
  <2>2. CASE g_head # NULL
    <3>1. PICK last \in Linked :
             /\ next[last] = NULL
             /\ next' = [next EXCEPT ![a] = NULL, ![last] = a]
             /\ UNCHANGED g_head
      BY <1>2, <2>2 DEF AddMsg
    <3>2. PICK k \in 1 .. Len(p) : last = p[k]
      BY <1>1, LinkedInList DEF ListShape, Blocks
    <3>3. k = Len(p)
      BY <1>1, <3>1, <3>2 DEF ListShape, IsChain
    <3>4. \A i \in 1 .. Len(p) : p[i] = last => i = Len(p)
      BY <1>1, <3>2, <3>3 DEF ListShape, NoRepeats
    <3>5. \A i \in 1 .. Len(q) :
             next'[q[i]] = IF i = Len(q) THEN NULL ELSE q[i + 1]
      BY <1>1, <1>3, <3>1, <3>2, <3>3, <3>4 DEF ListShape, IsChain, MsgTypeOK
    <3>6. g_head' = q[1] /\ q # <<>>
      BY <1>1, <1>3, <3>1, <3>2 DEF ListShape, IsChain
    <3>. QED
      BY <3>5, <3>6 DEF IsChain
  <2>. QED
    BY <2>1, <2>2
<1>6. NoRepeats(q) /\ Blocks(q) = used'
  <2>1. NoRepeats(q)
    BY <1>1, <1>3 DEF ListShape, NoRepeats
  <2>2. Blocks(q) = Blocks(p) \cup {a}
    BY <1>3 DEF Blocks
  <2>. QED
    BY <1>1, <1>2, <2>1, <2>2 DEF ListShape
<1>7. FlusherOn(q)'
  BY <1>1, <1>2, <1>3 DEF ListShape, FlusherOn, flushVars, OnMsg
<1>. QED
  BY <1>3, <1>4, <1>5, <1>6, <1>7 DEF ListShape, NoRepeats, Blocks

\* So it keeps the invariant.
LEMMA EnqueueKeepsList ==
    ASSUME ListInv, NEW b \in Body, Enqueue(b)
    PROVE  ListInv'
<1>1. PICK p \in Seq(Addr) : ListShape(p)
  BY DEF ListInv
<1>2. PICK a \in Addr \ used :
         /\ used' = used \cup {a}
         /\ body' = [body EXCEPT ![a] = b]
         /\ AddMsg(a)
         /\ UNCHANGED flushVars
  BY DEF Enqueue
<1>3. MsgTypeOK' /\ ListShape(Append(p, a))'
  BY <1>1, <1>2, EnqueueAppends DEF ListInv
<1>4. Append(p, a) \in Seq(Addr)
  OBVIOUS
<1>. QED
  BY <1>3, <1>4 DEF ListInv

\* Unlinking and freeing the flushed message leaves the rest of the list,
\* whether or not the handler appended to it since n was read.
LEMMA RemoveTakesFirst ==
    ASSUME MsgTypeOK,
           NEW p \in Seq(Addr), ListShape(p),
           FlushRemove
    PROVE  /\ p # <<>> /\ m = p[1]
           /\ MsgTypeOK'
           /\ \E q \in Seq(Addr) :
                 /\ ListShape(q)'
                 /\ Len(p) = Len(q) + 1
                 /\ \A i \in 1 .. Len(q) : q[i] = p[i + 1]
<1>. USE MsgAssumption
<1>1. ListShape(p)
  OBVIOUS
<1>2. p # <<>> /\ m = p[1] /\ g_head = m /\ m \in Addr
  BY <1>1 DEF FlushRemove, ListShape, FlusherOn, OnMsg, IsChain
<1>3. PICK q \in Seq(Addr) :
        /\ Len(p) \in Nat /\ Len(q) \in Nat
        /\ Len(p) = Len(q) + 1
        /\ \A i \in 1 .. Len(q) : q[i] = p[i + 1]
        /\ q = <<>> <=> Len(q) = 0
  <2>1. /\ Tail(p) \in Seq(Addr)
        /\ Len(p) \in Nat /\ Len(Tail(p)) \in Nat
        /\ Len(p) = Len(Tail(p)) + 1
        /\ \A i \in 1 .. Len(Tail(p)) : Tail(p)[i] = p[i + 1]
    BY <1>2
  <2>2. Tail(p) = <<>> <=> Len(Tail(p)) = 0
    BY <2>1, EmptySeq
  <2>. QED
    BY <2>1, <2>2
<1>4. m \in Linked
  BY <1>2, HeadLinked
<1>5. /\ g_head' = next[m]
      /\ used' = used \ {m}
      /\ fpc = "remove" /\ fpc' = "advance"
      /\ UNCHANGED <<next, body, m, n>>
  BY <1>2, <1>4 DEF FlushRemove, RemoveDelete, Unlink
<1>6. MsgTypeOK'
  BY <1>2, <1>5 DEF MsgTypeOK, FlushPc, Ptr
<1>7. IsChain(q)'
  <2>1. ASSUME NEW i \in 1 .. Len(q)
        PROVE  next'[q[i]] = IF i = Len(q) THEN NULL ELSE q[i + 1]
    <3>1. /\ i + 1 \in 1 .. Len(p)
          /\ i + 1 = Len(p) <=> i = Len(q)
          /\ q[i] = p[i + 1]
          /\ i # Len(q) => q[i + 1] = p[i + 1 + 1]
      BY <1>3
    <3>2. next[p[i + 1]] = IF i + 1 = Len(p) THEN NULL ELSE p[i + 1 + 1]
      BY <1>1, <3>1 DEF ListShape, IsChain
    <3>. QED
      BY <1>5, <3>1, <3>2
  <2>2. g_head' = IF q = <<>> THEN NULL ELSE q[1]
    <3>1. next[p[1]] = IF 1 = Len(p) THEN NULL ELSE p[1 + 1]
      BY <1>1, <1>3 DEF ListShape, IsChain
    <3>2. Len(p) # 1 => q # <<>> /\ q[1] = p[1 + 1]
      BY <1>3
    <3>3. Len(p) = 1 => q = <<>>
      BY <1>3
    <3>. QED
      BY <1>2, <1>5, <3>1, <3>2, <3>3
  <2>. QED
    BY <2>1, <2>2 DEF IsChain
<1>8. NoRepeats(q) /\ Blocks(q) = used'
  <2>1. NoRepeats(q)
    <3>1. SUFFICES ASSUME NEW i \in 1 .. Len(q), NEW j \in 1 .. Len(q), q[i] = q[j]
                   PROVE  i = j
      BY DEF NoRepeats
    <3>2. /\ i + 1 \in 1 .. Len(p) /\ j + 1 \in 1 .. Len(p)
          /\ p[i + 1] = p[j + 1]
      BY <1>3, <3>1
    <3>3. i + 1 = j + 1
      BY <1>1, <3>2 DEF ListShape, NoRepeats
    <3>. QED
      BY <3>3
  <2>2. ASSUME NEW x \in Blocks(q)
        PROVE  x \in used \ {m}
    <3>1. PICK i \in 1 .. Len(q) : x = q[i]
      BY DEF Blocks
    <3>2. x = p[i + 1] /\ i + 1 \in 1 .. Len(p) /\ i + 1 # 1 /\ 1 \in 1 .. Len(p)
      BY <1>3, <3>1
    <3>. QED
      BY <1>1, <1>2, <3>2 DEF ListShape, NoRepeats, Blocks
  <2>3. ASSUME NEW x \in used \ {m}
        PROVE  x \in Blocks(q)
    <3>1. PICK i \in 1 .. Len(p) : x = p[i]
      BY <1>1 DEF ListShape, Blocks
    <3>2. i # 1
      BY <1>2, <3>1
    <3>3. i - 1 \in 1 .. Len(q) /\ q[i - 1] = x
      BY <1>3, <3>1, <3>2
    <3>. QED
      BY <3>3 DEF Blocks
  <2>. QED
    BY <1>5, <2>1, <2>2, <2>3
<1>9. FlusherOn(q)'
  <2>1. n = NULL \/ (Len(p) > 1 /\ n = p[2])
    BY <1>1, <1>5 DEF ListShape, FlusherOn
  <2>2. n = NULL \/ (q # <<>> /\ n = q[1])
    <3>1. Len(p) > 1 => q # <<>> /\ q[1] = p[2]
      BY <1>3
    <3>. QED
      BY <2>1, <3>1
  <2>. QED
    BY <1>5, <2>2 DEF FlusherOn, OnMsg
<1>10. ListShape(q)'
  BY <1>7, <1>8, <1>9 DEF ListShape, NoRepeats, Blocks
<1>. QED
  BY <1>2, <1>3, <1>6, <1>10

\* So it keeps the invariant.
LEMMA RemoveKeepsList ==
    ASSUME ListInv, FlushRemove
    PROVE  ListInv'
<1>1. PICK p \in Seq(Addr) : ListShape(p)
  BY DEF ListInv
<1>. QED
  BY <1>1, RemoveTakesFirst DEF ListInv

\* The other steps of flush_messages only move its local pointers along the
\* list; what they need is that the pointers are into it.
LEMMA LocalStepsKeepShape ==
    ASSUME MsgTypeOK,
           NEW p \in Seq(Addr), ListShape(p),
           \/ FlushBegin
           \/ FlushInvoked
           \/ FlushReadNext
           \/ FlushCheckHead
           \/ FlushAdvance
    PROVE  MsgTypeOK' /\ ListShape(p)'
<1>. USE MsgAssumption
<1>1. ListShape(p)
  OBVIOUS
<1>2. UNCHANGED listVars
  BY DEF FlushBegin, FlushInvoked, FlushReadNext, FlushCheckHead, FlushAdvance
<1>3. IsChain(p)' /\ NoRepeats(p)' /\ (Blocks(p) = used)'
  BY <1>1, <1>2 DEF listVars, ListShape, IsChain, NoRepeats, Blocks
<1>4. \A i \in 1 .. Len(p) : p[i] \in Addr /\ p[i] # NULL
  OBVIOUS
<1>5. MsgTypeOK' /\ FlusherOn(p)'
  <2>1. CASE FlushBegin
    BY <1>1, <1>2, <2>1 DEF FlushBegin, listVars, MsgTypeOK, FlushPc, Ptr,
       ListShape, IsChain, FlusherOn, OnMsg
  <2>2. CASE FlushInvoked
    BY <1>1, <1>2, <2>2 DEF FlushInvoked, listVars, MsgTypeOK, FlushPc, Ptr,
       ListShape, FlusherOn, OnMsg
  <2>3. CASE FlushReadNext
    <3>1. p # <<>> /\ m = p[1] /\ 1 \in 1 .. Len(p)
      BY <1>1, <2>3 DEF FlushReadNext, ListShape, FlusherOn, OnMsg
    <3>2. next[m] = NULL \/ (Len(p) > 1 /\ next[m] = p[2])
      BY <1>1, <3>1 DEF ListShape, IsChain
    <3>3. n' = next[m] /\ fpc' = "check" /\ UNCHANGED m
      BY <2>3 DEF FlushReadNext
    <3>4. MsgTypeOK'
      BY <1>2, <3>1, <3>3 DEF listVars, MsgTypeOK, FlushPc, Ptr
    <3>. QED
      BY <3>1, <3>2, <3>3, <3>4 DEF FlusherOn, OnMsg
  <2>4. CASE FlushCheckHead
    <3>1. g_head # NULL
      BY <1>1, <1>4, <2>4 DEF FlushCheckHead, ListShape, IsChain, FlusherOn, OnMsg
    <3>. QED
      BY <1>1, <1>2, <2>4, <3>1 DEF FlushCheckHead, listVars, MsgTypeOK,
         FlushPc, Ptr, ListShape, FlusherOn, OnMsg
  <2>5. CASE FlushAdvance
    BY <1>1, <1>2, <2>5 DEF FlushAdvance, listVars, MsgTypeOK, FlushPc, Ptr,
       ListShape, FlusherOn, OnMsg
  <2>. QED
    BY <2>1, <2>2, <2>3, <2>4, <2>5
<1>. QED
  BY <1>3, <1>5 DEF ListShape

\* So they keep the invariant.
LEMMA LocalStepsKeepList ==
    ASSUME ListInv,
           \/ FlushBegin
           \/ FlushInvoked
           \/ FlushReadNext
           \/ FlushCheckHead
           \/ FlushAdvance
    PROVE  ListInv'
BY LocalStepsKeepShape DEF ListInv

\* The empty list that init leaves satisfies the invariant.
LEMMA ListInvInit == MsgInit => ListInv
<1>. SUFFICES ASSUME MsgInit PROVE ListInv
  OBVIOUS
<1>1. MsgTypeOK
  BY DEF MsgInit, MsgTypeOK, Ptr, FlushPc
<1>2. ListShape(<<>>)
  BY DEF MsgInit, ListShape, IsChain, NoRepeats, Blocks, FlusherOn, OnMsg
<1>3. <<>> \in Seq(Addr)
  OBVIOUS
<1>. QED
  BY <1>1, <1>2, <1>3 DEF ListInv

\* Every step of msg.c keeps the invariant.
LEMMA ListInvStep == ListInv /\ [MsgNext]_msgVars => ListInv'
<1>. SUFFICES ASSUME ListInv, [MsgNext]_msgVars PROVE ListInv'
  OBVIOUS
<1>1. CASE \E b \in Body : Enqueue(b)
  BY <1>1, EnqueueKeepsList
<1>2. CASE FlushRemove
  BY <1>2, RemoveKeepsList
<1>3. CASE FlushBegin \/ FlushInvoked \/ FlushReadNext \/ FlushCheckHead \/ FlushAdvance
  BY <1>3, LocalStepsKeepList
<1>4. CASE UNCHANGED msgVars
  BY <1>4 DEF msgVars, ListInv, MsgTypeOK, ListShape, IsChain, NoRepeats, Blocks,
     FlusherOn
<1>. QED
  BY <1>1, <1>2, <1>3, <1>4 DEF MsgNext, FlushStep

\* The inductive invariant of msg.c.
THEOREM ListInvariant == MsgSpec => []ListInv
BY ListInvInit, ListInvStep, PTL DEF MsgSpec

\* The pointers and program counter of msg.c always have their types.
THEOREM MsgTypeCorrect == MsgSpec => []MsgTypeOK
<1>1. ListInv => MsgTypeOK
  BY DEF ListInv
<1>. QED
  BY <1>1, ListInvariant, PTL

\* flush_messages and remove_delete_msg never follow a freed block, for every
\* pool and however the handler's appends fall between their steps.
THEOREM MsgNoUseAfterFree == MsgSpec => []NoUseAfterFree
<1>1. ListInv => NoUseAfterFree
  BY DEF ListInv, ListShape, FlusherOn, NoUseAfterFree, Blocks
<1>. QED
  BY <1>1, ListInvariant, PTL

\* A sequence that lists the allocated blocks is one of the Listings, and it is
\* as long as there are allocated blocks.
LEMMA ShapeIsListing ==
    ASSUME NEW p \in Seq(Addr), ListShape(p)
    PROVE  /\ p \in Listings
           /\ Len(p) = Cardinality(used)
           /\ IsFiniteSet(used)
<1>1. p \in [1 .. Len(p) -> used] /\ Len(p) \in Nat
  BY DEF ListShape, Blocks
<1>2. p \in Injection(1 .. Len(p), used)
  BY <1>1 DEF ListShape, NoRepeats, Injection, IsInjective
<1>3. p \in Surjection(1 .. Len(p), used)
  BY <1>1 DEF ListShape, Blocks, Surjection
<1>4. IsFiniteSet(1 .. Len(p)) /\ Cardinality(1 .. Len(p)) = Len(p)
  <2>1. /\ IsFiniteSet(1 .. Len(p))
        /\ Cardinality(1 .. Len(p)) = IF 1 > Len(p) THEN 0 ELSE Len(p) - 1 + 1
    BY <1>1, FS_Interval
  <2>. QED
    BY <1>1, <2>1
<1>5. Cardinality(used) = Len(p) /\ IsFiniteSet(used)
  BY <1>2, <1>3, <1>4, FS_Surjection
<1>. QED
  BY <1>1, <1>5 DEF Listings

\* add_msg and remove_delete_msg keep all allocated blocks in one list without
\* repetitions, for every pool size.
THEOREM MsgListShape == MsgSpec => []MsgShape
<1>1. ListInv => MsgShape
  BY ShapeIsListing DEF ListInv, MsgShape
<1>. QED
  BY <1>1, ListInvariant, PTL

-----------------------------------------------------------------------------
(***************************************************************************)
(* The list implements the abstract queue.  The abstract queue is read off *)
(* the one chain that the pointers make, so what has to be shown first is  *)
(* that there is only one.                                                 *)
(***************************************************************************)

\* A nonempty set of natural numbers has a least element.
LEMMA LeastNumber ==
    ASSUME NEW S \in SUBSET Nat, S # {}
    PROVE  \E k \in S : \A j \in S : k <= j
<1>. DEFINE R == OpToRel(<, Nat)
<1>1. IsWellFoundedOn(R, Nat)
  BY NatLessThanWellFounded
<1>2. \A a, b \in Nat : a < b => <<a, b>> \in R
  BY DEF OpToRel
<1>. HIDE DEF R
<1>3. PICK k \in S : \A j \in S : ~(<<j, k>> \in R)
  BY <1>1, WFMin
<1>4. \A j \in S : j \in Nat /\ k \in Nat /\ ~(j < k)
  BY <1>2, <1>3
<1>. QED
  BY <1>4

\* Two chains of the same length are the same: they have the same head, and where
\* they first differ their previous blocks would have different next pointers.
LEMMA ChainsAgree ==
    ASSUME NEW p \in Seq(Addr), NEW q \in Seq(Addr),
           IsChain(p), IsChain(q), Len(p) = Len(q)
    PROVE  p = q
<1>. DEFINE Differ == {i \in 1 .. Len(p) : p[i] # q[i]}
<1>1. Differ = {}
  <2>. SUFFICES ASSUME Differ # {} PROVE FALSE
    OBVIOUS
  <2>1. Differ \in SUBSET Nat
    OBVIOUS
  <2>2. PICK k \in Differ : \A j \in Differ : k <= j
    BY <2>1, LeastNumber
  <2>3. k \in 1 .. Len(p) /\ p[k] # q[k] /\ p # <<>> /\ q # <<>>
    OBVIOUS
  <2>4. CASE k = 1
    BY <2>3, <2>4 DEF IsChain
  <2>5. CASE k # 1
    <3>1. k - 1 \in 1 .. Len(p) /\ k - 1 # Len(p) /\ (k - 1) + 1 = k /\ ~(k <= k - 1)
      BY <2>3, <2>5
    <3>2. p[k - 1] = q[k - 1]
      BY <2>2, <3>1
    <3>3. next[p[k - 1]] = p[k] /\ next[q[k - 1]] = q[k]
      BY <3>1 DEF IsChain
    <3>. QED
      BY <2>3, <3>2, <3>3
  <2>. QED
    BY <2>4, <2>5
<1>. QED
  BY <1>1

ChainUnique == \A p \in Seq(Addr) : ListShape(p) => Chain = p

\* The chain that the refinement mapping picks is the list of the invariant.
LEMMA ChainIsList == ChainUnique
<1>. SUFFICES ASSUME NEW p \in Seq(Addr), ListShape(p) PROVE Chain = p
  BY DEF ChainUnique
<1>1. p \in Listings /\ IsChain(p) /\ Len(p) = Cardinality(used) /\ used \subseteq Addr
  BY ShapeIsListing DEF ListShape, Blocks
<1>2. Chain \in Listings /\ IsChain(Chain)
  BY <1>1 DEF Chain
<1>3. Chain \in Seq(Addr) /\ Len(Chain) = Len(p)
  BY <1>1, <1>2 DEF Listings
<1>. QED
  BY <1>1, <1>2, <1>3, ChainsAgree

Contents(p) == [i \in 1 .. Len(p) |-> body[p[i]]]

\* Queueing a message is the abstract Accept.
LEMMA EnqueueAccepts ==
    ASSUME MsgTypeOK, NEW p \in Seq(Addr), ListShape(p), NEW b \in Body, Enqueue(b)
    PROVE  \E q \in Seq(Addr) :
              /\ ListShape(q)'
              /\ Len(Contents(p)) < Cardinality(Addr)
              /\ Contents(q)' = Append(Contents(p), b)
              /\ UNCHANGED Current
<1>. USE MsgAssumption
<1>1. PICK a \in Addr \ used :
        /\ used' = used \cup {a}
        /\ body' = [body EXCEPT ![a] = b]
        /\ AddMsg(a)
        /\ UNCHANGED flushVars
  BY DEF Enqueue
<1>. DEFINE q == Append(p, a)
<1>2. q \in Seq(Addr) /\ ListShape(q)'
  <2>1. q \in Seq(Addr)
    BY <1>1
  <2>2. MsgTypeOK' /\ ListShape(Append(p, a))'
    BY <1>1, EnqueueAppends
  <2>. QED
    BY <2>1, <2>2
<1>3. \A i \in 1 .. Len(p) : p[i] \in used /\ p[i] \in Addr
  BY DEF ListShape, Blocks
<1>4. Len(Contents(p)) = Len(p) /\ Len(p) \in Nat
  BY DEF Contents
<1>5. Len(p) < Cardinality(Addr)
  <2>1. Len(p) = Cardinality(used) /\ IsFiniteSet(used)
    BY ShapeIsListing
  <2>2. Cardinality(used \cup {a}) = Cardinality(used) + 1 /\ used \cup {a} \subseteq Addr
    BY <1>1, <2>1, FS_AddElement DEF MsgTypeOK
  <2>3. Cardinality(used \cup {a}) <= Cardinality(Addr) /\ Cardinality(Addr) \in Nat
    BY <2>2, FS_Subset, FS_CardinalityType
  <2>. QED
    BY <1>4, <2>1, <2>2, <2>3
<1>6. Contents(q)' = Append(Contents(p), b)
  <2>1. \A i \in 1 .. Len(p) : q[i] = p[i] /\ body'[p[i]] = body[p[i]]
    BY <1>1, <1>3 DEF MsgTypeOK
  <2>2. Len(q) = Len(p) + 1 /\ q[Len(p) + 1] = a /\ body'[a] = b
    BY <1>1 DEF MsgTypeOK
  <2>3. Contents(q)' = [i \in 1 .. Len(p) + 1 |-> IF i = Len(p) + 1 THEN b ELSE body[p[i]]]
    BY <2>1, <2>2, <1>4 DEF Contents
  <2>4. Append(Contents(p), b) = [i \in 1 .. Len(p) + 1 |-> IF i = Len(p) + 1 THEN b ELSE body[p[i]]]
    BY <1>4 DEF Contents
  <2>. QED
    BY <2>3, <2>4
<1>7. UNCHANGED Current
  <2>1. fpc \in OnMsg => m \in used
    <3>1. fpc \in OnMsg => p # <<>> /\ m = p[1] /\ 1 \in 1 .. Len(p)
      BY DEF ListShape, FlusherOn
    <3>. QED
      BY <1>3, <3>1
  <2>. QED
    BY <1>1, <2>1 DEF Current, MsgTypeOK, flushVars
<1>. QED
  BY <1>2, <1>4, <1>5, <1>6, <1>7

\* Freeing the flushed message is the abstract Finish.
LEMMA RemoveFinishes ==
    ASSUME MsgTypeOK, NEW p \in Seq(Addr), ListShape(p), FlushRemove
    PROVE  \E q \in Seq(Addr) :
              /\ ListShape(q)'
              /\ Current # NoMsg
              /\ Contents(q)' = Tail(Contents(p))
              /\ Current' = NoMsg
<1>1. PICK q \in Seq(Addr) :
        /\ p # <<>> /\ m = p[1]
        /\ ListShape(q)'
        /\ Len(p) = Len(q) + 1
        /\ \A i \in 1 .. Len(q) : q[i] = p[i + 1]
  BY RemoveTakesFirst
<1>2. fpc = "remove" /\ fpc' = "advance" /\ UNCHANGED body
  BY DEF FlushRemove
<1>3. Current # NoMsg
  <2>1. m \in Addr
    BY <1>1
  <2>2. Current = body[m] /\ body[m] \in Body
    BY <1>2, <2>1 DEF Current, OnMsg, MsgTypeOK
  <2>. QED
    BY <2>2, MsgAssumption
<1>4. Current' = NoMsg
  BY <1>2 DEF Current, OnMsg
<1>5. Contents(q)' = Tail(Contents(p))
  <2>1. Len(Contents(p)) = Len(p) /\ Contents(p) \in Seq(Body) /\ Len(q) \in Nat
    BY DEF Contents, MsgTypeOK
  <2>2. Contents(p) # <<>>
    BY <1>1, <2>1
  <2>3. /\ Tail(Contents(p)) \in Seq(Body)
        /\ Len(Tail(Contents(p))) = Len(q)
        /\ \A i \in 1 .. Len(q) : Tail(Contents(p))[i] = Contents(p)[i + 1]
    BY <1>1, <2>1, <2>2
  <2>4. \A i \in 1 .. Len(q) : Contents(p)[i + 1] = body[p[i + 1]]
    BY <1>1, <2>1 DEF Contents
  <2>5. /\ Contents(q)' \in Seq(Body)
        /\ Len(Contents(q)') = Len(q)
        /\ \A i \in 1 .. Len(q) : Contents(q)'[i] = body[q[i]]
    <3>1. Contents(q)' = [i \in 1 .. Len(q) |-> body[q[i]]]
      BY <1>2 DEF Contents
    <3>. QED
      BY <1>1, <2>1, <3>1 DEF MsgTypeOK
  <2>6. \A i \in 1 .. Len(q) : Contents(q)'[i] = Tail(Contents(p))[i]
    BY <1>1, <2>3, <2>4, <2>5
  <2>. QED
    BY <2>3, <2>5, <2>6, SeqEqual
<1>. QED
  BY <1>1, <1>3, <1>4, <1>5

\* The other steps of flush_messages start on the first message or are not seen.
LEMMA LocalStepsDeliver ==
    ASSUME MsgTypeOK,
           NEW p \in Seq(Addr), ListShape(p),
           \/ FlushBegin
           \/ FlushInvoked
           \/ FlushReadNext
           \/ FlushCheckHead
           \/ FlushAdvance
    PROVE  /\ ListShape(p)'
           /\ Contents(p)' = Contents(p)
           /\ \/ UNCHANGED Current
              \/ Current = NoMsg /\ Contents(p) # <<>> /\ Current' = Head(Contents(p))
<1>. USE MsgAssumption
<1>1. ListShape(p)'
  BY LocalStepsKeepShape
<1>2. UNCHANGED body
  BY DEF FlushBegin, FlushInvoked, FlushReadNext, FlushCheckHead, FlushAdvance, listVars
<1>3. Contents(p)' = Contents(p)
  BY <1>2 DEF Contents
<1>4. p # <<>> => Contents(p) # <<>> /\ Head(Contents(p)) = body[p[1]]
  BY DEF Contents
<1>5. \A i \in 1 .. Len(p) : p[i] # NULL
  OBVIOUS
<1>6. CASE FlushBegin
  <2>1. fpc = "idle" /\ m' = g_head /\ fpc' = IF g_head = NULL THEN "idle" ELSE "invoke"
    BY <1>6 DEF FlushBegin
  <2>2. g_head # NULL => p # <<>> /\ g_head = p[1]
    BY DEF ListShape, IsChain
  <2>. QED
    BY <1>1, <1>2, <1>3, <1>4, <2>1, <2>2 DEF Current, OnMsg
<1>7. CASE FlushInvoked \/ FlushReadNext
  <2>1. fpc \in OnMsg /\ fpc' \in OnMsg /\ UNCHANGED <<m, body>>
    BY <1>2, <1>7 DEF FlushInvoked, FlushReadNext, OnMsg
  <2>. QED
    BY <1>1, <1>3, <2>1 DEF Current
<1>8. CASE FlushCheckHead
  <2>1. fpc = "check" /\ UNCHANGED m /\ fpc' = IF g_head = NULL THEN "advance" ELSE "remove"
    BY <1>8 DEF FlushCheckHead
  <2>2. g_head # NULL
    BY <1>5, <2>1 DEF ListShape, IsChain, FlusherOn, OnMsg
  <2>. QED
    BY <1>1, <1>2, <1>3, <2>1, <2>2 DEF Current, OnMsg
<1>9. CASE FlushAdvance
  <2>1. fpc = "advance" /\ m' = n /\ fpc' = IF n = NULL THEN "idle" ELSE "invoke"
    BY <1>9 DEF FlushAdvance
  <2>2. n # NULL => p # <<>> /\ n = p[1]
    BY <2>1 DEF ListShape, FlusherOn
  <2>. QED
    BY <1>1, <1>2, <1>3, <1>4, <2>1, <2>2 DEF Current, OnMsg
<1>. QED
  BY <1>6, <1>7, <1>8, <1>9

\* The abstract queue is the contents of the sequence that lists the blocks.
LEMMA QueueIsContents ==
    ASSUME NEW p \in Seq(Addr), ListShape(p)
    PROVE  Queued = Contents(p)
BY ChainIsList DEF ChainUnique, Contents, Queued

\* Appending a block to the list is the abstract Accept.
LEMMA EnqueueIsAccept == \A b \in Body : ListInv /\ Enqueue(b) => Fifo!Accept(b)
<1>. SUFFICES ASSUME NEW b \in Body, ListInv, Enqueue(b) PROVE Fifo!Accept(b)
  OBVIOUS
<1>1. PICK p \in Seq(Addr) : ListShape(p)
  BY DEF ListInv
<1>2. PICK q \in Seq(Addr) :
        /\ ListShape(q)'
        /\ Len(Contents(p)) < Cardinality(Addr)
        /\ Contents(q)' = Append(Contents(p), b)
        /\ UNCHANGED Current
  BY <1>1, EnqueueAccepts DEF ListInv
<1>3. Queued = Contents(p)
  BY <1>1, QueueIsContents
<1>4. Queued' = Contents(q)'
  <2>1. ChainUnique'
    BY ChainIsList, PTL
  <2>2. Chain' = q
    BY <1>2, <2>1 DEF ChainUnique
  <2>. QED
    BY <2>2 DEF Contents, Queued
<1>5. Len(Queued) < Cardinality(Addr) /\ Queued' = Append(Queued, b) /\ UNCHANGED Current
  BY <1>2, <1>3, <1>4
<1>. QED
  BY <1>5 DEF Fifo!Accept

\* The steps of flush_messages are the abstract Deliver and Finish, or not seen.
LEMMA FlushStepPasses ==
    ListInv /\ FlushStep => Fifo!Deliver \/ Fifo!Finish \/ UNCHANGED Fifo!fifoVars
<1>. SUFFICES ASSUME ListInv, FlushStep
              PROVE  Fifo!Deliver \/ Fifo!Finish \/ UNCHANGED Fifo!fifoVars
  OBVIOUS
<1>1. PICK p \in Seq(Addr) : ListShape(p)
  BY DEF ListInv
<1>2. Queued = Contents(p)
  BY <1>1, QueueIsContents
<1>3. ASSUME NEW q \in Seq(Addr), ListShape(q)'
      PROVE  Queued' = Contents(q)'
  <2>1. ChainUnique'
    BY ChainIsList, PTL
  <2>2. Chain' = q
    BY <1>3, <2>1 DEF ChainUnique
  <2>. QED
    BY <2>2 DEF Contents, Queued
<1>4. CASE FlushRemove
  <2>1. PICK q \in Seq(Addr) :
          /\ ListShape(q)'
          /\ Current # NoMsg
          /\ Contents(q)' = Tail(Contents(p))
          /\ Current' = NoMsg
    BY <1>1, <1>4, RemoveFinishes DEF ListInv
  <2>2. Current # NoMsg /\ Queued' = Tail(Queued) /\ Current' = NoMsg
    BY <1>2, <1>3, <2>1
  <2>. QED
    BY <2>2 DEF Fifo!Finish
<1>5. CASE FlushBegin \/ FlushInvoked \/ FlushReadNext \/ FlushCheckHead \/ FlushAdvance
  <2>1. /\ ListShape(p)'
        /\ Contents(p)' = Contents(p)
        /\ \/ UNCHANGED Current
           \/ Current = NoMsg /\ Contents(p) # <<>> /\ Current' = Head(Contents(p))
    BY <1>1, <1>5, LocalStepsDeliver DEF ListInv
  <2>2. /\ UNCHANGED Queued
        /\ \/ UNCHANGED Current
           \/ Current = NoMsg /\ Queued # <<>> /\ Current' = Head(Queued)
    BY <1>2, <1>3, <2>1
  <2>. QED
    BY <2>2 DEF Fifo!Deliver, Fifo!fifoVars
<1>. QED
  BY <1>4, <1>5 DEF FlushStep

\* What does not touch the list is not seen in the queue.
LEMMA FifoUnseen == UNCHANGED msgVars => UNCHANGED Fifo!fifoVars
BY DEF msgVars, Fifo!fifoVars, Queued, Current, Chain, Listings, IsChain

\* Every step of msg.c is a step of the abstract queue or not seen by it.
LEMMA FifoStep == ListInv /\ [MsgNext]_msgVars => [Fifo!FifoNext]_(Fifo!fifoVars)
BY FifoUnseen, EnqueueIsAccept, FlushStepPasses DEF MsgNext, Fifo!FifoNext

\* An empty list is an empty queue.
LEMMA FifoStart == MsgInit => Fifo!FifoInit
<1>. SUFFICES ASSUME MsgInit PROVE Fifo!FifoInit
  OBVIOUS
<1>1. ListShape(<<>>) /\ <<>> \in Seq(Addr)
  BY DEF MsgInit, ListShape, IsChain, NoRepeats, Blocks, FlusherOn, OnMsg
<1>2. Chain = <<>>
  BY <1>1, ChainIsList DEF ChainUnique
<1>. QED
  BY <1>2 DEF MsgInit, Fifo!FifoInit, Queued, Current, OnMsg

\* The message list implements the abstract queue, for every pool: every accepted
\* message is passed on once and in order.  (That it is passed on at all is
\* liveness.)
THEOREM ListImplementsFifo ==
    MsgSpec => Fifo!FifoInit /\ [][Fifo!FifoNext]_(Fifo!fifoVars)
BY FifoStart, ListInvariant, FifoStep, PTL DEF MsgSpec
=============================================================================
