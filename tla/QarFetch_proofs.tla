---------------------------- MODULE QarFetch_proofs ----------------------------
(***************************************************************************)
(* Theorems about the fetch unit for every address space, every program    *)
(* and every cache size, with their proofs.                                *)
(***************************************************************************)
EXTENDS QarFetch, TLAPS

--------------------------------------------------------------------------------
(* Addresses *)

LEMMA SuccType == \A p \in PC : Succ(p) \in PC
  BY PcSpanAssumption DEF PC, Succ

LEMMA ZeroType == 0 \in PC
  BY PcSpanAssumption DEF PC

\* Tag and index together determine the address.
LEMMA TagIndexUnique ==
  ASSUME ICACHE_ENTRIES > 0, NEW p \in PC, NEW q \in PC,
         Index(p) = Index(q), Tag(p) = Tag(q)
  PROVE  p = q
<1>1. ICACHE_ENTRIES \in Nat \ {0} /\ p \in Nat /\ q \in Nat
  BY FetchAssumption, PcSpanAssumption DEF PC
<1>2. p = ICACHE_ENTRIES * Tag(p) + Index(p)
  BY <1>1 DEF Tag, Index
<1>3. q = ICACHE_ENTRIES * Tag(q) + Index(q)
  BY <1>1 DEF Tag, Index
<1> QED BY <1>2, <1>3

LEMMA IndexTagType ==
  ASSUME ICACHE_ENTRIES > 0, NEW p \in PC
  PROVE  Index(p) \in Lines /\ Tag(p) \in Nat
<1>1. ICACHE_ENTRIES \in Nat \ {0} /\ p \in Nat
  BY FetchAssumption, PcSpanAssumption DEF PC
<1> QED BY <1>1 DEF Index, Tag, Lines

LEMMA NoneIsNoEntry == None \notin Entry /\ None \notin PC
  BY FetchAssumption

--------------------------------------------------------------------------------
(* Type correctness *)

LEMMA AnswerType == FetchTypeOK /\ fetch_req # None => Answer \in Entry
  BY DEF FetchTypeOK, Answer, Entry

LEMMA FetchedType ==
  ASSUME FetchTypeOK, CacheHit(pc_fetch) PROVE Fetched \in Entry
<1>1. Index(pc_fetch) \in Lines
  BY IndexTagType DEF CacheHit, FetchTypeOK
<1>2. CacheWord(pc_fetch) \in Word
  BY <1>1 DEF CacheHit, CacheWord, FetchTypeOK
<1> QED BY <1>2 DEF FetchTypeOK, Fetched, Entry

LEMMA FetchTypeInit == FetchInit => FetchTypeOK
  BY ZeroType, FetchAssumption DEF FetchInit, FetchTypeOK

LEMMA FetchTypeStep == FetchTypeOK /\ [FetchNext]_fetchVars => FetchTypeOK'
<1> SUFFICES ASSUME FetchTypeOK, [FetchNext]_fetchVars PROVE FetchTypeOK'
  OBVIOUS
<1>1. ASSUME NEW target \in PC, Redirect(target) PROVE FetchTypeOK'
  BY <1>1 DEF Redirect, FetchTypeOK
<1>2. ASSUME NEW drain \in BOOLEAN, NEW ready \in BOOLEAN, Cycle(drain, ready)
      PROVE  FetchTypeOK'
  <2> USE <1>2 DEF Cycle, Advance, NextRequest, FetchTypeOK
  <2>1. imem' \in [PC -> Word]
    OBVIOUS
  <2>2. pc_fetch' \in PC /\ fetch_req' \in PC \cup {None}
    BY SuccType
  <2>3. if_buf' \in Entry \cup {None} /\ slot' \in Entry \cup {None}
    BY AnswerType, FetchedType
  <2>4. id' \in Entry \cup {None}
    OBVIOUS
  <2>5. icache' \in [Lines -> [tag: Nat, word: Word] \cup {None}]
    <3>1. CASE fetch_req # None /\ ready /\ ICACHE_ENTRIES > 0
      <4>1. Index(fetch_req) \in Lines /\ Tag(fetch_req) \in Nat /\ imem[fetch_req] \in Word
        BY <3>1, IndexTagType
      <4> QED BY <3>1, <4>1
    <3>2. CASE ~(fetch_req # None /\ ready /\ ICACHE_ENTRIES > 0)
      BY <3>2
    <3> QED BY <3>1, <3>2
  <2> QED BY <2>1, <2>2, <2>3, <2>4, <2>5
<1>3. ASSUME UNCHANGED fetchVars PROVE FetchTypeOK'
  BY <1>3 DEF fetchVars, FetchTypeOK
<1> QED BY <1>1, <1>2, <1>3 DEF FetchNext

\* The fetch unit keeps its types for every address space, program and cache.
THEOREM FetchTypeCorrect == FetchSpec => []FetchTypeOK
  BY FetchTypeInit, FetchTypeStep, PTL DEF FetchSpec

--------------------------------------------------------------------------------
(* The queue *)

LEMMA QueueHasRoomStep ==
  FetchTypeOK /\ QueueHasRoom /\ [FetchNext]_fetchVars => QueueHasRoom'
<1> SUFFICES ASSUME FetchTypeOK, QueueHasRoom, [FetchNext]_fetchVars
             PROVE  QueueHasRoom'
  OBVIOUS
<1> USE NoneIsNoEntry DEF QueueHasRoom
<1>1. ASSUME NEW target \in PC, Redirect(target) PROVE QueueHasRoom'
  BY <1>1 DEF Redirect
<1>2. ASSUME NEW drain \in BOOLEAN, NEW ready \in BOOLEAN, Cycle(drain, ready)
      PROVE  QueueHasRoom'
  <2> USE <1>2 DEF Cycle, Advance, NextRequest, CanFetch, IdAccept, SlotToIf, IntoIf
  <2>1. /\ fetch_req # None => Answer # None
        /\ CacheHit(pc_fetch) => Fetched # None
    BY AnswerType, FetchedType
  <2> QED BY <2>1
<1>3. ASSUME UNCHANGED fetchVars PROVE QueueHasRoom'
  BY <1>3 DEF fetchVars
<1> QED BY <1>1, <1>2, <1>3 DEF FetchNext

\* Nothing the bus delivers is lost for want of room, with or without a cache.
THEOREM QueueNeverOverruns == FetchSpec => []QueueHasRoom
<1>1. FetchInit => QueueHasRoom
  BY DEF FetchInit, QueueHasRoom
<1> QED BY <1>1, FetchTypeCorrect, QueueHasRoomStep, PTL DEF FetchSpec

--------------------------------------------------------------------------------
(* The cache *)

CacheInv == CacheCoherent /\ HitStaysOffBus

LEMMA CacheInvStep == FetchTypeOK /\ CacheInv /\ [FetchNext]_fetchVars => CacheInv'
<1> SUFFICES ASSUME FetchTypeOK, CacheInv, [FetchNext]_fetchVars PROVE CacheInv'
  OBVIOUS
<1> USE NoneIsNoEntry DEF CacheInv, CacheCoherent, HitStaysOffBus
<1>1. ASSUME NEW target \in PC, Redirect(target) PROVE CacheInv'
  BY <1>1 DEF Redirect, CacheHit, CacheWord
<1>2. ASSUME NEW drain \in BOOLEAN, NEW ready \in BOOLEAN, Cycle(drain, ready)
      PROVE  CacheInv'
  <2>1. CASE fetch_req # None /\ ready /\ ICACHE_ENTRIES > 0
    <3>1. /\ fetch_req' = None
          /\ imem' = imem
          /\ icache' = [icache EXCEPT ![Index(fetch_req)] =
                          [tag |-> Tag(fetch_req), word |-> imem[fetch_req]]]
      BY <1>2, <2>1 DEF Cycle, Advance, NextRequest
    <3>2. fetch_req \in PC /\ icache \in [Lines -> [tag: Nat, word: Word] \cup {None}]
      BY <2>1 DEF FetchTypeOK
    <3>3. ASSUME NEW p \in PC, CacheHit(p)' PROVE CacheWord(p)' = imem'[p]
      <4>1. Index(p) \in Lines
        BY <2>1, IndexTagType
      <4>2. CASE Index(p) = Index(fetch_req)
        <5>1. Tag(p) = Tag(fetch_req) /\ CacheWord(p)' = imem[fetch_req]
          BY <3>1, <3>2, <3>3, <4>1, <4>2 DEF CacheHit, CacheWord
        <5> QED BY <2>1, <3>1, <3>2, <4>2, <5>1, TagIndexUnique
      <4>3. CASE Index(p) # Index(fetch_req)
        <5>1. icache'[Index(p)] = icache[Index(p)]
          BY <3>1, <3>2, <4>1, <4>3
        <5> QED BY <3>1, <3>3, <5>1 DEF CacheHit, CacheWord
      <4> QED BY <4>2, <4>3
    <3> QED BY <3>1, <3>3
  <2>2. CASE ~(fetch_req # None /\ ready /\ ICACHE_ENTRIES > 0)
    <3>1. icache' = icache /\ imem' = imem
      BY <1>2, <2>2 DEF Cycle, Advance, NextRequest
    <3>2. CacheCoherent'
      BY <3>1 DEF CacheHit, CacheWord
    <3>3. \/ fetch_req' = None
          \/ fetch_req' = fetch_req
          \/ fetch_req' = pc_fetch /\ ~CacheHit(pc_fetch)
      BY <1>2 DEF Cycle, Advance, NextRequest
    <3> QED BY <3>1, <3>2, <3>3 DEF CacheHit
  <2> QED BY <2>1, <2>2
<1>3. ASSUME UNCHANGED fetchVars PROVE CacheInv'
  BY <1>3 DEF fetchVars, CacheHit, CacheWord
<1> QED BY <1>1, <1>2, <1>3 DEF FetchNext

LEMMA CacheInvInit == FetchInit => CacheInv
<1> SUFFICES ASSUME FetchInit, NEW p \in PC, CacheHit(p) PROVE FALSE
  BY DEF FetchInit, CacheInv, CacheCoherent, HitStaysOffBus
<1>1. Index(p) \in Lines
  BY IndexTagType DEF CacheHit
<1> QED BY <1>1 DEF FetchInit, CacheHit

\* For every cache size a hit returns the program's word of that address, and a
\* word that is cached is never requested on the bus.
THEOREM CacheCorrect == FetchSpec => [](CacheCoherent /\ HitStaysOffBus)
<1>1. FetchSpec => []CacheInv
  BY CacheInvInit, FetchTypeCorrect, CacheInvStep, PTL DEF FetchSpec
<1> QED BY <1>1, PTL DEF CacheInv

--------------------------------------------------------------------------------
(* Words and order *)

LEMMA WordsMatchStep ==
  FetchTypeOK /\ CacheCoherent /\ WordsMatch /\ [FetchNext]_fetchVars => WordsMatch'
<1> SUFFICES ASSUME FetchTypeOK, CacheCoherent, WordsMatch, [FetchNext]_fetchVars
             PROVE  WordsMatch'
  OBVIOUS
<1> USE DEF WordsMatch
<1>1. ASSUME NEW target \in PC, Redirect(target) PROVE WordsMatch'
  BY <1>1 DEF Redirect
<1>2. ASSUME NEW drain \in BOOLEAN, NEW ready \in BOOLEAN, Cycle(drain, ready)
      PROVE  WordsMatch'
  <2>1. Answer.instr = imem[Answer.pc]
    BY DEF Answer
  <2>2. CacheHit(pc_fetch) => Fetched.instr = imem[Fetched.pc]
    BY DEF Fetched, CacheCoherent, FetchTypeOK
  <2>3. imem' = imem
    BY <1>2 DEF Cycle, Advance, NextRequest
  <2>4. /\ \/ if_buf' \in {if_buf, slot, None, Answer}
           \/ CacheHit(pc_fetch) /\ if_buf' = Fetched
        /\ \/ slot' \in {slot, None, Answer}
           \/ CacheHit(pc_fetch) /\ slot' = Fetched
        /\ id' \in {if_buf, id, None}
    BY <1>2 DEF Cycle, Advance, NextRequest, CacheHit
  <2>5. ASSUME NEW e \in {if_buf', slot', id'} \ {None} PROVE e.instr = imem[e.pc]
    <3>1. \/ e \in {if_buf, slot, id} \ {None}
          \/ e = Answer
          \/ CacheHit(pc_fetch) /\ e = Fetched
      BY <2>4, <2>5
    <3> QED BY <2>1, <2>2, <3>1
  <2> QED BY <2>3, <2>5
<1>3. ASSUME UNCHANGED fetchVars PROVE WordsMatch'
  BY <1>3 DEF fetchVars
<1> QED BY <1>1, <1>2, <1>3 DEF FetchNext

Ordered == QueueHasRoom /\ QueueInOrder /\ ProgramOrder

LEMMA OrderedStep ==
  ASSUME ICACHE_ENTRIES = 0
  PROVE  FetchTypeOK /\ Ordered /\ [FetchNext]_fetchVars => Ordered'
<1> SUFFICES ASSUME FetchTypeOK, Ordered, [FetchNext]_fetchVars
             PROVE  QueueInOrder' /\ ProgramOrder'
  BY QueueHasRoomStep DEF Ordered
<1> USE NoneIsNoEntry DEF Ordered, QueueHasRoom, QueueInOrder, ProgramOrder, Due
<1>1. ASSUME NEW target \in PC, Redirect(target)
      PROVE  QueueInOrder' /\ ProgramOrder'
  BY <1>1 DEF Redirect
<1>2. ASSUME NEW drain \in BOOLEAN, NEW ready \in BOOLEAN, Cycle(drain, ready)
      PROVE  QueueInOrder' /\ ProgramOrder'
  <2>1. ~CacheHit(pc_fetch)
    BY FetchAssumption DEF CacheHit
  <2>2. Answer.pc = fetch_req /\ (fetch_req # None => Answer # None)
    BY AnswerType DEF Answer
  <2>3. pc_fetch # None
    BY DEF FetchTypeOK
  <2> USE <1>2, <2>1, <2>2, <2>3
          DEF Cycle, Advance, NextRequest, CanFetch, IdAccept, SlotToIf, IntoIf
  <2>4. QueueInOrder'
    OBVIOUS
  <2>5. ProgramOrder'
    OBVIOUS
  <2> QED BY <2>4, <2>5
<1>3. ASSUME UNCHANGED fetchVars PROVE QueueInOrder' /\ ProgramOrder'
  BY <1>3 DEF fetchVars
<1> QED BY <1>1, <1>2, <1>3 DEF FetchNext

LEMMA StreamInvInit == FetchInit => Ordered /\ WordsMatch
  BY DEF FetchInit, Ordered, QueueHasRoom, QueueInOrder, ProgramOrder, WordsMatch

LEMMA StaysOrdered ==
  ASSUME ICACHE_ENTRIES = 0
  PROVE  FetchSpec => []Ordered
<1>1. FetchTypeOK /\ Ordered /\ [FetchNext]_fetchVars => Ordered'
  BY OrderedStep
<1> QED BY <1>1, StreamInvInit, FetchTypeCorrect, PTL DEF FetchSpec

\* Without a cache no instruction is skipped or repeated between the decode
\* register and the queue, for every program and every timing of the bus.
THEOREM InstructionsInOrder ==
  ASSUME ICACHE_ENTRIES = 0
  PROVE  FetchSpec => []ProgramOrder
  BY StaysOrdered, PTL DEF Ordered

\* The words of the instructions in flight are those of their addresses, for
\* every cache size.
THEOREM WordsAlwaysMatch == FetchSpec => []WordsMatch
<1>1. FetchSpec => []CacheCoherent
  BY CacheCorrect, PTL
<1> QED BY <1>1, StreamInvInit, FetchTypeCorrect, WordsMatchStep, PTL DEF FetchSpec

--------------------------------------------------------------------------------
(* What the decode register sees *)

\* Only the decode register takes an instruction from the queue: what is due stays due
\* through every issue, answer and shift.
LEMMA DueStays ==
  ASSUME ICACHE_ENTRIES = 0, FetchTypeOK, Ordered,
         NEW drain \in BOOLEAN, NEW ready \in BOOLEAN, Cycle(drain, ready), ~IdAccept
  PROVE  Due' = Due
<1>1. ~CacheHit(pc_fetch)
  BY FetchAssumption DEF CacheHit
<1>2. Answer.pc = fetch_req /\ (fetch_req # None => Answer # None)
  BY AnswerType, NoneIsNoEntry DEF Answer
<1> QED
  BY <1>1, <1>2, NoneIsNoEntry
     DEF Cycle, Advance, NextRequest, CanFetch, IdAccept, SlotToIf, IntoIf, Due,
         Ordered, QueueHasRoom, FetchTypeOK

\* An edge without a redirect hands ID the instruction that is due, or leaves it due and
\* lets EX take what ID holds, or shows nothing.
LEMMA CycleDelivers ==
  ASSUME ICACHE_ENTRIES = 0, FetchTypeOK, Ordered, WordsMatch,
         NEW drain \in BOOLEAN, NEW ready \in BOOLEAN, Cycle(drain, ready)
  PROVE  /\ imem' = imem
         /\ \/ /\ id = None
               /\ id' = [pc |-> Due, instr |-> imem[Due]]
               /\ Due' = Succ(Due)
            \/ id # None /\ id' = None /\ Due' = Due
            \/ id' = id /\ Due' = Due
<1>1. imem' = imem
  BY DEF Cycle, Advance, NextRequest
<1>2. CASE IdAccept
  <2>1. id = None /\ id' = if_buf /\ if_buf # None /\ Due = if_buf.pc
    BY <1>2 DEF Cycle, Advance, NextRequest, IdAccept, Due
  <2>2. if_buf = [pc |-> Due, instr |-> imem[Due]]
    <3>1. if_buf \in Entry
      BY <2>1 DEF FetchTypeOK
    <3>2. if_buf.instr = imem[if_buf.pc]
      BY <2>1 DEF WordsMatch
    <3> QED BY <2>1, <3>1, <3>2 DEF Entry
  <2>3. Due' = Succ(Due)
    <3>1. Ordered'
      BY OrderedStep DEF FetchNext
    <3> QED BY <2>1, <2>2, <3>1 DEF Ordered, ProgramOrder
  <2> QED BY <1>1, <2>1, <2>2, <2>3
<1>3. CASE ~IdAccept
  <2>1. Due' = Due
    BY <1>3, DueStays
  <2>2. id' = id \/ (id # None /\ id' = None)
    BY <1>3 DEF Cycle, Advance, NextRequest
  <2> QED BY <1>1, <2>1, <2>2
<1> QED BY <1>2, <1>3
================================================================================
