-------------------------------- MODULE QarFetch -------------------------------
(***************************************************************************)
(* The fetch unit of qar-core/rtl/qar_core.v: the fetch program counter,   *)
(* the one outstanding request on the instruction bus, the two-entry       *)
(* prefetch queue (the IF buffer and the slot behind it), the direct       *)
(* mapped instruction cache, and the decode register they feed.            *)
(*                                                                         *)
(* An action is one clock edge.  What the rest of the core decides in that *)
(* cycle is a parameter: the target of a redirect (a taken branch, a jump, *)
(* a trap), whether EX takes the instruction in ID (drain), and whether    *)
(* the bus answers (ready).  Non-blocking assignments to one register in   *)
(* one edge are written in the order in which they win.                    *)
(***************************************************************************)
EXTENDS QarAddr

CONSTANTS
  Word,             \* instruction words
  Programs,         \* the programs the instruction memory may hold
  ICACHE_ENTRIES,   \* lines of the instruction cache, 0 when it is disabled
  None              \* an empty register, an idle bus, an invalid line

Entry == [pc: PC, instr: Word]

ASSUME FetchAssumption ==
  /\ Programs \subseteq [PC -> Word]
  /\ ICACHE_ENTRIES \in Nat \ {1}
  /\ None \notin PC \cup Entry

VARIABLES
  imem,             \* the instruction memory, external to the core
  pc_fetch,         \* the address the next request will carry
  fetch_req,        \* the address on the instruction bus, None when imem_valid is low
  if_buf,           \* the IF buffer
  slot,             \* the prefetch slot
  id,               \* the decode register
  icache            \* the cache: for each index None or the tag and the word

fetchVars == <<imem, pc_fetch, fetch_req, if_buf, slot, id, icache>>

--------------------------------------------------------------------------------
(* The instruction cache *)

Lines == 0 .. ICACHE_ENTRIES - 1
Index(p) == p % ICACHE_ENTRIES
Tag(p) == p \div ICACHE_ENTRIES

\* mutant of CacheHit: the tag is not compared
CacheHitAnyTag(p) == ICACHE_ENTRIES > 0 /\ icache[Index(p)] # None

CacheHit(p) ==
  /\ ICACHE_ENTRIES > 0
  /\ icache[Index(p)] # None
  /\ icache[Index(p)].tag = Tag(p)

CacheWord(p) == icache[Index(p)].word

--------------------------------------------------------------------------------
(* The wires of one cycle *)

\* mutant of CanFetch: an answer without room
CanFetchOverSlot == fetch_req = None

\* fetch_buffer_occupancy < PREFETCH_DEPTH and no request on the bus
CanFetch == fetch_req = None /\ ~(if_buf # None /\ slot # None)

\* IF moves to ID only when ID is empty: id_stall implies id_valid
IdAccept == if_buf # None /\ id = None

SlotToIf == slot # None /\ (if_buf = None \/ IdAccept)

\* a word that arrives in this cycle goes to IF, otherwise to the slot
IntoIf == (if_buf = None \/ IdAccept) /\ ~SlotToIf

Fetched == [pc |-> pc_fetch, instr |-> CacheWord(pc_fetch)]
Answer == [pc |-> fetch_req, instr |-> imem[fetch_req]]

\* mutant of NextRequest: a request of one cycle
NextRequestPulse(ready) ==
  IF CanFetch /\ ~CacheHit(pc_fetch) THEN pc_fetch ELSE None

\* imem_valid and imem_addr: held until the answer
NextRequest(ready) ==
  IF fetch_req # None /\ ready THEN None
  ELSE IF CanFetch /\ ~CacheHit(pc_fetch) THEN pc_fetch
  ELSE fetch_req

--------------------------------------------------------------------------------
FetchInit ==
  /\ imem \in Programs
  /\ pc_fetch = 0
  /\ fetch_req = None
  /\ if_buf = None
  /\ slot = None
  /\ id = None
  /\ icache = [i \in Lines |-> None]

\* mutant of Redirect: the prefetch slot survives
RedirectKeepsSlot(target) ==
  /\ pc_fetch' = target
  /\ fetch_req' = None
  /\ if_buf' = None
  /\ id' = None
  /\ UNCHANGED <<imem, slot, icache>>

\* A branch, a jump or a trap empties the pipeline and withdraws the request.
Redirect(target) ==
  /\ pc_fetch' = target
  /\ fetch_req' = None
  /\ if_buf' = None
  /\ slot' = None
  /\ id' = None
  /\ UNCHANGED <<imem, icache>>

\* Any other cycle: issue or hit, accept, shift and answer, all at one edge.
Advance(drain, ready) ==
  LET hit      == CanFetch /\ CacheHit(pc_fetch)
      answered == fetch_req # None /\ ready
  IN
  /\ pc_fetch' = IF CanFetch THEN Succ(pc_fetch) ELSE pc_fetch
  /\ fetch_req' = NextRequest(ready)
  /\ if_buf' = IF answered /\ IntoIf THEN Answer
               ELSE IF SlotToIf THEN slot
               ELSE IF IdAccept THEN None
               ELSE IF hit /\ IntoIf THEN Fetched
               ELSE if_buf
  /\ slot' = IF answered /\ ~IntoIf THEN Answer
             ELSE IF SlotToIf THEN None
             ELSE IF hit /\ ~IntoIf THEN Fetched
             ELSE slot
  /\ id' = IF IdAccept THEN if_buf ELSE IF drain THEN None ELSE id
  /\ icache' = IF answered /\ ICACHE_ENTRIES > 0
               THEN [icache EXCEPT ![Index(fetch_req)] =
                       [tag |-> Tag(fetch_req), word |-> imem[fetch_req]]]
               ELSE icache
  /\ UNCHANGED imem

\* A clock edge without a redirect, and the two waits it can end.
Cycle(drain, ready) ==
  /\ drain => id # None
  /\ ready => fetch_req # None
  /\ Advance(drain, ready)

FetchNext ==
  \/ \E target \in PC : Redirect(target)
  \/ \E drain, ready \in BOOLEAN : Cycle(drain, ready)

\* The clock runs, a wait state of the bus ends, EX does not refuse ID for ever.
FetchFairness ==
  /\ WF_fetchVars(\E drain, ready \in BOOLEAN : Cycle(drain, ready))
  /\ WF_fetchVars(fetch_req # None /\ \E drain \in BOOLEAN : Cycle(drain, TRUE))
  /\ WF_fetchVars(id # None /\ \E ready \in BOOLEAN : Cycle(TRUE, ready))

FetchSpec == FetchInit /\ [][FetchNext]_fetchVars
FetchFairSpec == FetchSpec /\ FetchFairness

--------------------------------------------------------------------------------
(* Invariants *)

\* Every register of the fetch unit holds a value of its kind.
FetchTypeOK ==
  /\ imem \in [PC -> Word]
  /\ pc_fetch \in PC
  /\ fetch_req \in PC \cup {None}
  /\ if_buf \in Entry \cup {None}
  /\ slot \in Entry \cup {None}
  /\ id \in Entry \cup {None}
  /\ icache \in [Lines -> [tag: Nat, word: Word] \cup {None}]

\* The address of the instruction that ID must receive next.
Due ==
  IF if_buf # None THEN if_buf.pc
  ELSE IF slot # None THEN slot.pc
  ELSE IF fetch_req # None THEN fetch_req
  ELSE pc_fetch

\* No instruction is skipped or repeated between the decode register and the
\* queue behind it: what comes after the instruction in ID is its successor,
\* whatever the bus, the queue and EX did meanwhile.
ProgramOrder == id # None => Due = Succ(id.pc)

\* The queue fills from the front, and an answer of the instruction bus always
\* finds its place free: a delivered or waiting word is never overwritten.
QueueHasRoom ==
  /\ slot # None => if_buf # None
  /\ fetch_req # None => slot = None

\* Every instruction in flight carries the word of its own address, although
\* address and word reach the queue from different registers.
WordsMatch == \A e \in {if_buf, slot, id} \ {None} : e.instr = imem[e.pc]

\* Everything behind the decode register is one run of consecutive addresses.
QueueInOrder ==
  LET behind == IF fetch_req # None THEN fetch_req ELSE pc_fetch IN
  /\ fetch_req # None => pc_fetch = Succ(fetch_req)
  /\ slot # None => behind = Succ(slot.pc)
  /\ if_buf # None => Succ(if_buf.pc) = IF slot # None THEN slot.pc ELSE behind

\* The inductive invariant behind ProgramOrder and the instruction stream of QarCore.
StreamInv == QueueHasRoom /\ WordsMatch /\ QueueInOrder /\ ProgramOrder

\* A line that hits holds the word the instruction memory has at that address,
\* although a fill takes its index and tag from the request, edges after the lookup
\* that missed, and other addresses share the line.
CacheCoherent == \A p \in PC : CacheHit(p) => CacheWord(p) = imem[p]

\* A word the cache holds is not requested on the bus.
HitStaysOffBus == fetch_req # None => ~CacheHit(fetch_req)

--------------------------------------------------------------------------------
(* Properties *)

\* When control transfers cease, ID is filled again and again: the queue, the
\* bus and the decode register never wait for each other.
FetchProgress ==
  <>[][\E drain, ready \in BOOLEAN : Cycle(drain, ready)]_fetchVars => []<>(id # None)
================================================================================
