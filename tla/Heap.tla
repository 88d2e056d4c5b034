-------------------------------- MODULE Heap --------------------------------
(***************************************************************************)
(* The kernel heap of memory.c: a list of blocks threaded through the heap *)
(* itself.  kmalloc walks it first-fit and splits, kfree marks a block and *)
(* coalesces in one pass over the list; each iteration of the two loops is *)
(* a step.  Addresses are offsets into heap_storage.                       *)
(***************************************************************************)
EXTENDS Integers

CONSTANTS HEAP_SIZE,     \* bytes of heap_storage
          HEADER,        \* sizeof(block_header_t)
          ALIGN_BYTES,
          WORD,          \* size_t counts modulo WORD
          Requests       \* bound: the sizes callers ask for

ASSUME HeapAssumption ==
  /\ HEAP_SIZE \in Nat /\ HEADER \in Nat /\ ALIGN_BYTES \in Nat /\ WORD \in Nat
  /\ 0 < ALIGN_BYTES /\ 0 < HEADER /\ HEADER < HEAP_SIZE /\ HEAP_SIZE < WORD
  /\ Requests \subseteq 0 .. WORD - 1

(* Rounding a request up to a multiple of ALIGN_BYTES does not pass the     *)
(* end of size_t.  kmalloc does not check it; nothing in the kernel asks   *)
(* for that much.                                                          *)
ASSUME NoRequestWraps == \A n \in Requests : n + ALIGN_BYTES <= WORD

VARIABLES headers,    \* the block headers in memory, by their address
          heap_used,
          pc,         \* "idle", or the loop that runs: "search", "coalesce"
          cur,        \* the loops' cursor
          size,       \* kmalloc's aligned size
          asked,      \* history: the size the caller asked for
          live        \* history: what callers hold, [ptr, asked]

vars == <<headers, heap_used, pc, cur, size, asked, live>>

Null == -1

(* A faulty variant: rounding down. *)
AlignDown(n) == n - (n % ALIGN_BYTES)

(* size_t arithmetic: (n + ALIGN_BYTES - 1) & ~(ALIGN_BYTES - 1) *)
AlignUp(n) == LET m == (n + ALIGN_BYTES - 1) % WORD
              IN  m - (m % ALIGN_BYTES)

Payload(b) == b + HEADER
End(b) == b + HEADER + headers[b].size
Blocks == DOMAIN headers

Init == /\ headers = [b \in {0} |-> [size |-> HEAP_SIZE - HEADER,
                                     free |-> TRUE, next |-> Null]]
        /\ heap_used = 0
        /\ pc = "idle"
        /\ cur = Null
        /\ size = 0
        /\ asked = 0
        /\ live = {}

-----------------------------------------------------------------------------
(* Faulty variants of the definitions below, against which the properties  *)
(* are tried.                                                              *)

FitsStrictly(b) == headers[b].free /\ headers[b].size > size
SplitsAlways(b) == headers[b].size > size
ChargesRequest(b) == size + HEADER
CoalescesForward(b) == b                \* the pass starts at the freed block
StaysAt(b) == b                         \* the cursor is not advanced
MergedWithoutHeader(b, next) == headers[b].size + headers[next].size

-----------------------------------------------------------------------------
(* kmalloc *)

Kmalloc(n) == /\ pc = "idle"
              /\ n # 0
              /\ size' = AlignUp(n)
              /\ asked' = n
              /\ cur' = 0
              /\ pc' = "search"
              /\ UNCHANGED <<headers, heap_used, live>>

Fits(b) == headers[b].free /\ headers[b].size >= size

SearchNext == /\ pc = "search"
              /\ cur # Null
              /\ ~Fits(cur)
              /\ cur' = headers[cur].next
              /\ UNCHANGED <<headers, heap_used, pc, size, asked, live>>

(* The block is taken whole unless a header and ALIGN_BYTES are left over. *)
Splits(b) == headers[b].size - size >= HEADER + ALIGN_BYTES

Take(b) == [headers EXCEPT ![b].free = FALSE]

Split(b) ==
  LET rest == Payload(b) + size
  IN  [a \in Blocks \cup {rest} |->
         IF a = b THEN [size |-> size, free |-> FALSE, next |-> rest]
         ELSE IF a = rest THEN [size |-> headers[b].size - size - HEADER,
                                free |-> TRUE, next |-> headers[b].next]
         ELSE headers[a]]

(* What the block costs: its size after the split, and its header. *)
Charge(b) == headers'[b].size + HEADER

Found == /\ pc = "search"
         /\ cur # Null
         /\ Fits(cur)
         /\ headers' = IF Splits(cur) THEN Split(cur) ELSE Take(cur)
         /\ heap_used' = heap_used + Charge(cur)
         /\ live' = live \cup {[ptr |-> Payload(cur), asked |-> asked]}
         /\ pc' = "idle"
         /\ UNCHANGED <<cur, size, asked>>

(* The list is exhausted: NULL is returned. *)
OutOfMemory == /\ pc = "search"
               /\ cur = Null
               /\ pc' = "idle"
               /\ UNCHANGED <<headers, heap_used, cur, size, asked, live>>

-----------------------------------------------------------------------------
(* kfree, called with a pointer kmalloc returned *)

(* The pass starts at the head of the list. *)
CoalesceFrom(b) == 0

Kfree(r) == /\ pc = "idle"
            /\ headers' = [headers EXCEPT ![r.ptr - HEADER].free = TRUE]
            /\ heap_used' = heap_used - (headers[r.ptr - HEADER].size + HEADER)
            /\ live' = live \ {r}
            /\ cur' = CoalesceFrom(r.ptr - HEADER)
            /\ pc' = "coalesce"
            /\ UNCHANGED <<size, asked>>

Coalescing == pc = "coalesce" /\ headers[cur].next # Null

BothFree(b) == headers[b].free /\ headers[headers[b].next].free

MergedSize(b, next) == headers[b].size + HEADER + headers[next].size

(* The next block's header is swallowed; the cursor stays. *)
Merge == /\ Coalescing
         /\ BothFree(cur)
         /\ LET next == headers[cur].next
            IN  headers' = [a \in Blocks \ {next} |->
                  IF a = cur THEN [size |-> MergedSize(cur, next), free |-> TRUE,
                                   next |-> headers[next].next]
                             ELSE headers[a]]
         /\ UNCHANGED <<heap_used, pc, cur, size, asked, live>>

Passes(b) == headers[b].next

CoalesceNext == /\ Coalescing
                /\ ~BothFree(cur)
                /\ cur' = Passes(cur)
                /\ UNCHANGED <<headers, heap_used, pc, size, asked, live>>

CoalesceDone == /\ pc = "coalesce"
                /\ headers[cur].next = Null
                /\ pc' = "idle"
                /\ UNCHANGED <<headers, heap_used, cur, size, asked, live>>

Next == \/ \E n \in Requests : Kmalloc(n)
        \/ SearchNext \/ Found \/ OutOfMemory
        \/ \E r \in live : Kfree(r)
        \/ Merge \/ CoalesceNext \/ CoalesceDone

(* A call that has begun is executed to its end. *)
Spec == Init /\ [][Next]_vars
             /\ WF_vars(SearchNext \/ Found \/ OutOfMemory)
             /\ WF_vars(Merge \/ CoalesceNext \/ CoalesceDone)

-----------------------------------------------------------------------------
Headers == [size : 0 .. HEAP_SIZE, free : BOOLEAN, next : 0 .. HEAP_SIZE \cup {Null}]

TypeOK == /\ Blocks \subseteq 0 .. HEAP_SIZE - HEADER
          /\ headers \in [Blocks -> Headers]
          /\ heap_used \in Int
          /\ pc \in {"idle", "search", "coalesce"}
          /\ cur \in Blocks \cup {Null}
          /\ size \in Nat
          /\ asked \in Nat
          /\ live \subseteq [ptr : Nat, asked : Nat]

(* The list covers the heap without gap or overlap, in address order:      *)
(* every block ends where the next begins and the last ends the heap, and  *)
(* no header lies inside another block.                                    *)
BlocksTile ==
  /\ 0 \in Blocks
  /\ \A b \in Blocks :
       /\ headers[b].next \in Blocks \cup {Null}
       /\ End(b) = IF headers[b].next = Null THEN HEAP_SIZE ELSE headers[b].next
  /\ \A a, b \in Blocks : a < b => End(a) <= b

(* The allocated blocks are those that callers hold, and each holds as     *)
(* many bytes as were asked for, between the headers that BlocksTile puts  *)
(* around it: what two callers hold never overlaps.                        *)
LiveBlocks == {r.ptr - HEADER : r \in live}

LiveHoldsRequest ==
  /\ LiveBlocks = {b \in Blocks : ~headers[b].free}
  /\ \A r, s \in live : r # s => r.ptr # s.ptr
  /\ \A r \in live : headers[r.ptr - HEADER].size >= r.asked

(* Between calls no two neighbours are free: kfree's single pass merges    *)
(* whole runs, not pairs.                                                  *)
NoAdjacentFree ==
  pc = "idle" => \A b \in Blocks : ~(headers[b].next # Null /\ BothFree(b))

(* What each address costs: an allocated block its size and its header.    *)
Cost == [a \in 0 .. HEAP_SIZE - 1 |->
           IF a \in Blocks /\ ~headers[a].free THEN headers[a].size + HEADER ELSE 0]

Total(cost) == LET sum[n \in 0 .. HEAP_SIZE] == IF n = 0 THEN 0
                                                ELSE sum[n - 1] + cost[n - 1]
               IN  sum[HEAP_SIZE]

(* heap_used is the sum over the allocated blocks, headers included: what  *)
(* memory_print_stats reports never drifts, if callers free what they hold *)
(* (kfree does not look whether a block is free already).                  *)
UsedIsAllocated == heap_used = Total(Cost)

(* kmalloc gives up only when no stretch of the heap free of live blocks   *)
(* can hold a header and the aligned size: fragmentation by adjacent free  *)
(* blocks never makes it fail.                                             *)
Reserved(a) == \E b \in LiveBlocks : b <= a /\ a < End(b)

NullOnlyWithoutGap ==
  (pc = "search" /\ cur = Null)
    => \A a \in 0 .. HEAP_SIZE - (HEADER + size) :
         \E i \in a .. a + HEADER + size - 1 : Reserved(i)

(* Both loops end: the list never has a cycle. *)
CallsReturn == (pc # "idle") ~> (pc = "idle")
=============================================================================
