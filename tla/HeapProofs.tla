----------------------------- MODULE HeapProofs -----------------------------
(***************************************************************************)
(* The kernel heap stays a tiling of heap_storage through every sequence   *)
(* of kmalloc and kfree, for every size of heap, header, alignment and     *)
(* word; and what follows for its callers.                                 *)
(***************************************************************************)
EXTENDS Heap, WellFoundedInduction, TLAPS

(* Every byte of heap_storage lies in a block: BlocksTile says so by the   *)
(* links from block to block, this without following them.                 *)
Covered == \A a \in 0 .. HEAP_SIZE - 1 : \E b \in Blocks : b <= a /\ a < End(b)

(* The first two parts of LiveHoldsRequest.                                *)
LiveIsAllocated ==
  /\ LiveBlocks = {b \in Blocks : ~headers[b].free}
  /\ \A r, s \in live : r # s => r.ptr # s.ptr

Mergeable(b) == headers[b].next # Null /\ BothFree(b)

(* No two neighbours are free, but behind the cursor of a pass in progress.*)
Coalesced ==
  /\ pc # "coalesce" => \A b \in Blocks : ~Mergeable(b)
  /\ pc = "coalesce" => cur # Null /\ \A b \in Blocks : b < cur => ~Mergeable(b)

(* The search has left no block behind that it could have taken.           *)
Searched ==
  pc = "search" => \A b \in Blocks : (cur = Null \/ b < cur) => ~Fits(b)

HeapInv == /\ TypeOK /\ BlocksTile /\ Covered /\ LiveIsAllocated
           /\ Coalesced /\ Searched

(* A live block is as large as what was asked for, and so will be the one  *)
(* a search finds.                                                         *)
LargeEnough == /\ pc = "search" => size >= asked
               /\ \A r \in live : headers[r.ptr - HEADER].size >= r.asked

-----------------------------------------------------------------------------
(* Induction over the natural numbers, as a fact about sets.               *)
LEMMA SetInduction ==
  ASSUME NEW S \in SUBSET Nat, 0 \in S, \A n \in S : n + 1 \in S
  PROVE  S = Nat
<1> DEFINE R == {ss \in Nat \X Nat : ss[1] < ss[2]}
           Missing == Nat \ S
<1> SUFFICES ASSUME Missing # {} PROVE FALSE
  OBVIOUS
<1>1. IsWellFoundedOn(R, Nat)
  BY NatLessThanWellFounded DEF OpToRel
<1>2. \A x, y \in Nat : <<y, x>> \in R <=> y < x
  OBVIOUS
<1> HIDE DEF R
<1>3. PICK x \in Missing : \A y \in Missing : ~(<<y, x>> \in R)
  <2>1. ASSUME NEW T, T \subseteq Nat, T # {}
        PROVE  \E x \in T : \A y \in T : ~(<<y, x>> \in R)
    BY <1>1, <2>1, WFMin, Zenon
  <2> QED BY <2>1
<1>4. x - 1 \in Nat /\ x - 1 < x
  <2>1. x \in Nat /\ x # 0
    BY <1>3
  <2> QED BY <2>1
<1>5. x - 1 \in S
  <2>1. <<x - 1, x>> \in R
    BY <1>2, <1>4
  <2> QED BY <1>3, <1>4, <2>1
<1>6. (x - 1) + 1 \in S
  BY <1>5
<1> QED BY <1>3, <1>4, <1>6

(* The function Total recurs on, up to address N.                          *)
Sums(f, cost, N) ==
  f = [n \in 0 .. N |-> IF n = 0 THEN 0 ELSE f[n - 1] + cost[n - 1]]

Below(cost) == CHOOSE f : Sums(f, cost, HEAP_SIZE)

LEMMA SumsExist ==
  ASSUME NEW cost, NEW N \in Nat
  PROVE  \E f : Sums(f, cost, N)
<1> DEFINE S == {n \in Nat : \E f : Sums(f, cost, n)}
<1>1. 0 \in S
  <2> DEFINE f == [n \in 0 .. 0 |-> 0]
  <2>1. \A n \in 0 .. 0 : n = 0
    OBVIOUS
  <2>2. f = [n \in 0 .. 0 |-> IF n = 0 THEN 0 ELSE f[n - 1] + cost[n - 1]]
    BY <2>1
  <2> HIDE DEF f
  <2>3. Sums(f, cost, 0)
    BY <2>2 DEF Sums
  <2> QED BY <2>3
<1>2. ASSUME NEW n \in S PROVE n + 1 \in S
  <2>1. PICK f : Sums(f, cost, n)
    OBVIOUS
  <2>2. f = [k \in 0 .. n |-> IF k = 0 THEN 0 ELSE f[k - 1] + cost[k - 1]]
    BY <2>1 DEF Sums
  <2> DEFINE g == [k \in 0 .. n + 1 |-> IF k = n + 1 THEN f[n] + cost[n] ELSE f[k]]
             h == [k \in 0 .. n + 1 |-> IF k = 0 THEN 0 ELSE g[k - 1] + cost[k - 1]]
  <2>3. ASSUME NEW k \in 0 .. n + 1 PROVE g[k] = h[k]
    <3>1. CASE k = n + 1
      <4>1. g[k - 1] = f[n] /\ k # 0 /\ k - 1 = n
        BY <3>1
      <4>2. g[k] = f[n] + cost[n]
        BY <3>1
      <4> QED BY <4>1, <4>2
    <3>2. CASE k \in 1 .. n
      <4>1. g[k] = f[k] /\ g[k - 1] = f[k - 1] /\ k # 0 /\ k \in 0 .. n
        BY <3>2
      <4>2. f[k] = f[k - 1] + cost[k - 1]
        BY <2>2, <4>1
      <4> QED BY <4>1, <4>2
    <3>3. CASE k = 0
      <4>1. g[k] = f[0] /\ h[k] = 0
        BY <3>3
      <4>2. f[0] = 0
        BY <2>2
      <4> QED BY <4>1, <4>2
    <3> QED BY <3>1, <3>2, <3>3
  <2>4. g = h
    BY <2>3
  <2> HIDE DEF g
  <2>5. Sums(g, cost, n + 1)
    BY <2>4 DEF Sums
  <2> QED BY <2>5
<1> HIDE DEF S
<1>3. S = Nat
  <2>1. S \in SUBSET Nat
    BY DEF S
  <2> QED BY <1>1, <1>2, <2>1, SetInduction
<1> QED BY <1>3 DEF S

LEMMA SumByAddress ==
  ASSUME NEW cost
  PROVE  /\ Below(cost)[0] = 0
         /\ \A n \in 1 .. HEAP_SIZE :
              Below(cost)[n] = Below(cost)[n - 1] + cost[n - 1]
         /\ Total(cost) = Below(cost)[HEAP_SIZE]
<1>1. Sums(Below(cost), cost, HEAP_SIZE)
  BY SumsExist, HeapAssumption DEF Below
<1>2. Total(cost) = Below(cost)[HEAP_SIZE]
  BY DEF Total, Below, Sums
<1> DEFINE f == Below(cost)
<1>3. f = [n \in 0 .. HEAP_SIZE |-> IF n = 0 THEN 0 ELSE f[n - 1] + cost[n - 1]]
  BY <1>1 DEF Sums
<1> HIDE DEF f
<1>4. f[0] = 0
  BY <1>3, HeapAssumption
<1>5. \A n \in 1 .. HEAP_SIZE : f[n] = f[n - 1] + cost[n - 1]
  BY <1>3, HeapAssumption
<1> QED BY <1>2, <1>4, <1>5 DEF f

(* What holds below address 0 and is kept from one address to the next     *)
(* holds up to the end of the heap: Q is where it holds.                   *)
LEMMA AlongTheHeap ==
  ASSUME NEW Q \in SUBSET Nat, 0 \in Q,
         \A n \in 1 .. HEAP_SIZE : n - 1 \in Q => n \in Q
  PROVE  \A n \in 0 .. HEAP_SIZE : n \in Q
<1> DEFINE S == Q \cup {n \in Nat : n > HEAP_SIZE}
<1>0. HEAP_SIZE \in Nat
  BY HeapAssumption
<1>1. S \in SUBSET Nat /\ 0 \in S
  OBVIOUS
<1>2. ASSUME NEW n \in S PROVE n + 1 \in S
  <2>1. CASE n + 1 \in 1 .. HEAP_SIZE
    BY <1>0, <2>1
  <2>2. CASE n + 1 > HEAP_SIZE
    BY <1>0, <2>2
  <2> QED BY <1>0, <1>1, <2>1, <2>2
<1> HIDE DEF S
<1>3. S = Nat
  BY <1>1, <1>2, SetInduction
<1> QED BY <1>0, <1>3 DEF S

Costs == [0 .. HEAP_SIZE - 1 -> Int]

(* A sum of integers is one, up to every address.                          *)
LEMMA SumIsInt ==
  ASSUME NEW cost \in Costs
  PROVE  \A n \in 0 .. HEAP_SIZE : Below(cost)[n] \in Int
<1> DEFINE f == Below(cost)
<1>1. f[0] = 0 /\ \A n \in 1 .. HEAP_SIZE : f[n] = f[n - 1] + cost[n - 1]
  BY SumByAddress
<1> HIDE DEF f
<1> DEFINE Q == {n \in Nat : f[n] \in Int}
<1>2. 0 \in Q
  BY <1>1
<1>3. ASSUME NEW n \in 1 .. HEAP_SIZE, n - 1 \in Q PROVE n \in Q
  <2>1. cost[n - 1] \in Int
    <3>1. n - 1 \in 0 .. HEAP_SIZE - 1
      BY HeapAssumption
    <3> QED BY <3>1 DEF Costs
  <2>2. f[n] = f[n - 1] + cost[n - 1]
    BY <1>1
  <2> QED BY <1>3, <2>1, <2>2
<1> HIDE DEF Q
<1>4. \A n \in 0 .. HEAP_SIZE : n \in Q
  <2>1. Q \in SUBSET Nat
    BY DEF Q
  <2> QED BY <1>2, <1>3, <2>1, AlongTheHeap
<1> QED BY <1>4 DEF Q, f

(* What changes at one address changes the sum by as much.                 *)
LEMMA TotalChangesAtOne ==
  ASSUME NEW old \in Costs, NEW new \in Costs, NEW a \in 0 .. HEAP_SIZE - 1,
         \A x \in 0 .. HEAP_SIZE - 1 : x # a => new[x] = old[x]
  PROVE  Total(new) = Total(old) + (new[a] - old[a])
<1> DEFINE f == Below(old)
           g == Below(new)
<1>1. /\ f[0] = 0 /\ \A n \in 1 .. HEAP_SIZE : f[n] = f[n - 1] + old[n - 1]
      /\ Total(old) = f[HEAP_SIZE]
  BY SumByAddress
<1>2. /\ g[0] = 0 /\ \A n \in 1 .. HEAP_SIZE : g[n] = g[n - 1] + new[n - 1]
      /\ Total(new) = g[HEAP_SIZE]
  BY SumByAddress
<1>3. \A n \in 0 .. HEAP_SIZE : f[n] \in Int /\ g[n] \in Int
  BY SumIsInt
<1> HIDE DEF f, g
<1>4. PICK d \in Int : d = new[a] - old[a]
  <2>1. new[a] \in Int /\ old[a] \in Int
    BY DEF Costs
  <2> QED BY <2>1
<1> DEFINE Q == {n \in Nat : g[n] = IF n <= a THEN f[n] ELSE f[n] + d}
<1>5. 0 \in Q
  BY <1>1, <1>2
<1>6. ASSUME NEW n \in 1 .. HEAP_SIZE, n - 1 \in Q PROVE n \in Q
  <2>1. /\ n - 1 \in 0 .. HEAP_SIZE - 1 /\ n - 1 \in 0 .. HEAP_SIZE
        /\ n \in 0 .. HEAP_SIZE /\ n \in Nat
    BY HeapAssumption
  <2>2. /\ f[n] = f[n - 1] + old[n - 1] /\ g[n] = g[n - 1] + new[n - 1]
        /\ f[n - 1] \in Int /\ g[n - 1] \in Int
    BY <1>1, <1>2, <1>3, <2>1
  <2>3. old[n - 1] \in Int /\ new[n - 1] \in Int
    BY <2>1 DEF Costs
  <2>4. g[n - 1] = IF n - 1 <= a THEN f[n - 1] ELSE f[n - 1] + d
    BY <1>6
  <2>5. CASE n <= a
    <3>1. new[n - 1] = old[n - 1]
      BY <2>1, <2>5
    <3> QED BY <2>1, <2>2, <2>3, <2>4, <2>5, <3>1
  <2>6. CASE n = a + 1
    <3>1. n - 1 = a
      BY <2>6
    <3> QED BY <1>4, <2>1, <2>2, <2>3, <2>4, <2>6, <3>1
  <2>7. CASE n > a + 1
    <3>1. new[n - 1] = old[n - 1]
      BY <2>1, <2>7
    <3> QED BY <2>1, <2>2, <2>3, <2>4, <2>7, <3>1
  <2> QED BY <2>1, <2>5, <2>6, <2>7
<1> HIDE DEF Q
<1>7. \A n \in 0 .. HEAP_SIZE : n \in Q
  <2>1. Q \in SUBSET Nat
    BY DEF Q
  <2> QED BY <1>5, <1>6, <2>1, AlongTheHeap
<1>8. HEAP_SIZE \in Q /\ ~(HEAP_SIZE <= a)
  BY <1>7, HeapAssumption
<1>9. g[HEAP_SIZE] = f[HEAP_SIZE] + d
  BY <1>8 DEF Q
<1> QED BY <1>1, <1>2, <1>4, <1>9

(* Where nothing is allocated the sum is zero.                             *)
LEMMA TotalOfNothing ==
  ASSUME NEW cost, \A x \in 0 .. HEAP_SIZE - 1 : cost[x] = 0
  PROVE  Total(cost) = 0
<1> DEFINE f == Below(cost)
           Q == {n \in Nat : f[n] = 0}
<1>1. /\ f[0] = 0 /\ \A n \in 1 .. HEAP_SIZE : f[n] = f[n - 1] + cost[n - 1]
      /\ Total(cost) = f[HEAP_SIZE]
  BY SumByAddress
<1> HIDE DEF f
<1>2. 0 \in Q
  BY <1>1
<1>3. ASSUME NEW n \in 1 .. HEAP_SIZE, n - 1 \in Q PROVE n \in Q
  <2>1. n - 1 \in 0 .. HEAP_SIZE - 1
    BY HeapAssumption
  <2> QED BY <1>1, <1>3, <2>1
<1> HIDE DEF Q
<1>4. \A n \in 0 .. HEAP_SIZE : n \in Q
  <2>1. Q \in SUBSET Nat
    BY DEF Q
  <2> QED BY <1>2, <1>3, <2>1, AlongTheHeap
<1>5. f[HEAP_SIZE] = 0
  <2>1. HEAP_SIZE \in Q
    BY <1>4, HeapAssumption
  <2> QED BY <2>1 DEF Q
<1> QED BY <1>1, <1>5

-----------------------------------------------------------------------------
(* Geometry of the tiling.                                                 *)

(* What the list says of one block: it ends inside the heap, where its     *)
(* successor begins, and nothing begins inside it.                         *)
LEMMA Geometry ==
  ASSUME TypeOK, BlocksTile, NEW b \in Blocks
  PROVE  /\ b \in 0 .. HEAP_SIZE - HEADER
         /\ headers[b].size \in Nat /\ headers[b].size <= HEAP_SIZE
         /\ headers[b].free \in BOOLEAN
         /\ headers[b].next \in Blocks \cup {Null}
         /\ End(b) = b + HEADER + headers[b].size
         /\ End(b) \in Nat /\ b + HEADER <= End(b) /\ End(b) <= HEAP_SIZE
         /\ headers[b].next # Null => headers[b].next = End(b) /\ headers[b].next > b
         /\ headers[b].next = Null => End(b) = HEAP_SIZE
         /\ \A a \in Blocks : a > b => a >= End(b)
  <1>1. b \in 0 .. HEAP_SIZE - HEADER /\ headers[b] \in Headers
    BY DEF TypeOK
  <1>2. /\ headers[b].size \in 0 .. HEAP_SIZE
        /\ headers[b].free \in BOOLEAN
    BY <1>1 DEF Headers
  <1>3. /\ End(b) = b + HEADER + headers[b].size /\ b + HEADER <= End(b)
        /\ End(b) \in Nat
    BY <1>1, <1>2, HeapAssumption DEF End
  <1>4. /\ headers[b].next \in Blocks \cup {Null}
        /\ End(b) = IF headers[b].next = Null THEN HEAP_SIZE ELSE headers[b].next
        /\ \A a \in Blocks : b < a => End(b) <= a
    BY DEF BlocksTile
  <1>5. \A a \in Blocks : a \in 0 .. HEAP_SIZE - HEADER
    BY DEF TypeOK
  <1> QED
    BY <1>1, <1>2, <1>3, <1>4, <1>5, HeapAssumption

(* Rounding up to a multiple of ALIGN_BYTES.                               *)
LEMMA AlignedSize ==
  ASSUME NEW n \in Requests
  PROVE  AlignUp(n) \in Nat /\ AlignUp(n) >= n
  <1> DEFINE m == n + ALIGN_BYTES - 1
  <1>1. n \in 0 .. WORD - 1 /\ n + ALIGN_BYTES <= WORD
    BY HeapAssumption, NoRequestWraps
  <1>2. m \in Nat /\ m < WORD /\ m >= n
    BY <1>1, HeapAssumption
  <1>3. m % WORD = m
    BY <1>2, HeapAssumption
  <1>4. m % ALIGN_BYTES \in 0 .. ALIGN_BYTES - 1
    BY <1>2, HeapAssumption
  <1>5. m % ALIGN_BYTES <= m
    BY <1>2, HeapAssumption
  <1>6. AlignUp(n) = m - (m % ALIGN_BYTES)
    BY <1>3 DEF AlignUp
  <1> HIDE DEF m
  <1>7. m - (m % ALIGN_BYTES) \in Nat
    BY <1>2, <1>4, <1>5
  <1>8. m - (m % ALIGN_BYTES) >= n
    BY <1>1, <1>2, <1>4, HeapAssumption DEF m
  <1> QED
    BY <1>6, <1>7, <1>8

-----------------------------------------------------------------------------
(* Splitting and merging blocks.                                           *)

(* What the state after a split looks like.                                *)
LEMMA SplitEffect ==
  ASSUME TypeOK, BlocksTile, NEW b \in Blocks, Fits(b), Splits(b),
         headers' = Split(b), NEW rest, rest = Payload(b) + size
  PROVE  /\ rest \notin Blocks /\ rest \in Nat
         /\ b + HEADER <= rest /\ rest + HEADER <= End(b)
         /\ Blocks' = Blocks \cup {rest}
         /\ headers'[b] = [size |-> size, free |-> FALSE, next |-> rest]
         /\ headers'[rest] = [size |-> headers[b].size - size - HEADER,
                              free |-> TRUE, next |-> headers[b].next]
         /\ headers' \in [Blocks' -> Headers]
         /\ \A a \in Blocks \ {b} : headers'[a] = headers[a]
         /\ End(b)' = rest /\ End(rest)' = End(b)
         /\ \A a \in Blocks \ {b} : End(a)' = End(a)
  <1>1. size \in Nat
    BY DEF TypeOK
  <1>2. /\ b \in 0 .. HEAP_SIZE - HEADER
        /\ headers[b].size \in Nat /\ headers[b].size <= HEAP_SIZE
        /\ headers[b].next \in Blocks \cup {Null}
        /\ End(b) = b + HEADER + headers[b].size /\ End(b) <= HEAP_SIZE /\ End(b) \in Nat
        /\ \A a \in Blocks : a > b => a >= End(b)
    BY Geometry
  <1>3. headers[b].size - size >= HEADER + ALIGN_BYTES
    BY DEF Splits
  <1>4. rest = b + HEADER + size
    BY DEF Payload
  <1>5. /\ rest \in Nat /\ b + HEADER <= rest /\ rest + HEADER <= End(b)
        /\ rest > b /\ rest < End(b)
    BY <1>1, <1>2, <1>3, <1>4, HeapAssumption
  <1>6. rest \notin Blocks
    BY <1>2, <1>5
  <1>7. headers' = [a \in Blocks \cup {rest} |->
           IF a = b THEN [size |-> size, free |-> FALSE, next |-> rest]
           ELSE IF a = rest THEN [size |-> headers[b].size - size - HEADER,
                                  free |-> TRUE, next |-> headers[b].next]
           ELSE headers[a]]
    BY DEF Split
  <1>8. /\ Blocks' = Blocks \cup {rest}
        /\ headers'[b] = [size |-> size, free |-> FALSE, next |-> rest]
        /\ headers'[rest] = [size |-> headers[b].size - size - HEADER,
                             free |-> TRUE, next |-> headers[b].next]
        /\ \A a \in Blocks \ {b} : headers'[a] = headers[a]
    BY <1>6, <1>7 DEF Blocks
  <1>9. headers' \in [Blocks' -> Headers]
    <2>1. [size |-> size, free |-> FALSE, next |-> rest] \in Headers
      <3>1. size \in 0 .. HEAP_SIZE /\ rest \in 0 .. HEAP_SIZE
        BY <1>1, <1>2, <1>3, <1>5, HeapAssumption
      <3> QED
        BY <3>1 DEF Headers
    <2>2. [size |-> headers[b].size - size - HEADER, free |-> TRUE,
           next |-> headers[b].next] \in Headers
      <3>1. headers[b].size - size - HEADER \in 0 .. HEAP_SIZE
        BY <1>1, <1>2, <1>3, HeapAssumption
      <3>2. headers[b].next \in 0 .. HEAP_SIZE \cup {Null}
        BY DEF TypeOK, Headers
      <3> QED
        BY <3>1, <3>2 DEF Headers
    <2>3. headers \in [Blocks -> Headers]
      BY DEF TypeOK
    <2> QED
      BY <1>7, <1>8, <2>1, <2>2, <2>3
  <1>10. End(b)' = rest
    BY <1>4, <1>8 DEF End
  <1>11. End(rest)' = End(b)
    <2>1. End(rest)' = rest + HEADER + (headers[b].size - size - HEADER)
      BY <1>8 DEF End
    <2> QED
      BY <1>1, <1>2, <1>4, <1>5, <2>1, HeapAssumption
  <1>12. \A a \in Blocks \ {b} : End(a)' = End(a)
    BY <1>8 DEF End
  <1> QED
    BY <1>5, <1>6, <1>8, <1>9, <1>10, <1>11, <1>12

(* What the state after a merge looks like.                                *)
LEMMA MergeEffect ==
  ASSUME TypeOK, BlocksTile, Merge,
         NEW c \in Blocks, c = cur, NEW next, next = headers[c].next
  PROVE  /\ next \in Blocks /\ next = End(c) /\ c + HEADER <= next
         /\ Blocks' = Blocks \ {next}
         /\ headers'[c].free /\ headers'[c].next = headers[next].next
         /\ headers' \in [Blocks' -> Headers]
         /\ \A a \in Blocks' \ {c} : headers'[a] = headers[a]
         /\ End(c)' = End(next)
         /\ \A a \in Blocks' \ {c} : End(a)' = End(a)
  <1>1. next # Null
    BY DEF Merge, Coalescing
  <1>2. /\ c \in 0 .. HEAP_SIZE - HEADER /\ headers[c].size \in Nat
        /\ next \in Blocks /\ next = End(c)
        /\ c + HEADER <= next /\ End(c) = c + HEADER + headers[c].size
    BY <1>1, Geometry
  <1>3. /\ headers[next].size \in Nat /\ End(next) = next + HEADER + headers[next].size
        /\ End(next) <= HEAP_SIZE /\ next \in Nat
    BY <1>2, Geometry
  <1>4. headers[next].next \in 0 .. HEAP_SIZE \cup {Null}
    BY <1>2 DEF TypeOK, Headers
  <1> DEFINE merged == [size |-> MergedSize(c, next), free |-> TRUE,
                        next |-> headers[next].next]
  <1>5. headers' = [a \in Blocks \ {next} |-> IF a = c THEN merged ELSE headers[a]]
    BY DEF Merge
  <1>6. c # next
    BY <1>2, HeapAssumption
  <1>7. MergedSize(c, next) = headers[c].size + HEADER + headers[next].size
    BY DEF MergedSize
  <1>8. MergedSize(c, next) \in 0 .. HEAP_SIZE
    BY <1>2, <1>3, <1>7, HeapAssumption
  <1>9. merged \in Headers
    BY <1>4, <1>8 DEF Headers
  <1>10. Blocks' = Blocks \ {next} /\ headers'[c] = merged
         /\ \A a \in Blocks' \ {c} : headers'[a] = headers[a]
    BY <1>5, <1>6 DEF Blocks
  <1>11. headers' \in [Blocks' -> Headers]
    <2>1. headers \in [Blocks -> Headers]
      BY DEF TypeOK
    <2> HIDE DEF merged
    <2> QED
      BY <1>5, <1>9, <1>10, <2>1
  <1>12. End(c)' = c + HEADER + MergedSize(c, next)
    BY <1>10 DEF End
  <1>13. End(c)' = End(next)
    BY <1>2, <1>3, <1>7, <1>12, HeapAssumption
  <1>14. \A a \in Blocks' \ {c} : End(a)' = End(a)
    BY <1>10 DEF End
  <1> QED
    BY <1>2, <1>10, <1>11, <1>13, <1>14

(* Setting a block's free flag leaves the tiling alone.                    *)
LEMMA FlagEffect ==
  ASSUME TypeOK, BlocksTile, Covered, NEW b \in Blocks, NEW f \in BOOLEAN,
         headers' = [headers EXCEPT ![b].free = f]
  PROVE  /\ Blocks' = Blocks /\ headers' \in [Blocks' -> Headers]
         /\ headers'[b].free = f
         /\ \A a \in Blocks : /\ headers'[a].size = headers[a].size
                              /\ headers'[a].next = headers[a].next
                              /\ End(a)' = End(a)
         /\ \A a \in Blocks \ {b} : headers'[a] = headers[a]
         /\ BlocksTile' /\ Covered'
  <1>1. headers \in [Blocks -> Headers]
    BY DEF TypeOK
  <1>2. Blocks' = Blocks
    BY <1>1 DEF Blocks
  <1>3. /\ headers' = [headers EXCEPT ![b] = [headers[b] EXCEPT !.free = f]]
        /\ [headers[b] EXCEPT !.free = f] \in Headers
    BY <1>1 DEF Headers
  <1>4. headers' \in [Blocks' -> Headers]
    BY <1>1, <1>2, <1>3
  <1>5. headers'[b].free = f /\ \A a \in Blocks \ {b} : headers'[a] = headers[a]
    BY <1>1, <1>3 DEF Headers
  <1>6. \A a \in Blocks : /\ headers'[a].size = headers[a].size
                          /\ headers'[a].next = headers[a].next
    BY <1>1, <1>3 DEF Headers
  <1>7. \A a \in Blocks : End(a)' = End(a)
    BY <1>6 DEF End
  <1>8. BlocksTile'
    BY <1>2, <1>6, <1>7 DEF BlocksTile
  <1>9. Covered'
    BY <1>2, <1>7 DEF Covered
  <1> QED
    BY <1>2, <1>4, <1>5, <1>6, <1>7, <1>8, <1>9

(* A call begins, or a cursor moves: the blocks stay as they are.          *)
LEMMA SameBlocks ==
  ASSUME BlocksTile, Covered, UNCHANGED headers
  PROVE  /\ Blocks' = Blocks
         /\ \A b \in Blocks : End(b)' = End(b)
         /\ BlocksTile' /\ Covered'
         /\ \A b \in Blocks : Mergeable(b)' = Mergeable(b)
         /\ (live' = live) => (LiveIsAllocated' <=> LiveIsAllocated)
  <1>1. Blocks' = Blocks
    BY DEF Blocks
  <1>2. \A b \in Blocks : End(b)' = End(b)
    BY DEF End
  <1>3. BlocksTile'
    BY <1>1, <1>2 DEF BlocksTile
  <1>4. Covered'
    BY <1>1, <1>2 DEF Covered
  <1>5. \A b \in Blocks : Mergeable(b)' = Mergeable(b)
    BY DEF Mergeable, BothFree
  <1>6. (live' = live) => (LiveIsAllocated' <=> LiveIsAllocated)
    BY <1>1 DEF LiveIsAllocated, LiveBlocks
  <1> QED
    BY <1>1, <1>2, <1>3, <1>4, <1>5, <1>6

-----------------------------------------------------------------------------
(* The steps of kmalloc.                                                   *)

(* kmalloc's beginning: what it rounds the request to and where it starts  *)
(* to look.                                                                *)
LEMMA KmallocPreserves ==
  ASSUME HeapInv, NEW n \in Requests, Kmalloc(n)
  PROVE  HeapInv'
  <1> USE DEF HeapInv
  <1>1. AlignUp(n) \in Nat /\ n \in Nat
    BY AlignedSize, HeapAssumption
  <1>2. /\ Blocks' = Blocks /\ BlocksTile' /\ Covered' /\ LiveIsAllocated'
        /\ \A b \in Blocks : Mergeable(b)' = Mergeable(b)
    BY SameBlocks DEF Kmalloc
  <1>3. TypeOK'
    BY <1>1, <1>2 DEF TypeOK, Kmalloc, BlocksTile
  <1>4. Coalesced'
    BY <1>2 DEF Coalesced, Kmalloc
  <1>5. Searched'
    <2>1. \A b \in Blocks : ~(b < 0)
      BY HeapAssumption DEF TypeOK
    <2> QED
      BY <1>2, <2>1 DEF Searched, Kmalloc, Null
  <1> QED
    BY <1>2, <1>3, <1>4, <1>5

(* The search passes over a block that is allocated or too small.          *)
LEMMA SearchNextPreserves == HeapInv /\ SearchNext => HeapInv'
  <1> SUFFICES ASSUME HeapInv, SearchNext PROVE HeapInv'
    OBVIOUS
  <1> USE DEF HeapInv
  <1>1. /\ Blocks' = Blocks /\ BlocksTile' /\ Covered' /\ LiveIsAllocated'
        /\ \A b \in Blocks : Mergeable(b)' = Mergeable(b)
    BY SameBlocks DEF SearchNext
  <1>2. cur \in Blocks
    BY DEF TypeOK, SearchNext
  <1>3. /\ headers[cur].next \in Blocks \cup {Null}
        /\ headers[cur].next # Null => headers[cur].next = End(cur)
        /\ headers[cur].next = Null => End(cur) = HEAP_SIZE
        /\ \A a \in Blocks : a > cur => a >= End(cur)
        /\ End(cur) \in Nat
    BY <1>2, Geometry
  <1>4. TypeOK'
    BY <1>1, <1>3 DEF TypeOK, SearchNext
  <1>5. Coalesced'
    BY <1>1 DEF Coalesced, SearchNext
  <1>6. Searched'
    <2>1. \A b \in Blocks : b \in Nat /\ b < HEAP_SIZE
      BY HeapAssumption DEF TypeOK
    <2>2. ASSUME NEW b \in Blocks, cur' = Null \/ b < cur'
          PROVE  b < cur \/ b = cur
      BY <1>2, <1>3, <2>1, <2>2, HeapAssumption DEF SearchNext
    <2>3. \A b \in Blocks : Fits(b)' = Fits(b)
      BY DEF Fits, SearchNext
    <2> QED
      BY <1>1, <2>2, <2>3 DEF Searched, SearchNext
  <1> QED
    BY <1>1, <1>4, <1>5, <1>6

(* The block found becomes a live one and costs no other its place.        *)
LEMMA FoundIsLive ==
  ASSUME HeapInv, NEW b \in Blocks, headers[b].free,
         live' = live \cup {[ptr |-> Payload(b), asked |-> asked]},
         {a \in Blocks : ~headers[a].free}' = {a \in Blocks : ~headers[a].free} \cup {b}
  PROVE  LiveIsAllocated' /\ live' \subseteq [ptr : Nat, asked : Nat]
  <1> DEFINE new == [ptr |-> Payload(b), asked |-> asked]
  <1>1. b \in Nat /\ asked \in Nat /\ live \subseteq [ptr : Nat, asked : Nat]
    BY HeapAssumption DEF HeapInv, TypeOK
  <1>2. Payload(b) \in Nat /\ Payload(b) - HEADER = b
    BY <1>1, HeapAssumption DEF Payload
  <1>3. new \in [ptr : Nat, asked : Nat] /\ new.ptr - HEADER = b
    BY <1>1, <1>2
  <1>4. LiveBlocks' = LiveBlocks \cup {b}
    BY <1>3 DEF LiveBlocks
  <1>5. \A r \in live : r.ptr # new.ptr
    <2>1. \A r \in live : r.ptr - HEADER \in LiveBlocks
      BY DEF LiveBlocks
    <2>2. b \notin LiveBlocks
      BY DEF HeapInv, LiveIsAllocated
    <2> QED
      BY <1>3, <2>1, <2>2
  <1>6. \A r, s \in live' : r # s => r.ptr # s.ptr
    BY <1>5 DEF HeapInv, LiveIsAllocated
  <1> QED
    BY <1>1, <1>3, <1>4, <1>6 DEF HeapInv, LiveIsAllocated

(* The block found is split: its rest becomes a free block of its own,     *)
(* whose successor is no free one, since the block found was free.         *)
LEMMA FoundSplitPreserves ==
  ASSUME HeapInv, Found, Splits(cur)
  PROVE  HeapInv'
  <1> USE DEF HeapInv
  <1>1. PICK b \in Blocks : b = cur
    BY DEF TypeOK, Found
  <1>2. PICK rest : rest = Payload(b) + size
    OBVIOUS
  <1>3. headers' = Split(b) /\ Fits(b) /\ Splits(b)
    BY <1>1 DEF Found
  <1>4. /\ rest \notin Blocks /\ rest \in Nat
        /\ b + HEADER <= rest /\ rest + HEADER <= End(b)
        /\ Blocks' = Blocks \cup {rest}
        /\ headers'[b] = [size |-> size, free |-> FALSE, next |-> rest]
        /\ headers'[rest] = [size |-> headers[b].size - size - HEADER,
                             free |-> TRUE, next |-> headers[b].next]
        /\ headers' \in [Blocks' -> Headers]
        /\ \A a \in Blocks \ {b} : headers'[a] = headers[a]
        /\ End(b)' = rest /\ End(rest)' = End(b)
        /\ \A a \in Blocks \ {b} : End(a)' = End(a)
    BY <1>2, <1>3, SplitEffect
  <1>5. /\ b \in Nat /\ End(b) \in Nat /\ End(b) <= HEAP_SIZE
        /\ headers[b].next \in Blocks \cup {Null}
        /\ headers[b].next = Null => End(b) = HEAP_SIZE
        /\ headers[b].next # Null => headers[b].next = End(b)
        /\ \A a \in Blocks : a > b => a >= End(b)
        /\ \A a \in Blocks : a \in Nat
        /\ b < rest /\ rest < End(b)
    BY <1>4, Geometry, HeapAssumption DEF TypeOK
  <1>6. /\ pc' = "idle" /\ cur' = cur /\ size' = size /\ asked' = asked
        /\ heap_used' = heap_used + Charge(b) /\ pc = "search"
        /\ live' = live \cup {[ptr |-> Payload(b), asked |-> asked]}
    BY <1>1 DEF Found
  <1>7. {a \in Blocks : ~headers[a].free}' = {a \in Blocks : ~headers[a].free} \cup {b}
    BY <1>4
  <1>8. LiveIsAllocated' /\ live' \subseteq [ptr : Nat, asked : Nat]
    BY <1>3, <1>6, <1>7, FoundIsLive DEF Fits
  <1>9. TypeOK'
    <2>1. Blocks' \subseteq 0 .. HEAP_SIZE - HEADER
      BY <1>4, <1>5, HeapAssumption DEF TypeOK
    <2>2. heap_used' \in Int
      BY <1>4, <1>6, HeapAssumption DEF TypeOK, Charge
    <2> QED
      BY <1>4, <1>6, <1>8, <2>1, <2>2 DEF TypeOK
  <1>10. BlocksTile'
    <2>1. 0 \in Blocks'
      BY <1>4 DEF BlocksTile
    <2>2. ASSUME NEW a \in Blocks'
          PROVE  /\ headers'[a].next \in Blocks' \cup {Null}
                 /\ End(a)' = IF headers'[a].next = Null THEN HEAP_SIZE
                                                         ELSE headers'[a].next
      <3>1. rest # Null
        BY <1>4 DEF Null
      <3>2. CASE a = b
        BY <1>4, <3>1, <3>2
      <3>3. CASE a = rest
        BY <1>4, <1>5, <3>3
      <3>4. CASE a # b /\ a # rest
        <4>1. a \in Blocks /\ headers'[a] = headers[a] /\ End(a)' = End(a)
          BY <1>4, <3>4
        <4> QED
          BY <1>4, <4>1 DEF BlocksTile
      <3> QED
        BY <3>2, <3>3, <3>4
    <2>3. ASSUME NEW a \in Blocks', NEW d \in Blocks', a < d
          PROVE  End(a)' <= d
      <3>1. \A x, y \in Blocks : x < y => End(x) <= y
        BY DEF BlocksTile
      <3>2. CASE a = b
        BY <1>4, <1>5, <2>3, <3>1, <3>2
      <3>3. CASE a = rest
        BY <1>4, <1>5, <2>3, <3>1, <3>3
      <3>4. CASE a # b /\ a # rest /\ d = rest
        <4>1. a \in Blocks /\ End(a)' = End(a) /\ ~(a > b)
          BY <1>4, <1>5, <2>3, <3>4
        <4>2. a < b
          BY <1>5, <3>4, <4>1
        <4>3. End(a) <= b /\ End(a) \in Nat
          BY <3>1, <4>1, <4>2, Geometry
        <4> QED
          BY <1>4, <1>5, <3>4, <4>1, <4>3
      <3>5. CASE a # b /\ a # rest /\ d # rest
        BY <1>4, <2>3, <3>1, <3>5
      <3> QED
        BY <3>2, <3>3, <3>4, <3>5
    <2> QED
      BY <2>1, <2>2, <2>3 DEF BlocksTile
  <1>11. Covered'
    <2>1. ASSUME NEW x \in 0 .. HEAP_SIZE - 1
          PROVE  \E a \in Blocks' : a <= x /\ x < End(a)'
      <3>1. PICK a \in Blocks : a <= x /\ x < End(a)
        BY DEF Covered
      <3>2. CASE a # b
        BY <1>4, <3>1, <3>2
      <3>3. CASE a = b /\ x < rest
        BY <1>4, <3>1, <3>3
      <3>4. CASE a = b /\ ~(x < rest)
        <4>1. rest <= x /\ x < End(rest)'
          BY <1>4, <3>1, <3>4
        <4> QED
          BY <1>4, <4>1
      <3> QED
        BY <3>2, <3>3, <3>4
    <2> QED
      BY <2>1 DEF Covered
  <1>12. Coalesced'
    <2>1. ASSUME NEW a \in Blocks' PROVE ~Mergeable(a)'
      <3>1. \A x \in Blocks : ~Mergeable(x)
        BY <1>6 DEF Coalesced
      <3>2. CASE a = b
        BY <1>4, <3>2 DEF Mergeable, BothFree
      <3>3. CASE a = rest
        <4>1. headers'[a].next = headers[b].next
          BY <1>4, <3>3
        <4>2. CASE headers[b].next = Null
          BY <4>1, <4>2 DEF Mergeable
        <4>3. CASE headers[b].next # Null
          <5>1. ~headers[headers[b].next].free
            BY <1>3, <3>1, <4>3 DEF Mergeable, BothFree, Fits
          <5>2. headers[b].next \in Blocks \ {b}
            <6>1. b < End(b)
              BY <1>4, <1>5
            <6> QED
              BY <1>5, <4>3, <6>1
          <5> QED
            BY <1>4, <4>1, <5>1, <5>2 DEF Mergeable, BothFree
        <4> QED
          BY <4>2, <4>3
      <3>4. CASE a # b /\ a # rest
        <4>1. a \in Blocks /\ headers'[a] = headers[a]
          BY <1>4, <3>4
        <4>2. headers[a].next \in Blocks \cup {Null}
          BY <4>1 DEF BlocksTile
        <4>3. \A x \in Blocks : headers'[x].free => headers[x].free
          BY <1>4
        <4> QED
          BY <3>1, <4>1, <4>2, <4>3 DEF Mergeable, BothFree
      <3> QED
        BY <3>2, <3>3, <3>4
    <2> QED
      BY <1>6, <2>1 DEF Coalesced
  <1>13. Searched'
    BY <1>6 DEF Searched
  <1> QED
    BY <1>8, <1>9, <1>10, <1>11, <1>12, <1>13

(* The block found is taken whole.                                         *)
LEMMA FoundTakePreserves ==
  ASSUME HeapInv, Found, ~Splits(cur)
  PROVE  HeapInv'
  <1> USE DEF HeapInv
  <1>1. PICK b \in Blocks : b = cur
    BY DEF TypeOK, Found
  <1>2. headers' = [headers EXCEPT ![b].free = FALSE] /\ Fits(b)
    BY <1>1 DEF Found, Take
  <1>3. /\ Blocks' = Blocks /\ headers' \in [Blocks' -> Headers]
        /\ headers'[b].free = FALSE
        /\ \A a \in Blocks : /\ headers'[a].size = headers[a].size
                             /\ headers'[a].next = headers[a].next
        /\ \A a \in Blocks \ {b} : headers'[a] = headers[a]
        /\ BlocksTile' /\ Covered'
    BY <1>2, FlagEffect
  <1>4. /\ pc' = "idle" /\ cur' = cur /\ size' = size /\ asked' = asked
        /\ heap_used' = heap_used + Charge(b) /\ pc = "search"
        /\ live' = live \cup {[ptr |-> Payload(b), asked |-> asked]}
    BY <1>1 DEF Found
  <1>5. {a \in Blocks : ~headers[a].free}' = {a \in Blocks : ~headers[a].free} \cup {b}
    BY <1>3
  <1>6. LiveIsAllocated' /\ live' \subseteq [ptr : Nat, asked : Nat]
    BY <1>2, <1>4, <1>5, FoundIsLive DEF Fits
  <1>7. TypeOK'
    <2>1. headers'[b].size \in Nat
      BY <1>3, Geometry
    <2>2. heap_used' \in Int
      BY <1>4, <2>1, HeapAssumption DEF TypeOK, Charge
    <2> QED
      BY <1>3, <1>4, <1>6, <2>2 DEF TypeOK
  <1>8. Coalesced'
    <2>1. \A a \in Blocks : headers'[a].free => headers[a].free
      BY <1>3
    <2>2. \A a \in Blocks : headers[a].next \in Blocks \cup {Null}
      BY DEF BlocksTile
    <2>3. \A a \in Blocks : ~Mergeable(a)
      BY <1>4 DEF Coalesced
    <2>4. \A a \in Blocks' : ~Mergeable(a)'
      BY <1>3, <2>1, <2>2, <2>3 DEF Mergeable, BothFree
    <2> QED
      BY <1>4, <2>4 DEF Coalesced
  <1>9. Searched'
    BY <1>4 DEF Searched
  <1> QED
    BY <1>3, <1>6, <1>7, <1>8, <1>9

(* The search has passed over every block: kmalloc returns NULL.           *)
LEMMA OutOfMemoryPreserves == HeapInv /\ OutOfMemory => HeapInv'
  <1> SUFFICES ASSUME HeapInv, OutOfMemory PROVE HeapInv'
    OBVIOUS
  <1> USE DEF HeapInv
  <1>1. /\ Blocks' = Blocks /\ BlocksTile' /\ Covered' /\ LiveIsAllocated'
        /\ \A b \in Blocks : Mergeable(b)' = Mergeable(b)
    BY SameBlocks DEF OutOfMemory
  <1>2. TypeOK'
    BY <1>1 DEF TypeOK, OutOfMemory
  <1>3. Coalesced' /\ Searched'
    BY <1>1 DEF Coalesced, Searched, OutOfMemory
  <1> QED
    BY <1>1, <1>2, <1>3

-----------------------------------------------------------------------------
(* The steps of kfree.                                                     *)

(* kfree marks the block free, and the pass that merges begins.            *)
LEMMA KfreePreserves ==
  ASSUME HeapInv, NEW r \in live, Kfree(r)
  PROVE  HeapInv'
  <1> USE DEF HeapInv
  <1>1. PICK b \in Blocks : b = r.ptr - HEADER /\ ~headers[b].free
    BY DEF LiveIsAllocated, LiveBlocks
  <1>2. headers' = [headers EXCEPT ![b].free = TRUE]
    BY <1>1 DEF Kfree
  <1>3. /\ Blocks' = Blocks /\ headers' \in [Blocks' -> Headers]
        /\ headers'[b].free = TRUE
        /\ \A a \in Blocks \ {b} : headers'[a] = headers[a]
        /\ BlocksTile' /\ Covered'
    BY <1>2, FlagEffect
  <1>4. /\ pc' = "coalesce" /\ cur' = 0 /\ size' = size /\ asked' = asked
        /\ heap_used' = heap_used - (headers[b].size + HEADER)
        /\ live' = live \ {r}
    BY <1>1 DEF Kfree, CoalesceFrom
  <1>5. TypeOK'
    <2>1. headers[b].size \in Nat
      BY Geometry
    <2>2. heap_used' \in Int
      BY <1>4, <2>1, HeapAssumption DEF TypeOK
    <2> QED
      BY <1>3, <1>4, <2>2 DEF TypeOK, BlocksTile
  <1>6. LiveIsAllocated'
    <2>1. {a \in Blocks : ~headers[a].free}' = {a \in Blocks : ~headers[a].free} \ {b}
      BY <1>3
    <2>2. LiveBlocks' = LiveBlocks \ {b}
      <3>1. \A s \in live : s.ptr \in Nat
        BY DEF TypeOK
      <3>2. \A s \in live : s # r => s.ptr - HEADER # b
        BY <1>1, <3>1, HeapAssumption DEF LiveIsAllocated
      <3> QED
        BY <1>1, <1>4, <3>2 DEF LiveBlocks
    <2>3. \A s, t \in live' : s # t => s.ptr # t.ptr
      BY <1>4 DEF LiveIsAllocated
    <2> QED
      BY <2>1, <2>2, <2>3 DEF LiveIsAllocated
  <1>7. Coalesced'
    <2>1. \A a \in Blocks' : ~(a < 0)
      BY <1>3, HeapAssumption DEF TypeOK
    <2> QED
      BY <1>4, <2>1 DEF Coalesced, Null
  <1>8. Searched'
    BY <1>4 DEF Searched
  <1> QED
    BY <1>3, <1>5, <1>6, <1>7, <1>8

(* Swallowing the next block: what lay behind it lies behind the cursor.   *)
LEMMA MergePreserves == HeapInv /\ Merge => HeapInv'
  <1> SUFFICES ASSUME HeapInv, Merge PROVE HeapInv'
    OBVIOUS
  <1> USE DEF HeapInv
  <1>1. pc = "coalesce" /\ cur # Null
    BY DEF Merge, Coalescing, Coalesced
  <1>2. PICK c \in Blocks : c = cur
    BY <1>1 DEF TypeOK
  <1>3. PICK next : next = headers[c].next
    OBVIOUS
  <1>4. /\ next \in Blocks /\ next = End(c) /\ c + HEADER <= next
        /\ Blocks' = Blocks \ {next}
        /\ headers'[c].free /\ headers'[c].next = headers[next].next
        /\ headers' \in [Blocks' -> Headers]
        /\ \A a \in Blocks' \ {c} : headers'[a] = headers[a]
        /\ End(c)' = End(next)
        /\ \A a \in Blocks' \ {c} : End(a)' = End(a)
    BY <1>2, <1>3, MergeEffect
  <1>5. /\ \A a \in Blocks : a \in Nat /\ End(a) \in Nat /\ a < End(a)
        /\ c < next /\ c \in Blocks' /\ next # Null
    <2>1. \A a \in Blocks : a \in Nat
      BY HeapAssumption DEF TypeOK
    <2>2. \A a \in Blocks : End(a) \in Nat /\ a < End(a)
      BY <2>1, Geometry, HeapAssumption
    <2> QED
      BY <1>4, <2>1, <2>2, HeapAssumption DEF Null
  <1>6. \A x, y \in Blocks : x < y => End(x) <= y
    BY DEF BlocksTile
  <1>7. \A a \in Blocks : /\ headers[a].next \in Blocks \cup {Null}
                          /\ headers[a].next # Null => headers[a].next = End(a)
                          /\ headers[a].next = Null => End(a) = HEAP_SIZE
    BY DEF BlocksTile
  <1>8. headers[c].free /\ headers[next].free
    BY <1>2, <1>3 DEF Merge, BothFree
  <1>9. /\ pc' = pc /\ cur' = cur /\ size' = size /\ asked' = asked
        /\ heap_used' = heap_used /\ live' = live
    BY DEF Merge
  <1>10. TypeOK'
    BY <1>2, <1>4, <1>5, <1>9 DEF TypeOK
  (* Only the cursor's block leads to the next one.                        *)
  <1>11. \A a \in Blocks : headers[a].next = next => a = c
    <2>1. ASSUME NEW a \in Blocks, headers[a].next = next, a # c
          PROVE  FALSE
      <3>1. End(a) = End(c) /\ a < next
        BY <1>4, <1>5, <1>7, <2>1
      <3>2. CASE a < c
        BY <1>4, <1>5, <1>6, <3>1, <3>2
      <3>3. CASE c < a
        BY <1>4, <1>5, <1>6, <3>1, <3>3
      <3> QED
        BY <1>5, <2>1, <3>2, <3>3
    <2> QED
      BY <2>1
  <1>12. headers[next].next # next
    BY <1>5, <1>11, <1>4
  <1>13. BlocksTile'
    <2>1. 0 \in Blocks'
      <3>1. next # 0
        BY <1>5
      <3> QED
        BY <1>4, <3>1 DEF BlocksTile
    <2>2. ASSUME NEW a \in Blocks'
          PROVE  /\ headers'[a].next \in Blocks' \cup {Null}
                 /\ End(a)' = IF headers'[a].next = Null THEN HEAP_SIZE
                                                         ELSE headers'[a].next
      <3>1. CASE a = c
        BY <1>4, <1>7, <1>12, <3>1
      <3>2. CASE a # c
        <4>1. a \in Blocks /\ headers'[a] = headers[a] /\ End(a)' = End(a)
          BY <1>4, <3>2
        <4> QED
          BY <1>4, <1>7, <1>11, <3>2, <4>1
      <3> QED
        BY <3>1, <3>2
    <2>3. ASSUME NEW a \in Blocks', NEW d \in Blocks', a < d
          PROVE  End(a)' <= d
      <3>1. a \in Blocks /\ d \in Blocks /\ d # next
        BY <1>4
      <3>2. CASE a = c
        <4>1. next < d
          BY <1>4, <1>5, <1>6, <2>3, <3>1, <3>2
        <4> QED
          BY <1>4, <1>6, <3>1, <3>2, <4>1
      <3>3. CASE a # c
        BY <1>4, <1>6, <2>3, <3>1, <3>3
      <3> QED
        BY <3>2, <3>3
    <2> QED
      BY <2>1, <2>2, <2>3 DEF BlocksTile
  <1>14. Covered'
    <2>1. ASSUME NEW x \in 0 .. HEAP_SIZE - 1
          PROVE  \E a \in Blocks' : a <= x /\ x < End(a)'
      <3>1. PICK a \in Blocks : a <= x /\ x < End(a)
        BY DEF Covered
      <3>2. CASE a = c \/ a = next
        <4>1. c <= x /\ x < End(next)
          <5>1. End(c) <= End(next)
            BY <1>4, <1>5
          <5> QED
            BY <1>4, <1>5, <3>1, <3>2, <5>1
        <4> QED
          BY <1>4, <1>5, <4>1
      <3>3. CASE a # c /\ a # next
        BY <1>4, <3>1, <3>3
      <3> QED
        BY <3>2, <3>3
    <2> QED
      BY <2>1 DEF Covered
  <1>15. LiveIsAllocated'
    <2>1. {a \in Blocks : ~headers[a].free}' = {a \in Blocks : ~headers[a].free}
      BY <1>4, <1>5, <1>8
    <2>2. LiveBlocks' = LiveBlocks
      BY <1>9 DEF LiveBlocks
    <2> QED
      BY <1>9, <2>1, <2>2 DEF LiveIsAllocated
  <1>16. Coalesced'
    <2>1. ASSUME NEW a \in Blocks', a < cur'
          PROVE  ~Mergeable(a)'
      <3>1. a \in Blocks /\ a # c /\ headers'[a] = headers[a] /\ a < cur
        BY <1>2, <1>4, <1>5, <1>9, <2>1
      <3>2. ~Mergeable(a) /\ headers[a].next # next
        BY <1>1, <1>11, <3>1 DEF Coalesced
      <3>3. headers[a].next # Null =>
              (headers[a].next \in Blocks'
               /\ (headers'[headers[a].next].free => headers[headers[a].next].free))
        BY <1>4, <1>7, <1>8, <3>1, <3>2
      <3> QED
        BY <3>1, <3>2, <3>3 DEF Mergeable, BothFree
    <2> QED
      BY <1>1, <1>9, <2>1 DEF Coalesced
  <1>17. Searched'
    BY <1>1, <1>9 DEF Searched
  <1> QED
    BY <1>10, <1>13, <1>14, <1>15, <1>16, <1>17

(* The pass leaves behind a block that it cannot merge.                    *)
LEMMA CoalesceNextPreserves == HeapInv /\ CoalesceNext => HeapInv'
  <1> SUFFICES ASSUME HeapInv, CoalesceNext PROVE HeapInv'
    OBVIOUS
  <1> USE DEF HeapInv
  <1>1. /\ Blocks' = Blocks /\ BlocksTile' /\ Covered' /\ LiveIsAllocated'
        /\ \A b \in Blocks : Mergeable(b)' = Mergeable(b)
    BY SameBlocks DEF CoalesceNext
  <1>2. /\ pc = "coalesce" /\ cur \in Blocks /\ headers[cur].next # Null
        /\ cur' = headers[cur].next /\ pc' = pc /\ ~Mergeable(cur)
    BY DEF CoalesceNext, Coalescing, Coalesced, TypeOK, Passes, Mergeable
  <1>3. /\ headers[cur].next \in Blocks /\ headers[cur].next = End(cur)
        /\ \A a \in Blocks : a > cur => a >= End(cur)
        /\ End(cur) \in Nat
    BY <1>2, Geometry
  <1>4. TypeOK'
    BY <1>1, <1>2, <1>3 DEF TypeOK, CoalesceNext
  <1>5. Coalesced'
    <2>1. ASSUME NEW a \in Blocks, a < cur'
          PROVE  a < cur \/ a = cur
      <3>1. a \in Nat /\ cur \in Nat
        BY <1>2, HeapAssumption DEF TypeOK
      <3> QED
        BY <1>2, <1>3, <2>1, <3>1
    <2>2. cur' # Null
      BY <1>2
    <2> QED
      BY <1>1, <1>2, <2>1, <2>2 DEF Coalesced
  <1>6. Searched'
    BY <1>2 DEF Searched
  <1> QED
    BY <1>1, <1>4, <1>5, <1>6

(* At the end of the list every block has been passed.                     *)
LEMMA CoalesceDonePreserves == HeapInv /\ CoalesceDone => HeapInv'
  <1> SUFFICES ASSUME HeapInv, CoalesceDone PROVE HeapInv'
    OBVIOUS
  <1> USE DEF HeapInv
  <1>1. /\ Blocks' = Blocks /\ BlocksTile' /\ Covered' /\ LiveIsAllocated'
        /\ \A b \in Blocks : Mergeable(b)' = Mergeable(b)
    BY SameBlocks DEF CoalesceDone
  <1>2. pc = "coalesce" /\ cur \in Blocks /\ headers[cur].next = Null /\ pc' = "idle"
    BY DEF CoalesceDone, Coalesced, TypeOK
  <1>3. TypeOK'
    BY <1>1 DEF TypeOK, CoalesceDone
  <1>4. Coalesced'
    <2>1. ASSUME NEW a \in Blocks PROVE a < cur \/ a = cur
      <3>1. /\ a \in Nat /\ cur \in Nat /\ a < HEAP_SIZE
            /\ a > cur => a >= HEAP_SIZE
        BY <1>2, Geometry, HeapAssumption DEF TypeOK
      <3> QED
        BY <3>1, HeapAssumption
    <2>2. ~Mergeable(cur)
      BY <1>2 DEF Mergeable
    <2> QED
      BY <1>1, <1>2, <2>1, <2>2 DEF Coalesced
  <1>5. Searched'
    BY <1>2 DEF Searched
  <1> QED
    BY <1>1, <1>3, <1>4, <1>5

-----------------------------------------------------------------------------
(* The heap starts as one free block.                                      *)
LEMMA HeapInitially == Init => HeapInv
  <1> SUFFICES ASSUME Init PROVE HeapInv
    OBVIOUS
  <1> DEFINE first == [size |-> HEAP_SIZE - HEADER, free |-> TRUE, next |-> Null]
  <1>1. headers = [b \in {0} |-> first] /\ Blocks = {0} /\ headers[0] = first
    BY DEF Init, Blocks
  <1>2. first \in Headers
    <2>1. HEAP_SIZE - HEADER \in 0 .. HEAP_SIZE
      BY HeapAssumption
    <2> QED
      BY <2>1 DEF Headers
  <1>3. End(0) = HEAP_SIZE
    BY <1>1, HeapAssumption DEF End
  <1>4. TypeOK
    <2>1. Blocks \subseteq 0 .. HEAP_SIZE - HEADER
      BY <1>1, HeapAssumption
    <2>2. headers \in [Blocks -> Headers]
      BY <1>1, <1>2
    <2>3. /\ heap_used = 0 /\ pc = "idle" /\ cur = Null /\ size = 0 /\ asked = 0
          /\ live = {}
      BY DEF Init
    <2> QED
      BY <2>1, <2>2, <2>3 DEF TypeOK
  <1>5. BlocksTile
    BY <1>1, <1>3 DEF BlocksTile
  <1>6. Covered
    BY <1>1, <1>3, HeapAssumption DEF Covered
  <1>7. LiveIsAllocated
    BY <1>1 DEF Init, LiveIsAllocated, LiveBlocks
  <1>8. Coalesced /\ Searched
    BY <1>1 DEF Init, Coalesced, Searched, Mergeable
  <1> QED
    BY <1>4, <1>5, <1>6, <1>7, <1>8 DEF HeapInv

(* Every step of kmalloc and kfree keeps the invariant.                    *)
LEMMA HeapStep == HeapInv /\ [Next]_vars => HeapInv'
  <1> SUFFICES ASSUME HeapInv, [Next]_vars PROVE HeapInv'
    OBVIOUS
  <1>1. CASE UNCHANGED vars
    BY <1>1 DEF vars, HeapInv, TypeOK, Blocks, BlocksTile, End, Covered,
                LiveIsAllocated, LiveBlocks, Coalesced, Mergeable, BothFree,
                Searched, Fits
  <1>2. CASE Found
    BY <1>2, FoundSplitPreserves, FoundTakePreserves
  <1> QED
    BY <1>1, <1>2, KmallocPreserves, SearchNextPreserves, OutOfMemoryPreserves,
       KfreePreserves, MergePreserves, CoalesceNextPreserves,
       CoalesceDonePreserves DEF Next

(* The blocks callers hold keep the size they were given.                  *)
LEMMA LargeEnoughStep ==
  HeapInv /\ LargeEnough /\ [Next]_vars => LargeEnough'
  <1> SUFFICES ASSUME HeapInv, LargeEnough, [Next]_vars PROVE LargeEnough'
    OBVIOUS
  <1> USE DEF HeapInv
  <1>1. \A r \in live : r.ptr - HEADER \in Blocks /\ ~headers[r.ptr - HEADER].free
    BY DEF LiveIsAllocated, LiveBlocks
  <1>2. ASSUME NEW n \in Requests, Kmalloc(n)
        PROVE  LargeEnough'
    BY <1>2, AlignedSize DEF Kmalloc, LargeEnough
  <1>3. CASE SearchNext \/ OutOfMemory \/ CoalesceNext \/ CoalesceDone \/ UNCHANGED vars
    BY <1>3 DEF SearchNext, OutOfMemory, CoalesceNext, CoalesceDone, vars, LargeEnough
  <1>4. CASE Found
    <2>1. PICK b \in Blocks : b = cur /\ Fits(b)
      BY <1>4 DEF TypeOK, Found
    <2>2. /\ pc = "search" /\ pc' = "idle"
          /\ live' = live \cup {[ptr |-> Payload(b), asked |-> asked]}
          /\ headers' = IF Splits(b) THEN Split(b) ELSE Take(b)
      BY <1>4, <2>1 DEF Found
    <2>3. /\ headers'[b].size >= size
          /\ \A a \in Blocks \ {b} : headers'[a] = headers[a]
      <3>1. CASE Splits(b)
        <4>1. PICK rest : rest = Payload(b) + size
          OBVIOUS
        <4>2. headers'[b] = [size |-> size, free |-> FALSE, next |-> rest]
              /\ \A a \in Blocks \ {b} : headers'[a] = headers[a]
          BY <2>1, <2>2, <3>1, <4>1, SplitEffect
        <4> QED
          BY <4>2 DEF TypeOK
      <3>2. CASE ~Splits(b)
        <4>1. headers' = [headers EXCEPT ![b].free = FALSE]
          BY <2>2, <3>2 DEF Take
        <4>2. /\ headers'[b].size = headers[b].size
              /\ \A a \in Blocks \ {b} : headers'[a] = headers[a]
          BY <4>1, FlagEffect
        <4> QED
          BY <2>1, <4>2 DEF Fits
      <3> QED
        BY <3>1, <3>2
    <2>4. headers'[b].size >= asked
      <3>1. headers'[b].size \in Int /\ size \in Int /\ asked \in Int
        <4>1. HeapInv'
          BY HeapStep
        <4>2. b \in Blocks'
          <5>1. b \in DOMAIN headers'
            BY <2>2 DEF Split, Take, Blocks
          <5> QED
            BY <5>1 DEF Blocks
        <4> QED
          BY <4>1, <4>2 DEF TypeOK, Headers
      <3> QED
        BY <2>2, <2>3, <3>1 DEF LargeEnough
    <2>5. ASSUME NEW r \in live' PROVE headers'[r.ptr - HEADER].size >= r.asked
      <3>1. CASE r \in live
        <4>1. r.ptr - HEADER \in Blocks \ {b}
          BY <1>1, <2>1, <3>1 DEF Fits
        <4> QED
          BY <2>3, <3>1, <4>1 DEF LargeEnough
      <3>2. CASE r = [ptr |-> Payload(b), asked |-> asked]
        <4>1. r.ptr - HEADER = b
          BY <2>1, <3>2, HeapAssumption DEF Payload, TypeOK
        <4> QED
          BY <2>4, <3>2, <4>1
      <3> QED
        BY <2>2, <3>1, <3>2
    <2> QED
      BY <2>2, <2>5 DEF LargeEnough
  <1>5. ASSUME NEW r \in live, Kfree(r)
        PROVE  LargeEnough'
    <2>1. PICK b \in Blocks : b = r.ptr - HEADER
      BY <1>1
    <2>2. headers' = [headers EXCEPT ![b].free = TRUE]
      BY <1>5, <2>1 DEF Kfree
    <2>3. \A a \in Blocks : headers'[a].size = headers[a].size
      BY <2>2, FlagEffect
    <2> QED
      BY <1>1, <1>5, <2>3 DEF Kfree, LargeEnough
  <1>6. CASE Merge
    <2>1. PICK c \in Blocks : c = cur
      BY <1>6 DEF Merge, Coalescing, Coalesced, TypeOK
    <2>2. PICK next : next = headers[c].next
      OBVIOUS
    <2>3. /\ Blocks' = Blocks \ {next}
          /\ \A a \in Blocks' \ {c} : headers'[a] = headers[a]
      BY <1>6, <2>1, <2>2, MergeEffect
    <2>4. headers[c].free /\ headers[next].free
      BY <1>6, <2>1, <2>2 DEF Merge, BothFree
    <2>5. \A r \in live : headers'[r.ptr - HEADER] = headers[r.ptr - HEADER]
      BY <1>1, <2>3, <2>4
    <2> QED
      BY <1>6, <2>5 DEF Merge, LargeEnough
  <1> QED
    BY <1>2, <1>3, <1>4, <1>5, <1>6 DEF Next

-----------------------------------------------------------------------------
(* What heap_used counts.                                                  *)

(* A block costs its size and its header while it is allocated; no other   *)
(* address costs anything.                                                 *)
CostsAllocated ==
  /\ Cost \in Costs
  /\ \A b \in Blocks :
       /\ b \in 0 .. HEAP_SIZE - 1
       /\ Cost[b] = IF headers[b].free THEN 0 ELSE headers[b].size + HEADER
  /\ \A a \in 0 .. HEAP_SIZE - 1 : a \notin Blocks => Cost[a] = 0

LEMMA CostOfBlock == HeapInv => CostsAllocated
<1> SUFFICES ASSUME HeapInv PROVE CostsAllocated
  OBVIOUS
<1>1. \A b \in Blocks : b \in 0 .. HEAP_SIZE - 1 /\ headers[b].size \in Nat
  BY Geometry, HeapAssumption DEF HeapInv
<1>2. Cost \in Costs
  BY <1>1, HeapAssumption DEF Cost, Costs
<1> QED BY <1>1, <1>2 DEF Cost, CostsAllocated

(* A block is taken or given back: heap_used follows.                      *)
LEMMA UsedStep ==
  HeapInv /\ UsedIsAllocated /\ [Next]_vars => UsedIsAllocated'
<1> SUFFICES ASSUME HeapInv, UsedIsAllocated, [Next]_vars PROVE UsedIsAllocated'
  OBVIOUS
<1>1. HeapInv'
  BY HeapStep
<1>2. /\ Cost \in Costs
      /\ \A b \in Blocks :
           /\ b \in 0 .. HEAP_SIZE - 1
           /\ Cost[b] = IF headers[b].free THEN 0 ELSE headers[b].size + HEADER
      /\ \A a \in 0 .. HEAP_SIZE - 1 : a \notin Blocks => Cost[a] = 0
  BY CostOfBlock DEF CostsAllocated
<1>3. /\ Cost' \in Costs
      /\ \A b \in Blocks' :
           /\ b \in 0 .. HEAP_SIZE - 1
           /\ Cost'[b] = IF headers'[b].free THEN 0 ELSE headers'[b].size + HEADER
      /\ \A a \in 0 .. HEAP_SIZE - 1 : a \notin Blocks' => Cost'[a] = 0
  <2>1. CostsAllocated'
    BY <1>1, CostOfBlock, PTL
  <2> QED BY <2>1 DEF CostsAllocated
<1>4. PICK old \in Costs : old = Cost
  BY <1>2
<1>5. PICK new \in Costs : new = Cost'
  BY <1>3
<1>6. heap_used = Total(old) /\ heap_used \in Int
  BY <1>4 DEF UsedIsAllocated, HeapInv, TypeOK
<1>7. SUFFICES heap_used' = Total(new)
  BY <1>5 DEF UsedIsAllocated
<1>8. CASE UNCHANGED <<headers, heap_used>>
  <2>1. Cost' = Cost
    BY <1>8 DEF Cost, Blocks
  <2> QED BY <1>4, <1>5, <1>6, <1>8, <2>1
<1>9. CASE Found
  <2>1. PICK b \in Blocks : b = cur /\ Fits(b)
    BY <1>9 DEF HeapInv, TypeOK, Found
  <2>2. /\ heap_used' = heap_used + (headers'[b].size + HEADER)
        /\ headers' = IF Splits(b) THEN Split(b) ELSE Take(b)
    BY <1>9, <2>1 DEF Found, Charge
  <2>3. /\ b \in Blocks' /\ ~headers'[b].free
        /\ \A a \in Blocks \ {b} : a \in Blocks' /\ headers'[a] = headers[a]
        /\ \A a \in Blocks' \ Blocks : headers'[a].free
    <3>1. CASE Splits(b)
      <4>1. PICK rest : rest = Payload(b) + size
        OBVIOUS
      <4>2. /\ rest \notin Blocks /\ Blocks' = Blocks \cup {rest}
            /\ headers'[b] = [size |-> size, free |-> FALSE, next |-> rest]
            /\ headers'[rest] = [size |-> headers[b].size - size - HEADER,
                                 free |-> TRUE, next |-> headers[b].next]
            /\ \A a \in Blocks \ {b} : headers'[a] = headers[a]
        BY <2>1, <2>2, <3>1, <4>1, SplitEffect DEF HeapInv
      <4> QED BY <4>2
    <3>2. CASE ~Splits(b)
      <4>1. headers' = [headers EXCEPT ![b].free = FALSE]
        BY <2>2, <3>2 DEF Take
      <4>2. /\ Blocks' = Blocks /\ headers'[b].free = FALSE
            /\ \A a \in Blocks \ {b} : headers'[a] = headers[a]
        BY <4>1, FlagEffect DEF HeapInv
      <4> QED BY <4>2
    <3> QED BY <3>1, <3>2
  <2>4. /\ b \in 0 .. HEAP_SIZE - 1
        /\ old[b] = 0 /\ new[b] = headers'[b].size + HEADER
    BY <1>2, <1>3, <1>4, <1>5, <2>1, <2>3 DEF Fits
  <2>5. ASSUME NEW a \in 0 .. HEAP_SIZE - 1, a # b PROVE new[a] = old[a]
    <3>1. CASE a \in Blocks
      BY <1>2, <1>3, <1>4, <1>5, <2>3, <2>5, <3>1
    <3>2. CASE a \notin Blocks
      <4>1. CASE a \in Blocks'
        BY <1>2, <1>3, <1>4, <1>5, <2>3, <3>2, <4>1
      <4>2. CASE a \notin Blocks'
        BY <1>2, <1>3, <1>4, <1>5, <3>2, <4>2
      <4> QED BY <4>1, <4>2
    <3> QED BY <3>1, <3>2
  <2>6. Total(new) = Total(old) + (new[b] - old[b])
    BY <2>4, <2>5, TotalChangesAtOne
  <2>7. new[b] \in Int
    BY <2>4 DEF Costs
  <2> QED BY <1>6, <2>2, <2>4, <2>6, <2>7
<1>10. ASSUME NEW r \in live, Kfree(r)
       PROVE  heap_used' = Total(new)
  <2>1. PICK b \in Blocks : b = r.ptr - HEADER /\ ~headers[b].free
    BY DEF HeapInv, LiveIsAllocated, LiveBlocks
  <2>2. /\ headers' = [headers EXCEPT ![b].free = TRUE]
        /\ heap_used' = heap_used - (headers[b].size + HEADER)
    BY <1>10, <2>1 DEF Kfree
  <2>3. /\ Blocks' = Blocks /\ headers'[b].free = TRUE
        /\ \A a \in Blocks \ {b} : headers'[a] = headers[a]
    BY <2>2, FlagEffect DEF HeapInv
  <2>4. /\ b \in 0 .. HEAP_SIZE - 1
        /\ old[b] = headers[b].size + HEADER /\ new[b] = 0
    BY <1>2, <1>3, <1>4, <1>5, <2>1, <2>3
  <2>5. ASSUME NEW a \in 0 .. HEAP_SIZE - 1, a # b PROVE new[a] = old[a]
    BY <1>2, <1>3, <1>4, <1>5, <2>3, <2>5
  <2>6. Total(new) = Total(old) + (new[b] - old[b])
    BY <2>4, <2>5, TotalChangesAtOne
  <2>7. old[b] \in Int
    BY <2>4 DEF Costs
  <2> QED BY <1>6, <2>2, <2>4, <2>6, <2>7
(* Merging moves bytes between free blocks: no address changes its cost.   *)
<1>11. CASE Merge
  <2>1. PICK c \in Blocks : c = cur
    BY <1>11 DEF Merge, Coalescing, Coalesced, HeapInv, TypeOK
  <2>2. PICK next : next = headers[c].next
    OBVIOUS
  <2>3. /\ next \in Blocks /\ Blocks' = Blocks \ {next} /\ headers'[c].free
        /\ \A a \in Blocks' \ {c} : headers'[a] = headers[a]
    BY <1>11, <2>1, <2>2, MergeEffect DEF HeapInv
  <2>4. headers[c].free /\ headers[next].free /\ heap_used' = heap_used
    BY <1>11, <2>1, <2>2 DEF Merge, BothFree
  <2>5. ASSUME NEW a \in 0 .. HEAP_SIZE - 1 PROVE new[a] = old[a]
    <3>1. CASE a \in Blocks' \ {c}
      BY <1>2, <1>3, <1>4, <1>5, <2>3, <3>1
    <3>2. CASE a = c \/ a = next
      BY <1>2, <1>3, <1>4, <1>5, <2>3, <2>4, <3>2
    <3>3. CASE a \notin Blocks
      BY <1>2, <1>3, <1>4, <1>5, <2>3, <3>3
    <3> QED BY <2>3, <3>1, <3>2, <3>3
  <2>6. new = old
    <3>1. /\ new = [a \in 0 .. HEAP_SIZE - 1 |-> new[a]]
          /\ old = [a \in 0 .. HEAP_SIZE - 1 |-> old[a]]
      BY DEF Costs
    <3> QED BY <2>5, <3>1
  <2> QED BY <1>6, <2>4, <2>6
<1> QED
  BY <1>8, <1>9, <1>10, <1>11
     DEF Next, Kmalloc, SearchNext, OutOfMemory, CoalesceNext, CoalesceDone, vars

-----------------------------------------------------------------------------
(* The heap's invariant, through every sequence of calls.                  *)
THEOREM HeapInvariant == Spec => []HeapInv
  BY HeapInitially, HeapStep, PTL DEF Spec

(* Every variable of the allocator keeps its type: a cursor is a block or  *)
(* NULL, a header lies within heap_storage.                                *)
THEOREM HeapTypeCorrect == Spec => []TypeOK
  <1>1. HeapInv => TypeOK
    BY DEF HeapInv
  <1> QED
    BY <1>1, HeapInvariant, PTL

(* After every iteration of every loop of kmalloc and kfree the block list *)
(* covers the heap without gap or overlap.                                 *)
THEOREM HeapStaysTiled == Spec => []BlocksTile
  <1>1. HeapInv => BlocksTile
    BY DEF HeapInv
  <1> QED
    BY <1>1, HeapInvariant, PTL

(* kfree's single pass leaves no two neighbours free.                      *)
THEOREM HeapIsCoalesced == Spec => []NoAdjacentFree
  <1>1. HeapInv => NoAdjacentFree
    BY DEF HeapInv, Coalesced, NoAdjacentFree, Mergeable
  <1> QED
    BY <1>1, HeapInvariant, PTL

(* What callers hold is allocated, apart from one another, and as large as *)
(* they asked.                                                             *)
THEOREM CallersGetTheirBytes == Spec => []LiveHoldsRequest
  <1>1. Init => LargeEnough
    BY DEF Init, LargeEnough
  <1>2. HeapInv /\ LargeEnough => LiveHoldsRequest
    BY DEF HeapInv, LiveIsAllocated, LargeEnough, LiveHoldsRequest
  <1> QED
    BY <1>1, <1>2, HeapInvariant, LargeEnoughStep, PTL DEF Spec

(* heap_used, which memory_print_stats reports, is the sum over the        *)
(* allocated blocks, headers included, through every sequence of calls in  *)
(* which callers free what they hold, and once.                            *)
THEOREM UsedNeverDrifts == Spec => []UsedIsAllocated
  <1>1. Init => UsedIsAllocated
    <2> SUFFICES ASSUME Init PROVE UsedIsAllocated
      OBVIOUS
    <2>1. HeapInv
      BY HeapInitially
    <2>2. Blocks = {0} /\ headers[0].free /\ heap_used = 0
      BY DEF Init, Blocks
    <2>3. \A x \in 0 .. HEAP_SIZE - 1 : Cost[x] = 0
      BY <2>1, <2>2, CostOfBlock DEF CostsAllocated
    <2> QED BY <2>2, <2>3, TotalOfNothing DEF UsedIsAllocated
  <1> QED
    BY <1>1, HeapInvariant, UsedStep, PTL DEF Spec

(* How far a loop has come: where its block begins and ends.               *)
Reached == IF cur = Null THEN 2 * HEAP_SIZE + 1 ELSE cur + End(cur)

Advances == pc # "idle" => /\ Reached \in 0 .. 2 * HEAP_SIZE + 1
                           /\ pc' # "idle" => pc' = pc /\ Reached' > Reached

(* No iteration of kmalloc's search or of kfree's pass is in vain, and     *)
(* there is an end to what they can reach: the list has no cycle, whatever *)
(* was merged and split before.  (The safety part of CallsReturn.)         *)
THEOREM LoopsAdvance == Spec => [][Advances]_vars
  <1>1. HeapInv /\ [Next]_vars => [Advances]_vars
    <2> SUFFICES ASSUME HeapInv, Next, pc # "idle" PROVE Advances
      BY DEF Advances
    <2> USE DEF HeapInv
    <2>1. cur = Null \/ cur \in Blocks
      BY DEF TypeOK
    <2>2. \A b \in Blocks : /\ b \in 0 .. HEAP_SIZE /\ End(b) \in 0 .. HEAP_SIZE
                            /\ b < End(b)
                            /\ headers[b].next # Null =>
                                 headers[b].next = End(b) /\ headers[b].next \in Blocks
      BY Geometry, HeapAssumption
    <2>3. Reached \in 0 .. 2 * HEAP_SIZE + 1
      BY <2>1, <2>2, HeapAssumption DEF Reached
    <2>4. CASE SearchNext
      <3>1. /\ pc' = pc /\ cur \in Blocks /\ cur # Null /\ cur' = headers[cur].next
            /\ headers' = headers
        BY <2>1, <2>4 DEF SearchNext
      <3>2. \A b \in Blocks : End(b)' = End(b)
        BY <3>1 DEF End
      <3>3. Reached' > Reached
        BY <2>2, <3>1, <3>2, HeapAssumption DEF Reached
      <3> QED
        BY <2>3, <3>1, <3>3 DEF Advances
    <2>5. CASE CoalesceNext
      <3>1. /\ pc' = pc /\ cur' = headers[cur].next /\ cur' # Null /\ cur # Null
            /\ headers' = headers
        BY <2>5 DEF CoalesceNext, Coalescing, Passes, Coalesced
      <3>2. \A b \in Blocks : End(b)' = End(b)
        BY <3>1 DEF End
      <3>3. Reached' > Reached
        BY <2>1, <2>2, <3>1, <3>2, HeapAssumption DEF Reached
      <3> QED
        BY <2>3, <3>1, <3>3 DEF Advances
    <2>6. CASE Merge
      <3>1. PICK c \in Blocks : c = cur /\ c # Null
        BY <2>1, <2>6 DEF Merge, Coalescing, Coalesced
      <3>2. PICK next : next = headers[c].next
        OBVIOUS
      <3>3. next \in Blocks /\ next = End(c) /\ End(c)' = End(next)
        BY <2>6, <3>1, <3>2, MergeEffect
      <3>4. pc' = pc /\ cur' = cur
        BY <2>6 DEF Merge
      <3>5. Reached' = c + End(c)' /\ Reached = c + End(c)
        BY <3>1, <3>4 DEF Reached
      <3>6. Reached' > Reached
        BY <2>2, <3>1, <3>3, <3>5, HeapAssumption
      <3> QED
        BY <2>3, <3>4, <3>6 DEF Advances
    <2>7. CASE Found \/ OutOfMemory \/ CoalesceDone
      BY <2>3, <2>7 DEF Found, OutOfMemory, CoalesceDone, Advances
    <2> QED
      BY <2>4, <2>5, <2>6, <2>7 DEF Next, Kmalloc, Kfree
  <1> QED
    BY <1>1, HeapInvariant, PTL DEF Spec

(* kmalloc returns NULL only when no gap between live blocks is wide       *)
(* enough: the search has refused every block, and neighbouring free       *)
(* blocks, which might be wide enough together, do not exist.              *)
THEOREM NullMeansNoGap == Spec => []NullOnlyWithoutGap
  <1>1. HeapInv => NullOnlyWithoutGap
    <2> SUFFICES ASSUME HeapInv, pc = "search", cur = Null,
                        NEW a \in 0 .. HEAP_SIZE - (HEADER + size)
                 PROVE  \E i \in a .. a + HEADER + size - 1 : Reserved(i)
      BY DEF NullOnlyWithoutGap
    <2> USE DEF HeapInv
    <2>1. size \in Nat /\ a \in 0 .. HEAP_SIZE - 1
      BY HeapAssumption DEF TypeOK
    <2>2. PICK b \in Blocks : b <= a /\ a < End(b)
      BY <2>1 DEF Covered
    <2>3. \A d \in Blocks : ~headers[d].free => d \in LiveBlocks
      BY DEF LiveIsAllocated
    <2>4. CASE ~headers[b].free
      <3>1. a \in a .. a + HEADER + size - 1
        BY <2>1, HeapAssumption
      <3> QED
        BY <2>2, <2>3, <2>4, <3>1 DEF Reserved
    <2>5. CASE headers[b].free
      <3>1. headers[b].size \in Nat /\ headers[b].size < size
        BY <2>1, <2>5, Geometry DEF Searched, Fits
      <3>2. /\ b \in Nat /\ End(b) = b + HEADER + headers[b].size
            /\ headers[b].next # Null =>
                 headers[b].next = End(b) /\ headers[b].next \in Blocks
            /\ headers[b].next = Null => End(b) = HEAP_SIZE
        BY Geometry, HeapAssumption
      <3>3. End(b) \in a .. a + HEADER + size - 1 /\ End(b) < HEAP_SIZE
        BY <2>1, <2>2, <3>1, <3>2, HeapAssumption
      <3>4. headers[b].next = End(b) /\ End(b) \in Blocks /\ headers[b].next # Null
        BY <3>2, <3>3, HeapAssumption
      <3>5. ~headers[End(b)].free
        BY <2>5, <3>4 DEF Coalesced, Mergeable, BothFree
      <3>6. End(b) <= End(b) /\ End(b) < End(End(b))
        <4>1. PICK d \in Blocks : d = End(b)
          BY <3>4
        <4>2. d < End(d)
          BY Geometry, HeapAssumption
        <4> QED
          BY <3>1, <3>2, <4>1, <4>2, HeapAssumption
      <3> QED
        BY <2>3, <3>3, <3>4, <3>5, <3>6 DEF Reserved
    <2> QED
      BY <2>4, <2>5
  <1> QED
    BY <1>1, HeapInvariant, PTL
=============================================================================
