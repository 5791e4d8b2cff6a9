--------------------------- MODULE ProgramsProofs ---------------------------
(***************************************************************************)
(* The user programs and the routines they use, for every size of the      *)
(* screen, of the pictures, of the files and of the buffers.               *)
(***************************************************************************)
EXTENDS MCPrograms, FiniteSetTheorems, WellFoundedInduction, TLAPS

\* A set of naturals that is not empty has a least element.
LEMMA LeastElement ==
  ASSUME NEW T, T \subseteq Nat, T # {}
  PROVE  \E x \in T : \A y \in T : x <= y
<1> DEFINE R == OpToRel(<, Nat)
<1>1. IsWellFoundedOn(R, Nat)
  BY NatLessThanWellFounded
<1>2. PICK x \in T : \A y \in T : ~(<<y, x>> \in R)
  <2> HIDE DEF R
  <2> QED  BY <1>1, WFMin
<1>3. \A y \in Nat : y < x => <<y, x>> \in R
  BY DEF OpToRel
<1> HIDE DEF R
<1>4. \A y \in T : ~(y < x)
  BY <1>2, <1>3
<1> QED  BY <1>4

\* What Min and Max pick.
LEMMA MinPicks ==
  ASSUME NEW T, T \subseteq Nat, T # {}
  PROVE  Min(T) \in T /\ \A y \in T : Min(T) <= y
<1>1. \E x \in T : \A y \in T : x =< y
  BY LeastElement
<1> QED  BY <1>1, Zenon DEF Min

LEMMA MaxPicks ==
  ASSUME NEW top \in Nat, NEW T, T \subseteq 0..top, T # {}
  PROVE  Max(T) \in T /\ \A y \in T : Max(T) >= y
<1> DEFINE U == {top - y : y \in T}
<1>0. \A y \in T : y \in 0..top
  OBVIOUS
<1>1. PICK u \in U : \A v \in U : u <= v
  <2>1. U \subseteq Nat
    <3>1. ASSUME NEW y \in T PROVE top - y \in Nat
      <4>1. y \in 0..top
        BY <1>0
      <4> QED  BY <4>1
    <3> QED  BY <3>1
  <2>2. U # {}
    OBVIOUS
  <2> HIDE DEF U
  <2> QED  BY <2>1, <2>2, LeastElement
<1>2. PICK x \in T : u = top - x
  OBVIOUS
<1>3. ASSUME NEW y \in T PROVE x >= y
  <2>1. top - y \in U
    OBVIOUS
  <2>2. top - x <= top - y
    BY <1>1, <1>2, <2>1
  <2>3. x \in 0..top /\ y \in 0..top
    BY <1>0
  <2> QED  BY <2>2, <2>3
<1>4. \E z \in T : \A y \in T : z >= y
  BY <1>3
<1> QED  BY <1>4, Zenon DEF Max

-----------------------------------------------------------------------------
(* The list of blinkers (Blink).                                           *)

Blinkers == [location : 0..(CELLS - 1), on_char : Bytes, off_char : Bytes,
             on_length : Words, off_length : Words, countdown : Words,
             status : {0, 1}, next : 0..CELLS]

BlinkTypes ==
  /\ blink_array \in [Slots -> Blinkers]
  /\ mp1_list_head \in 0..CELLS
  /\ vmem \in [0..(CELLS - 1) -> Bytes]
  /\ drawn \in [0..(CELLS - 1) -> 0..CELLS]
  /\ synced \in SUBSET (0..(CELLS - 1))

\* The first k values of g are the slots in use, each once, in the order of
\* their links; the others are NULL.
Order(g, k, arr, head) ==
  /\ k \in 0..CELLS /\ g \in [0..CELLS -> 0..CELLS]
  /\ head = g[0]
  /\ \A n \in 0..CELLS : g[n] # 0 <=> n < k
  /\ \A n \in 0..(k - 1) : arr[g[n]].next = g[n + 1]
  /\ \A m, n \in 0..(k - 1) : g[m] = g[n] => m = n
  /\ \A s \in Slots : arr[s].location # 0 <=> \E n \in 0..(k - 1) : g[n] = s

ListInv == \E g, k : Order(g, k, blink_array, mp1_list_head)

\* Chain, for any array and head.
ChainOf(arr, head) ==
  CHOOSE ch : ch = [n \in 0..CELLS |->
    IF n = 0 THEN head ELSE IF ch[n - 1] = NULL THEN NULL ELSE arr[ch[n - 1]].next]

LEMMA BlinkConstants == CELLS \in Nat /\ CELLS > 0 /\ WORD \in Nat /\ WORD > 0
  BY BlinkAssumption DEF BlinkAssumption

USE BlinkConstants DEF Slots, NULL

\* Such an order is what the recursive function computes.
LEMMA ChainIs ==
  ASSUME NEW arr, NEW head, NEW g, NEW k, Order(g, k, arr, head)
  PROVE  ChainOf(arr, head) = g
<1> DEFINE Step(ch, n) == IF n = 0 THEN head
                          ELSE IF ch[n - 1] = NULL THEN NULL ELSE arr[ch[n - 1]].next
           ch0 == ChainOf(arr, head)
<1>1. ASSUME NEW n \in 0..CELLS PROVE g[n] = Step(g, n)
  <2>1. CASE n = 0
    BY <2>1 DEF Order
  <2>2. CASE n # 0 /\ n - 1 < k
    <3>1. n - 1 \in 0..(k - 1) /\ n - 1 \in 0..CELLS /\ (n - 1) + 1 = n
      BY <2>2 DEF Order
    <3>2. g[n - 1] # 0 /\ arr[g[n - 1]].next = g[(n - 1) + 1]
      BY <2>2, <3>1 DEF Order
    <3> QED  BY <2>2, <3>1, <3>2
  <2>3. CASE n # 0 /\ ~(n - 1 < k)
    <3>1. n - 1 \in 0..CELLS /\ ~(n < k)
      BY <2>3 DEF Order
    <3>2. g[n - 1] = 0 /\ g[n] = 0
      BY <2>3, <3>1 DEF Order
    <3> QED  BY <2>3, <3>2
  <2> QED  BY <2>1, <2>2, <2>3
<1>2. g = [n \in 0..CELLS |-> Step(g, n)]
  <2>1. g \in [0..CELLS -> 0..CELLS]
    BY DEF Order
  <2> HIDE DEF Step
  <2> QED  BY <1>1, <2>1
<1>3. ch0 = [n \in 0..CELLS |-> Step(ch0, n)]
  BY <1>2, Zenon DEF ChainOf
<1> DEFINE bad == {n \in 0..CELLS : ch0[n] # g[n]}
<1> HIDE DEF ch0
<1>4. bad = {}
  <2> SUFFICES ASSUME bad # {} PROVE FALSE
    OBVIOUS
  <2>1. PICK n \in bad : \A m \in bad : n <= m
    <3>1. bad \subseteq Nat
      OBVIOUS
    <3> HIDE DEF bad
    <3> QED  BY <3>1, LeastElement
  <2>2. ch0[n] = Step(ch0, n)
    <3> HIDE DEF Step
    <3> QED  BY <1>3
  <2>3. n # 0
    BY <1>1, <2>2
  <2>4. n - 1 \in 0..CELLS /\ ~(n <= n - 1)
    BY <2>3
  <2>5. ch0[n - 1] = g[n - 1]
    BY <2>1, <2>4
  <2>6. Step(ch0, n) = Step(g, n)
    BY <2>3, <2>5
  <2> QED  BY <1>1, <2>2, <2>6
<1> QED
  <2>1. DOMAIN ch0 = 0..CELLS /\ ch0 = [n \in 0..CELLS |-> ch0[n]]
    <3> HIDE DEF Step
    <3> QED  BY <1>3
  <2>2. g = [n \in 0..CELLS |-> g[n]]
    BY DEF Order
  <2>3. \A n \in 0..CELLS : ch0[n] = g[n]
    BY <1>4
  <2> QED  BY <2>1, <2>2, <2>3 DEF ch0
LEMMA OrderFacts ==
  ASSUME NEW arr, NEW head, NEW g, NEW k, Order(g, k, arr, head)
  PROVE  /\ k \in Nat /\ k <= CELLS
         /\ \A n \in 0..(k - 1) : g[n] \in Slots /\ arr[g[n]].next = g[n + 1]
         /\ \A n \in 0..CELLS : ~(n < k) => g[n] = 0
         /\ \A n \in 0..(k - 1) : arr[g[n]].location # 0
         /\ \A m, n \in 0..(k - 1) : g[m] = g[n] => m = n
<1>1. k \in Nat /\ k <= CELLS
  BY DEF Order
<1>2. ASSUME NEW n \in 0..(k - 1) PROVE g[n] \in Slots
  BY <1>1 DEF Order
<1> QED  BY <1>1, <1>2 DEF Order

\* Whatever keeps locations and links keeps the order.
LEMMA SameOrder ==
  ASSUME NEW arr, NEW arr2, NEW head, NEW g, NEW k, Order(g, k, arr, head),
         \A s \in Slots : arr2[s].location = arr[s].location /\ arr2[s].next = arr[s].next
  PROVE  Order(g, k, arr2, head)
<1>1. ASSUME NEW n \in 0..(k - 1) PROVE arr2[g[n]].next = g[n + 1]
  <2>1. g[n] \in Slots
    BY DEF Order
  <2> QED  BY <2>1 DEF Order
<1>2. ASSUME NEW s \in Slots
      PROVE  arr2[s].location # 0 <=> \E n \in 0..(k - 1) : g[n] = s
  BY DEF Order
<1> QED  BY <1>1, <1>2 DEF Order

\* A free slot leaves room in the order: the pigeonhole principle.
LEMMA HasRoom ==
  ASSUME NEW arr, NEW head, NEW g, NEW k, Order(g, k, arr, head),
         NEW free \in Slots, arr[free].location = 0
  PROVE  k < CELLS
<1> SUFFICES ASSUME k = CELLS PROVE FALSE
  BY DEF Order
<1> DEFINE S == 0..(CELLS - 1)
           T == Slots \ {free}
           f == [n \in S |-> g[n]]
<1>1. IsFiniteSet(S) /\ Cardinality(S) = CELLS
  <2>1. 0 \in Int /\ CELLS - 1 \in Int /\ ~(0 > CELLS - 1) /\ (CELLS - 1) - 0 + 1 = CELLS
    OBVIOUS
  <2> QED  BY <2>1, FS_Interval
<1>2. IsFiniteSet(Slots) /\ Cardinality(Slots) = CELLS
  <2>1. 1 \in Int /\ CELLS \in Int /\ ~(1 > CELLS) /\ CELLS - 1 + 1 = CELLS
    OBVIOUS
  <2> QED  BY <2>1, FS_Interval
<1>3. IsFiniteSet(T) /\ Cardinality(T) = CELLS - 1
  BY <1>2, FS_RemoveElement
<1>4. f \in [S -> T]
  <2>1. ASSUME NEW n \in S PROVE g[n] \in T
    <3>1. n \in 0..(k - 1) /\ n \in 0..CELLS /\ n < k
      OBVIOUS
    <3>2. g[n] \in Slots
      <4>1. g \in [0..CELLS -> 0..CELLS] /\ g[n] # 0
        BY <3>1 DEF Order
      <4>2. g[n] \in 0..CELLS
        BY <3>1, <4>1
      <4> QED  BY <4>1, <4>2
    <3>3. arr[g[n]].location # 0
      BY <3>1, <3>2 DEF Order
    <3> QED  BY <3>2, <3>3
  <2> QED  BY <2>1
<1>5. \A m, n \in S : f[m] = f[n] => m = n
  BY DEF Order
<1> HIDE DEF S, T, f
<1>6. Cardinality(T) < Cardinality(S)
  BY <1>1, <1>3
<1> QED  BY <1>1, <1>3, <1>4, <1>5, <1>6, FS_PigeonHole

\* A slot taken goes to the front.
LEMMA PushOrder ==
  ASSUME NEW arr, NEW arr2, NEW head, NEW g, NEW k, Order(g, k, arr, head),
         NEW free \in Slots, arr[free].location = 0,
         arr2[free].location # 0, arr2[free].next = head,
         \A s \in Slots \ {free} : arr2[s] = arr[s]
  PROVE  \E g2, k2 : Order(g2, k2, arr2, free)
<1> DEFINE g2 == [n \in 0..CELLS |-> IF n = 0 THEN free ELSE g[n - 1]]
<1>1. k < CELLS /\ k \in Nat
  <2>1. k < CELLS
    BY HasRoom
  <2>2. k \in Nat
    BY DEF Order
  <2> QED  BY <2>1, <2>2
<1>2. g2 \in [0..CELLS -> 0..CELLS] /\ g2[0] = free
  BY DEF Order
<1>3. ASSUME NEW n \in 0..CELLS PROVE g2[n] # 0 <=> n < k + 1
  <2>1. CASE n = 0
    BY <1>1, <2>1
  <2>2. CASE n # 0
    <3>1. n - 1 \in 0..CELLS /\ g2[n] = g[n - 1]
      BY <2>2
    <3>2. g[n - 1] # 0 <=> n - 1 < k
      BY <3>1 DEF Order
    <3> QED  BY <1>1, <3>1, <3>2
  <2> QED  BY <2>1, <2>2
<1>4. ASSUME NEW n \in 0..k PROVE arr2[g2[n]].next = g2[n + 1]
  <2>1. n + 1 \in 0..CELLS /\ g2[n + 1] = g[n]
    BY <1>1
  <2>2. CASE n = 0
    BY <2>1, <2>2 DEF Order
  <2>3. CASE n # 0
    <3>1. n - 1 \in 0..(k - 1) /\ g2[n] = g[n - 1] /\ (n - 1) + 1 = n
      BY <1>1, <2>3
    <3>2. arr[g[n - 1]].next = g[n] /\ g[n - 1] \in Slots
      BY <1>1, <3>1 DEF Order
    <3>3. g[n - 1] # free
      BY <3>1, <3>2 DEF Order
    <3> QED  BY <2>1, <3>1, <3>2, <3>3
  <2> QED  BY <2>2, <2>3
<1>5. ASSUME NEW m \in 0..k, NEW n \in 0..k, g2[m] = g2[n] PROVE m = n
  <2>1. ASSUME NEW j \in 0..k, j # 0
        PROVE  j - 1 \in 0..(k - 1) /\ g2[j] = g[j - 1] /\ g[j - 1] # free
    <3>1. j - 1 \in 0..(k - 1) /\ g2[j] = g[j - 1]
      BY <1>1, <2>1
    <3>2. g[j - 1] # free
      BY <3>1 DEF Order
    <3> QED  BY <3>1, <3>2
  <2>2. CASE m # 0 /\ n # 0
    <3>1. g[m - 1] = g[n - 1] /\ m - 1 \in 0..(k - 1) /\ n - 1 \in 0..(k - 1)
      BY <1>5, <2>1, <2>2
    <3>2. m - 1 = n - 1
      BY <3>1 DEF Order
    <3> QED  BY <1>1, <3>2
  <2>3. CASE m = 0 \/ n = 0
    <3>1. ASSUME NEW j \in 0..k, j # 0 PROVE g2[j] # free
      BY <2>1, <3>1
    <3> HIDE DEF g2
    <3> QED  BY <1>2, <1>5, <2>3, <3>1
  <2> QED  BY <2>2, <2>3
<1>6. ASSUME NEW s \in Slots
      PROVE  arr2[s].location # 0 <=> \E n \in 0..k : g2[n] = s
  <2>1. CASE s = free
    <3>1. 0 \in 0..k /\ g2[0] = s
      BY <1>1, <1>2, <2>1
    <3> QED  BY <2>1, <3>1
  <2>2. CASE s # free
    <3>1. (\E n \in 0..k : g2[n] = s) <=> (\E n \in 0..(k - 1) : g[n] = s)
      <4>1. ASSUME NEW n \in 0..k, g2[n] = s PROVE \E m \in 0..(k - 1) : g[m] = s
        <5>1. n # 0
          BY <1>2, <2>2, <4>1
        <5>2. n - 1 \in 0..(k - 1) /\ g[n - 1] = s
          BY <1>1, <4>1, <5>1
        <5> QED  BY <5>2
      <4>2. ASSUME NEW n \in 0..(k - 1), g[n] = s PROVE \E m \in 0..k : g2[m] = s
        <5>1. n + 1 \in 0..k /\ g2[n + 1] = s
          BY <1>1, <4>2
        <5> QED  BY <5>1
      <4> QED  BY <4>1, <4>2
    <3>2. arr2[s] = arr[s]
      BY <2>2
    <3>3. arr[s].location # 0 <=> \E n \in 0..(k - 1) : g[n] = s
      BY DEF Order
    <3> HIDE DEF g2
    <3> QED  BY <3>1, <3>2, <3>3
  <2> QED  BY <2>1, <2>2
<1> DEFINE k2 == k + 1
<1> HIDE DEF g2
<1>7. k2 \in 0..CELLS /\ 0..(k2 - 1) = 0..k
  BY <1>1
<1>8. \A n \in 0..CELLS : g2[n] # 0 <=> n < k2
  BY <1>3
<1> HIDE DEF k2
<1> QED
  <2>1. \A n \in 0..(k2 - 1) : arr2[g2[n]].next = g2[n + 1]
    BY <1>4, <1>7
  <2>2. \A m, n \in 0..(k2 - 1) : g2[m] = g2[n] => m = n
    BY <1>5, <1>7
  <2>3. \A s \in Slots : arr2[s].location # 0 <=> \E n \in 0..(k2 - 1) : g2[n] = s
    BY <1>6, <1>7
  <2>4. Order(g2, k2, arr2, free)
    BY <1>2, <1>7, <1>8, <2>1, <2>2, <2>3, Zenon DEF Order
  <2> QED  BY <2>4

\* The link that skips a slot.
Skipping(cut, arr, link) == IF link = cut THEN arr[cut].next ELSE link

Bridges(cut, arr, arr2) ==
  \A s \in Slots \ {cut} :
    /\ arr2[s].location = arr[s].location
    /\ arr2[s].next = Skipping(cut, arr, arr[s].next)

\* A slot freed is bridged.
LEMMA CutOrder ==
  ASSUME NEW arr, NEW arr2, NEW head, NEW head2, NEW g, NEW k, Order(g, k, arr, head),
         NEW p \in 0..(k - 1), NEW cut \in Slots, g[p] = cut,
         head2 = Skipping(cut, arr, head),
         arr2[cut].location = 0, Bridges(cut, arr, arr2)
  PROVE  \E g2, k2 : Order(g2, k2, arr2, head2)
<1> USE DEF Skipping, Bridges
<1> DEFINE g2 == [n \in 0..CELLS |-> IF n < p THEN g[n] ELSE IF n < CELLS THEN g[n + 1] ELSE 0]
           Old(n) == IF n < p THEN n ELSE n + 1
           k2 == k - 1
<1>1. k \in 1..CELLS /\ k2 \in 0..CELLS /\ p \in 0..(k - 1)
  BY DEF Order
<1>2. ASSUME NEW n \in 0..CELLS, n < CELLS PROVE g2[n] = g[Old(n)] /\ Old(n) \in 0..CELLS
  BY <1>1, <1>2
<1>3. g2 \in [0..CELLS -> 0..CELLS]
  <2>1. ASSUME NEW n \in 0..CELLS PROVE g2[n] \in 0..CELLS
    <3>1. CASE n < CELLS
      <4>1. g2[n] = g[Old(n)] /\ Old(n) \in 0..CELLS
        BY <1>2, <3>1
      <4> HIDE DEF g2, Old
      <4> QED  BY <4>1 DEF Order
    <3>2. CASE ~(n < CELLS)
      BY <1>1, <3>2
    <3> QED  BY <3>1, <3>2
  <2> QED  BY <2>1
<1>a. ASSUME NEW o \in 0..(k - 1), o # p
      PROVE  g[o] \in Slots \ {cut} /\ arr[g[o]].next = g[o + 1]
  BY <1>a, OrderFacts
<1>4. ASSUME NEW n \in 0..(k2 - 1)
      PROVE  /\ Old(n) \in 0..(k - 1) /\ g2[n] = g[Old(n)] /\ Old(n) # p
             /\ g[Old(n)] \in Slots \ {cut}
             /\ arr[g[Old(n)]].next = g[Old(n) + 1]
  <2>1. Old(n) \in 0..(k - 1) /\ g2[n] = g[Old(n)] /\ Old(n) # p
    BY <1>1, <1>2
  <2> HIDE DEF Old, g2
  <2> QED  BY <1>a, <2>1
<1>5. \A n \in 0..CELLS : g2[n] # 0 <=> n < k2
  <2>1. ASSUME NEW n \in 0..CELLS PROVE g2[n] # 0 <=> n < k2
    <3>1. CASE n < CELLS
      <4>1. g[Old(n)] # 0 <=> Old(n) < k
        BY <1>2, <3>1 DEF Order
      <4>2. Old(n) < k <=> n < k2
        BY <1>1
      <4>3. g2[n] = g[Old(n)]
        BY <1>2, <3>1
      <4> HIDE DEF Old, k2, g2
      <4> QED  BY <4>1, <4>2, <4>3
    <3>2. CASE ~(n < CELLS)
      BY <1>1, <3>2
    <3> QED  BY <3>1, <3>2
  <2> QED  BY <2>1
<1>6. arr[cut].next = g[p + 1]
  BY DEF Order
<1>7. \A n \in 0..(k2 - 1) : arr2[g2[n]].next = g2[n + 1]
  <2>1. ASSUME NEW n \in 0..(k2 - 1) PROVE arr2[g2[n]].next = g2[n + 1]
    <3>1. n + 1 \in 0..CELLS /\ n + 1 < CELLS
      BY <1>1
    <3>2. g2[n + 1] = g[Old(n + 1)]
      BY <1>2, <3>1
    <3>3. CASE n + 1 = p
      <4>1. Old(n) = n /\ Old(n + 1) = p + 1 /\ Old(n) + 1 = p
        BY <1>1, <3>3
      <4> HIDE DEF Old, g2, k2
      <4>2. arr[g2[n]].next = cut /\ g2[n] \in Slots \ {cut}
        BY <1>4, <4>1
      <4>3. arr2[g2[n]].next = arr[cut].next
        BY <4>2
      <4> QED  BY <1>6, <3>2, <4>1, <4>3
    <3>4. CASE n + 1 # p
      <4>1. Old(n) + 1 = Old(n + 1) /\ Old(n + 1) # p /\ Old(n + 1) \in 0..k
        BY <1>1, <3>4
      <4> HIDE DEF Old, g2, k2
      <4>2. arr[g2[n]].next = g[Old(n + 1)] /\ g2[n] \in Slots \ {cut}
        BY <1>4, <4>1
      <4>3. g[Old(n + 1)] # cut
        <5>1. ASSUME NEW o \in 0..k, o # p PROVE g[o] # cut
          <6>1. CASE o < k
            <7>1. o \in 0..(k - 1)
              BY <1>1, <6>1
            <7> QED  BY <1>a, <5>1, <7>1
          <6>2. CASE ~(o < k)
            <7>1. o \in 0..CELLS
              BY <1>1
            <7> QED  BY <6>2, <7>1, OrderFacts
          <6> QED  BY <6>1, <6>2
        <5> QED  BY <4>1, <5>1
      <4>4. arr2[g2[n]].next = arr[g2[n]].next
        BY <4>2, <4>3
      <4> QED  BY <3>2, <4>2, <4>4
    <3> QED  BY <3>3, <3>4
  <2> QED  BY <2>1
<1>8. \A m, n \in 0..(k2 - 1) : g2[m] = g2[n] => m = n
  <2>1. ASSUME NEW m \in 0..(k2 - 1), NEW n \in 0..(k2 - 1), g2[m] = g2[n] PROVE m = n
    <3>2. Old(m) = Old(n)
      <4> HIDE DEF Old, g2, k2
      <4>1. Old(m) \in 0..(k - 1) /\ Old(n) \in 0..(k - 1) /\ g[Old(m)] = g[Old(n)]
        BY <1>4, <2>1
      <4> QED  BY <4>1, OrderFacts
    <3> QED  BY <1>1, <3>2
  <2> QED  BY <2>1
<1>9. \A s \in Slots : arr2[s].location # 0 <=> \E n \in 0..(k2 - 1) : g2[n] = s
  <2>1. ASSUME NEW s \in Slots
        PROVE  arr2[s].location # 0 <=> \E n \in 0..(k2 - 1) : g2[n] = s
    <3>1. CASE s = cut
      <4> HIDE DEF Old, g2, k2
      <4>1. ASSUME NEW n \in 0..(k2 - 1) PROVE g2[n] # s
        BY <1>4, <3>1
      <4> QED  BY <3>1, <4>1
    <3>2. CASE s # cut
      <4>1. ASSUME NEW n \in 0..(k2 - 1), g2[n] = s PROVE \E m \in 0..(k - 1) : g[m] = s
        <5> HIDE DEF Old, g2, k2
        <5> QED  BY <1>4, <4>1
      <4>2. ASSUME NEW m \in 0..(k - 1), g[m] = s PROVE \E n \in 0..(k2 - 1) : g2[n] = s
        <5>1. m # p
          BY <3>2, <4>2
        <5> DEFINE n == IF m < p THEN m ELSE m - 1
        <5>2. n \in 0..(k2 - 1) /\ Old(n) = m
          BY <1>1, <5>1
        <5> HIDE DEF n, Old, g2
        <5>3. g2[n] = s
          BY <1>4, <4>2, <5>2
        <5> QED  BY <5>2, <5>3
      <4>3. arr[s].location # 0 <=> \E m \in 0..(k - 1) : g[m] = s
        BY DEF Order
      <4>4. arr2[s].location = arr[s].location
        BY <3>2
      <4> HIDE DEF g2, k2
      <4> QED  BY <4>1, <4>2, <4>3, <4>4
    <3> QED  BY <3>1, <3>2
  <2> QED  BY <2>1
<1>10. head2 = g2[0]
  <2>1. 0 \in 0..CELLS /\ 0 < CELLS /\ 0 \in 0..(k - 1) /\ head = g[0]
    BY <1>1 DEF Order
  <2>2. g2[0] = g[Old(0)]
    BY <1>2, <2>1
  <2>3. CASE p = 0
    BY <1>6, <2>1, <2>2, <2>3
  <2>4. CASE p # 0
    <3>1. Old(0) = 0
      BY <1>1, <2>4
    <3>2. g[0] # cut
      BY <2>1, <2>4 DEF Order
    <3> QED  BY <2>1, <2>2, <3>1, <3>2
  <2> QED  BY <2>3, <2>4
<1> HIDE DEF g2, k2
<1>11. Order(g2, k2, arr2, head2)
  BY <1>1, <1>3, <1>5, <1>7, <1>8, <1>9, <1>10, Zenon DEF Order
<1> QED  BY <1>11

\* The character ch in the cell l is the one that the blinker b drew.
Drew(b, ch, l, S) == ch = IF l \in S THEN b.off_char ELSE Char(b)

Shown(l) ==
  drawn[l] # NULL /\ blink_array[drawn[l]].location = l =>
    Drew(blink_array[drawn[l]], vmem[l], l, synced)

\* A cell shows the blinker in it that wrote it last.
ShowsInv == \A l \in 1..(CELLS - 1) : Shown(l)

BlinkInv == BlinkTypes /\ ListInv /\ ShowsInv

\* What ListInv says of Chain.
LEMMA ListHas ==
  ASSUME ListInv
  PROVE  \E k : Order(Chain, k, blink_array, mp1_list_head)
<1>1. PICK g, k : Order(g, k, blink_array, mp1_list_head)
  BY Zenon DEF ListInv
<1>2. ChainOf(blink_array, mp1_list_head) = g
  BY <1>1, ChainIs
<1>3. Chain = g
  BY <1>2 DEF Chain, ChainOf
<1> QED  BY <1>1, <1>3

LEMMA LinkedUsed ==
  ASSUME ListInv
  PROVE  Linked = {s \in Slots : blink_array[s].location # 0}
<1>1. PICK k : Order(Chain, k, blink_array, mp1_list_head)
  BY ListHas
<1>2. /\ k \in 0..CELLS /\ Chain \in [0..CELLS -> 0..CELLS]
      /\ \A n \in 0..CELLS : Chain[n] # 0 <=> n < k
      /\ \A s \in Slots : blink_array[s].location # 0 <=> \E n \in 0..(k - 1) : Chain[n] = s
  BY <1>1, Zenon DEF Order
<1>3. ASSUME NEW n \in 0..(CELLS - 1), Chain[n] # 0
      PROVE  Chain[n] \in Slots /\ blink_array[Chain[n]].location # 0
  <2>1. n \in 0..CELLS /\ n \in 0..(k - 1)
    BY <1>2, <1>3
  <2>2. Chain[n] \in Slots
    BY <1>2, <1>3, <2>1
  <2> QED  BY <1>2, <2>1, <2>2
<1>4. ASSUME NEW s \in Slots, blink_array[s].location # 0
      PROVE  \E n \in 0..(CELLS - 1) : Chain[n] = s
  <2>1. PICK n \in 0..(k - 1) : Chain[n] = s
    BY <1>2, <1>4
  <2>2. n \in 0..(CELLS - 1)
    BY <1>2
  <2> QED  BY <2>1, <2>2
<1> QED  BY <1>3, <1>4 DEF Linked

LEMMA ListIsSound ==
  ASSUME ListInv
  PROVE  ListSound
<1>1. PICK k : Order(Chain, k, blink_array, mp1_list_head)
  BY ListHas
<1>2. /\ k \in 0..CELLS /\ Chain \in [0..CELLS -> 0..CELLS]
      /\ \A n \in 0..CELLS : Chain[n] # 0 <=> n < k
      /\ \A m, n \in 0..(k - 1) : Chain[m] = Chain[n] => m = n
  BY <1>1, Zenon DEF Order
<1>3. Chain[CELLS] = NULL
  BY <1>2
<1>4. ASSUME NEW m \in 0..(CELLS - 1), NEW n \in 0..(CELLS - 1), Chain[m] = Chain[n], Chain[m] # NULL
      PROVE  m = n
  <2>1. m < k /\ n < k
    BY <1>2, <1>4
  <2>2. m \in 0..(k - 1) /\ n \in 0..(k - 1)
    BY <1>2, <2>1
  <2> QED  BY <1>2, <1>4, <2>2
<1> QED  BY <1>3, <1>4, LinkedUsed DEF ListSound

LEMMA StatusShown ==
  ASSUME BlinkInv
  PROVE  ShowsStatus
<1> SUFFICES ASSUME NEW l \in DOMAIN vmem \ {0},
                    drawn[l] # NULL, blink_array[drawn[l]].location = l
             PROVE  /\ drawn[l] \in Linked
                    /\ vmem[l] = IF l \in synced THEN blink_array[drawn[l]].off_char
                                 ELSE Char(blink_array[drawn[l]])
  BY DEF ShowsStatus
<1>1. l \in 1..(CELLS - 1)
  BY DEF BlinkInv, BlinkTypes
<1>2. drawn[l] \in Slots
  BY <1>1 DEF BlinkInv, BlinkTypes
<1>3. drawn[l] \in Linked
  BY <1>1, <1>2, LinkedUsed DEF BlinkInv
<1>4. Shown(l)
  BY <1>1 DEF BlinkInv, ShowsInv
<1> QED  BY <1>3, <1>4 DEF Shown, Drew

\* What mp1_find_helper finds is on the list, in the cell it looked for.
LEMMA FindFinds ==
  ASSUME BlinkTypes, NEW k, Order(Chain, k, blink_array, mp1_list_head), NEW l,
         mp1_find_helper(l) # NULL
  PROVE  /\ mp1_find_helper(l) \in Slots
         /\ blink_array[mp1_find_helper(l)].location = l
         /\ \E p \in 0..(k - 1) : Chain[p] = mp1_find_helper(l)
<1> DEFINE places == {n \in 0..(CELLS - 1) : Chain[n] # NULL /\ blink_array[Chain[n]].location = l}
<1>1. places # {} /\ mp1_find_helper(l) = Chain[Min(places)]
  BY DEF mp1_find_helper
<1>2. Min(places) \in places
  <2>1. places \subseteq Nat
    OBVIOUS
  <2> HIDE DEF places
  <2> QED  BY <1>1, <2>1, MinPicks
<1>3. PICK p \in places : mp1_find_helper(l) = Chain[p]
  <2> HIDE DEF places
  <2> QED  BY <1>1, <1>2
<1>4. p \in 0..CELLS /\ p < k /\ k \in 0..CELLS
  BY <1>3 DEF Order
<1>5. p \in 0..(k - 1)
  BY <1>4
<1>6. Chain[p] \in Slots
  BY <1>1, <1>5, OrderFacts
<1> QED  BY <1>3, <1>5, <1>6

\* mp1_malloc's slot is free.
LEMMA MallocFinds ==
  ASSUME mp1_malloc # NULL
  PROVE  mp1_malloc \in Slots /\ blink_array[mp1_malloc].location = 0
<1>1. At(0) # {} /\ mp1_malloc = Min(At(0)) /\ At(0) \subseteq Nat
  BY DEF mp1_malloc, At
<1>2. mp1_malloc \in At(0)
  BY <1>1, MinPicks
<1> QED  BY <1>2 DEF At

\* What the tick and a synchronisation do to a blinker.
LEMMA TickedOK ==
  ASSUME NEW b \in Blinkers
  PROVE  /\ Ticked(b) \in Blinkers
         /\ Ticked(b).location = b.location /\ Ticked(b).next = b.next
         /\ Ticked(b).on_char = b.on_char /\ Ticked(b).off_char = b.off_char
         /\ ~Expired(b) => Char(Ticked(b)) = Char(b)
         /\ Expired(b) => Poked(b) = Char(Ticked(b))
         /\ Poked(b) \in Bytes
<1>1. (b.countdown - 1) % WORD \in Words
  BY DEF Blinkers, Words
<1>2. 1 - b.status \in {0, 1}
  BY DEF Blinkers
<1> HIDE DEF Slots
<1>3. CASE Expired(b)
  <2>1. Poked(b) = Char(Ticked(b))
    BY <1>2, <1>3 DEF Ticked, Blinkers, Char, Poked
  <2> QED  BY <1>2, <1>3, <2>1 DEF Ticked, Blinkers, Poked
<1>4. CASE ~Expired(b)
  BY <1>1, <1>4 DEF Ticked, Blinkers, Char, Poked
<1> QED  BY <1>3, <1>4

SyncedFrom(b, f) ==
  [b EXCEPT !.on_length = f.on_length, !.off_length = f.off_length,
            !.countdown = f.countdown, !.status = f.status]

LEMMA SyncedOK ==
  ASSUME NEW b \in Blinkers, NEW f \in Blinkers
  PROVE  /\ SyncedFrom(b, f) \in Blinkers
         /\ SyncedFrom(b, f).location = b.location /\ SyncedFrom(b, f).next = b.next
         /\ SyncedFrom(b, f).off_char = b.off_char /\ SyncedFrom(b, f).status = f.status
         /\ SyncedFrom(b, f).on_char = b.on_char
  BY DEF SyncedFrom, Blinkers

LEMMA FreeOK == Free \in Blinkers /\ Free.location = 0
<1>1. 0 \in Bytes /\ 0 \in Words /\ 0 \in 0..(CELLS - 1) /\ 0 \in 0..CELLS
  BY DEF Bytes, Words
<1> QED  BY <1>1 DEF Free, Blinkers

LEMMA BlinkInitInv == BlinkInit => BlinkInv
<1> SUFFICES ASSUME BlinkInit PROVE BlinkInv
  OBVIOUS
<1>1. BlinkTypes
  <2>1. 32 \in Bytes /\ NULL \in 0..CELLS
    BY DEF Bytes
  <2> QED  BY <2>1, FreeOK DEF BlinkInit, BlinkTypes
<1>2. Order([n \in 0..CELLS |-> 0], 0, blink_array, mp1_list_head)
  <2>1. \A s \in Slots : blink_array[s].location = 0
    BY FreeOK DEF BlinkInit
  <2> QED  BY <2>1 DEF Order, BlinkInit
<1>3. ShowsInv
  BY DEF BlinkInit, ShowsInv, Shown
<1> QED  BY <1>1, <1>2, <1>3 DEF BlinkInv, ListInv

\* The record that mp1_ioctl_add writes.
NewBlinker(r, head) ==
  [location |-> r.location, on_char |-> r.on_char, off_char |-> r.off_char,
   on_length |-> r.on_length, off_length |-> r.off_length,
   countdown |-> r.on_length, status |-> 1, next |-> head]

LEMMA NewOK ==
  ASSUME NEW r \in Filled, r.location < CELLS, NEW head \in 0..CELLS
  PROVE  /\ NewBlinker(r, head) \in Blinkers
         /\ NewBlinker(r, head).location = r.location /\ NewBlinker(r, head).next = head
         /\ NewBlinker(r, head).on_char = r.on_char /\ NewBlinker(r, head).off_char = r.off_char
         /\ Char(NewBlinker(r, head)) = r.on_char
         /\ r.location \in 0..(CELLS - 1) /\ r.on_char \in Bytes
<1>1. r.location \in 0..(CELLS - 1)
  BY DEF Filled, Words
<1> QED  BY <1>1 DEF NewBlinker, Blinkers, Filled, Char

LEMMA BlinkStutters ==
  ASSUME BlinkInv, UNCHANGED blinkVars
  PROVE  BlinkInv'
<1>1. BlinkTypes'
  BY DEF BlinkInv, BlinkTypes, blinkVars
<1>2. ListInv'
  BY Zenon DEF BlinkInv, ListInv, blinkVars
<1>3. ShowsInv'
  BY Zenon DEF BlinkInv, ShowsInv, Shown, Drew, Char, blinkVars
<1> QED  BY <1>1, <1>2, <1>3 DEF BlinkInv

\* The ioctls and the tasklet keep the invariant.
LEMMA AddInv ==
  ASSUME BlinkInv, NEW r \in Filled, r.location # 0, mp1_ioctl_add(r)
  PROVE  BlinkInv'
<1> DEFINE s0 == mp1_malloc
           b == NewBlinker(r, mp1_list_head)
<1>0. CASE UNCHANGED blinkVars
  BY <1>0, BlinkStutters
<1>1. CASE r.location < CELLS /\ mp1_malloc # NULL /\ Added(r)
  <2>1. s0 \in Slots /\ blink_array[s0].location = 0
    BY <1>1, MallocFinds
  <2>2. BlinkTypes
    BY DEF BlinkInv
  <2>3. /\ b \in Blinkers /\ b.location = r.location /\ b.next = mp1_list_head
        /\ Char(b) = r.on_char /\ r.location \in 0..(CELLS - 1) /\ r.on_char \in Bytes
    BY <1>1, <2>2, NewOK DEF BlinkTypes
  <2>4. /\ blink_array' = [blink_array EXCEPT ![s0] = b]
        /\ mp1_list_head' = s0
        /\ vmem' = [vmem EXCEPT ![r.location] = r.on_char]
        /\ drawn' = [drawn EXCEPT ![r.location] = s0]
        /\ synced' = synced \ {r.location}
    BY <1>1 DEF Added, NewBlinker
  <2> HIDE DEF s0, b
  <2>5. /\ blink_array' \in [Slots -> Blinkers]
        /\ blink_array'[s0] = b
        /\ \A s \in Slots \ {s0} : blink_array'[s] = blink_array[s]
    BY <2>1, <2>2, <2>3, <2>4 DEF BlinkTypes
  <2>6. /\ vmem' \in [0..(CELLS - 1) -> Bytes]
        /\ vmem'[r.location] = r.on_char
        /\ \A l \in 0..(CELLS - 1) : l # r.location => vmem'[l] = vmem[l]
    BY <2>2, <2>3, <2>4 DEF BlinkTypes
  <2>d. /\ drawn' \in [0..(CELLS - 1) -> 0..CELLS]
        /\ drawn'[r.location] = s0
        /\ \A l \in 0..(CELLS - 1) : l # r.location => drawn'[l] = drawn[l]
    BY <2>1, <2>2, <2>3, <2>4 DEF BlinkTypes
  <2>7. BlinkTypes'
    <3>1. s0 \in 0..CELLS
      BY <2>1
    <3>2. synced' \subseteq 0..(CELLS - 1)
      BY <2>2, <2>4 DEF BlinkTypes
    <3> QED  BY <2>4, <2>5, <2>6, <2>d, <3>1, <3>2 DEF BlinkTypes
  <2>8. ListInv'
    <3>1. PICK g, k : Order(g, k, blink_array, mp1_list_head)
      BY Zenon DEF BlinkInv, ListInv
    <3>2. \E g2, k2 : Order(g2, k2, blink_array', s0)
      BY <2>1, <2>3, <2>5, <3>1, PushOrder
    <3> QED  BY <2>4, <3>2, Zenon DEF ListInv
  <2>9. ShowsInv'
    <3>1. ASSUME NEW l \in 1..(CELLS - 1), drawn'[l] # NULL, blink_array'[drawn'[l]].location = l
          PROVE  Drew(blink_array'[drawn'[l]], vmem'[l], l, synced')
      <4>1. CASE l = r.location
        BY <2>3, <2>4, <2>5, <2>6, <2>d, <4>1 DEF Drew
      <4>2. CASE l # r.location
        <5>1. drawn'[l] = drawn[l] /\ vmem'[l] = vmem[l] /\ drawn[l] \in Slots
          BY <2>2, <2>6, <2>d, <3>1, <4>2 DEF BlinkTypes
        <5>2. drawn[l] # s0
          BY <2>3, <2>5, <3>1, <4>2, <5>1
        <5>3. blink_array'[drawn[l]] = blink_array[drawn[l]]
          BY <2>5, <5>1, <5>2
        <5>4. Drew(blink_array[drawn[l]], vmem[l], l, synced)
          BY <3>1, <5>1, <5>3 DEF BlinkInv, ShowsInv, Shown
        <5> QED  BY <2>4, <4>2, <5>1, <5>3, <5>4 DEF Drew
      <4> QED  BY <4>1, <4>2
    <3> QED  BY <3>1, Zenon DEF ShowsInv, Shown, Drew, Char
  <2> QED  BY <2>7, <2>8, <2>9 DEF BlinkInv
<1> QED  BY <1>0, <1>1 DEF mp1_ioctl_add

LEMMA RemoveInv ==
  ASSUME BlinkInv, NEW l, mp1_ioctl_remove(l)
  PROVE  BlinkInv'
<1> DEFINE s0 == mp1_find_helper(l)
<1>0. CASE UNCHANGED blinkVars
  BY <1>0, BlinkStutters
<1>1. CASE s0 # NULL /\ Removed(s0)
  <2>1. BlinkTypes /\ ListInv
    BY DEF BlinkInv
  <2>2. PICK k : Order(Chain, k, blink_array, mp1_list_head)
    BY <2>1, ListHas
  <2>3. s0 \in Slots /\ \E p \in 0..(k - 1) : Chain[p] = s0
    BY <1>1, <2>1, <2>2, FindFinds
  <2>4. /\ mp1_list_head' = IF mp1_list_head = s0 THEN blink_array[s0].next ELSE mp1_list_head
        /\ blink_array' = [t \in Slots |->
             IF t = s0 THEN Free
             ELSE IF blink_array[t].next = s0
                  THEN [blink_array[t] EXCEPT !.next = blink_array[s0].next]
             ELSE blink_array[t]]
        /\ drawn' = drawn /\ synced' = synced
        /\ vmem' = vmem
    BY <1>1 DEF Removed
  <2> HIDE DEF s0
  <2>5. blink_array'[s0] = Free
    BY <2>3, <2>4
  <2>6. ASSUME NEW t \in Slots \ {s0}
        PROVE  /\ blink_array'[t] \in Blinkers
               /\ blink_array'[t].location = blink_array[t].location
               /\ Char(blink_array'[t]) = Char(blink_array[t])
               /\ blink_array'[t].off_char = blink_array[t].off_char
               /\ blink_array'[t].next = IF blink_array[t].next = s0 THEN blink_array[s0].next
                                         ELSE blink_array[t].next
    <3>1. blink_array[t] \in Blinkers /\ blink_array[s0] \in Blinkers
      BY <2>1, <2>3 DEF BlinkTypes
    <3>2. blink_array'[t] = IF blink_array[t].next = s0
                            THEN [blink_array[t] EXCEPT !.next = blink_array[s0].next]
                            ELSE blink_array[t]
      BY <2>4
    <3> QED  BY <3>1, <3>2 DEF Blinkers, Char
  <2>7. BlinkTypes'
    <3>1. ASSUME NEW t \in Slots PROVE blink_array'[t] \in Blinkers
      BY <2>5, <2>6, FreeOK
    <3>2. blink_array' \in [Slots -> Blinkers]
      <4>1. blink_array' = [t \in Slots |-> blink_array'[t]]
        BY <2>4
      <4> QED  BY <3>1, <4>1
    <3>3. mp1_list_head' \in 0..CELLS
      BY <2>1, <2>3, <2>4 DEF BlinkTypes, Blinkers
    <3> QED  BY <2>1, <2>4, <3>2, <3>3 DEF BlinkTypes
  <2>8. ListInv'
    <3>1. PICK p \in 0..(k - 1) : Chain[p] = s0
      BY <2>3
    <3>2. blink_array'[s0].location = 0
      BY <2>5, FreeOK
    <3>3. Bridges(s0, blink_array, blink_array')
      BY <2>6, Zenon DEF Skipping, Bridges
    <3>4. mp1_list_head' = Skipping(s0, blink_array, mp1_list_head)
      BY <2>4, Zenon DEF Skipping
    <3> HIDE DEF Slots
    <3>5. s0 \in Slots
      BY <2>3
    <3>6. \E g2, k2 : Order(g2, k2, blink_array', mp1_list_head')
      BY <2>2, <3>1, <3>2, <3>3, <3>4, <3>5, CutOrder, Zenon
    <3> QED  BY <3>6, Zenon DEF ListInv
  <2>9. ShowsInv'
    <3>1. ASSUME NEW cell \in 1..(CELLS - 1), drawn'[cell] # NULL, blink_array'[drawn'[cell]].location = cell
          PROVE  Drew(blink_array'[drawn'[cell]], vmem'[cell], cell, synced')
      <4>1. drawn'[cell] = drawn[cell] /\ drawn[cell] \in Slots
        BY <2>1, <2>4, <3>1 DEF BlinkTypes
      <4>2. drawn[cell] # s0
        BY <2>5, <3>1, <4>1, FreeOK
      <4>3. /\ blink_array[drawn[cell]].location = cell
            /\ Char(blink_array'[drawn[cell]]) = Char(blink_array[drawn[cell]])
            /\ blink_array'[drawn[cell]].off_char = blink_array[drawn[cell]].off_char
        BY <2>6, <3>1, <4>1, <4>2
      <4>4. Drew(blink_array[drawn[cell]], vmem[cell], cell, synced)
        BY <3>1, <4>1, <4>3 DEF BlinkInv, ShowsInv, Shown
      <4> QED  BY <2>4, <4>1, <4>3, <4>4 DEF Drew
    <3> QED  BY <3>1, Zenon DEF ShowsInv, Shown, Drew, Char
  <2> QED  BY <2>7, <2>8, <2>9 DEF BlinkInv
<1> QED  BY <1>0, <1>1 DEF mp1_ioctl_remove

LEMMA SyncInv ==
  ASSUME BlinkInv, NEW l, NEW m, mp1_ioctl_sync(l, m)
  PROVE  BlinkInv'
<1> DEFINE from == mp1_find_helper(l)
           to == mp1_find_helper(m)
<1>0. CASE UNCHANGED blinkVars
  BY <1>0, BlinkStutters
<1>1. CASE from # NULL /\ to # NULL /\ Synced(from, to)
  <2>1. BlinkTypes /\ ListInv
    BY DEF BlinkInv
  <2>2. PICK k : Order(Chain, k, blink_array, mp1_list_head)
    BY <2>1, ListHas
  <2>3. from \in Slots /\ to \in Slots
    BY <1>1, <2>1, <2>2, FindFinds
  <2> DEFINE b == SyncedFrom(blink_array[to], blink_array[from])
  <2>4. /\ blink_array' = [blink_array EXCEPT ![to] = b]
        /\ vmem' = [vmem EXCEPT ![b.location] = b.off_char]
        /\ drawn' = [drawn EXCEPT ![b.location] = to]
        /\ synced' = synced \cup {b.location}
        /\ mp1_list_head' = mp1_list_head
    BY <1>1 DEF Synced, SyncedFrom
  <2>5. /\ b \in Blinkers
        /\ b.location = blink_array[to].location /\ b.next = blink_array[to].next
    BY <2>1, <2>3, SyncedOK DEF BlinkTypes
  <2> HIDE DEF from, to, b
  <2>6. /\ blink_array' \in [Slots -> Blinkers]
        /\ blink_array'[to] = b
        /\ \A s \in Slots \ {to} : blink_array'[s] = blink_array[s]
    BY <2>1, <2>3, <2>4, <2>5 DEF BlinkTypes
  <2>7. /\ vmem' \in [0..(CELLS - 1) -> Bytes]
        /\ vmem'[b.location] = b.off_char
        /\ \A n \in 0..(CELLS - 1) : n # b.location => vmem'[n] = vmem[n]
    <3>1. b.location \in 0..(CELLS - 1) /\ b.off_char \in Bytes
      BY <2>5 DEF Blinkers
    <3> QED  BY <2>1, <2>4, <3>1 DEF BlinkTypes
  <2>d. /\ drawn' \in [0..(CELLS - 1) -> 0..CELLS]
        /\ drawn'[b.location] = to
        /\ \A n \in 0..(CELLS - 1) : n # b.location => drawn'[n] = drawn[n]
        /\ synced' \subseteq 0..(CELLS - 1)
    <3>1. b.location \in 0..(CELLS - 1) /\ to \in 0..CELLS
      BY <2>3, <2>5 DEF Blinkers
    <3> QED  BY <2>1, <2>4, <3>1 DEF BlinkTypes
  <2>8. BlinkTypes'
    BY <2>1, <2>4, <2>6, <2>7, <2>d DEF BlinkTypes
  <2>9. ListInv'
    <3>1. ASSUME NEW s \in Slots
          PROVE  /\ blink_array'[s].location = blink_array[s].location
                 /\ blink_array'[s].next = blink_array[s].next
      BY <2>5, <2>6
    <3>2. Order(Chain, k, blink_array', mp1_list_head)
      BY <2>2, <3>1, SameOrder
    <3> QED  BY <2>4, <3>2, Zenon DEF ListInv
  <2>10. ShowsInv'
    <3>1. ASSUME NEW cell \in 1..(CELLS - 1), drawn'[cell] # NULL, blink_array'[drawn'[cell]].location = cell
          PROVE  Drew(blink_array'[drawn'[cell]], vmem'[cell], cell, synced')
      <4>1. CASE cell = b.location
        BY <2>4, <2>6, <2>7, <2>d, <4>1 DEF Drew
      <4>2. CASE cell # b.location
        <5>1. drawn'[cell] = drawn[cell] /\ vmem'[cell] = vmem[cell] /\ drawn[cell] \in Slots
          BY <2>1, <2>7, <2>d, <3>1, <4>2 DEF BlinkTypes
        <5>2. drawn[cell] # to
          BY <2>6, <3>1, <4>2, <5>1
        <5>3. blink_array'[drawn[cell]] = blink_array[drawn[cell]]
          BY <2>6, <5>1, <5>2
        <5>4. Drew(blink_array[drawn[cell]], vmem[cell], cell, synced)
          BY <3>1, <5>1, <5>3 DEF BlinkInv, ShowsInv, Shown
        <5> QED  BY <2>4, <4>2, <5>1, <5>3, <5>4 DEF Drew
      <4> QED  BY <4>1, <4>2
    <3> QED  BY <3>1, Zenon DEF ShowsInv, Shown, Drew, Char
  <2> QED  BY <2>8, <2>9, <2>10 DEF BlinkInv
<1> QED  BY <1>0, <1>1 DEF mp1_ioctl_sync

\* The slots whose countdown ends at this tick, in the cell l, by their places.
Places(l) == {n \in 0..(CELLS - 1) : /\ Chain[n] # NULL
                                     /\ blink_array[Chain[n]].location = l
                                     /\ Expired(blink_array[Chain[n]])}

\* The last one on the list writes the cell.
LEMMA LastWrites ==
  ASSUME BlinkTypes, ListInv, NEW l, Places(l) # {}
  PROVE  /\ Chain[Max(Places(l))] \in Slots
         /\ blink_array[Chain[Max(Places(l))]].location = l /\ l # 0
         /\ Expired(blink_array[Chain[Max(Places(l))]])
<1> DEFINE n == Max(Places(l))
<1>1. n \in Places(l)
  <2>1. Places(l) \subseteq 0..(CELLS - 1) /\ CELLS - 1 \in Nat
    BY DEF Places
  <2> QED  BY <2>1, MaxPicks
<1>2. /\ n \in 0..(CELLS - 1) /\ Chain[n] # NULL /\ blink_array[Chain[n]].location = l
      /\ Expired(blink_array[Chain[n]])
  BY <1>1 DEF Places
<1> HIDE DEF n
<1>3. Chain[n] \in Linked
  BY <1>2 DEF Linked
<1>4. Chain[n] \in Slots /\ blink_array[Chain[n]].location # 0
  BY <1>3, LinkedUsed
<1> QED  BY <1>2, <1>4 DEF n

LEMMA TickInv ==
  ASSUME BlinkInv, mp1_rtc_tasklet
  PROVE  BlinkInv'
<1> DEFINE written == {l \in DOMAIN vmem : Places(l) # {}}
           writer(l) == Chain[Max(Places(l))]
<1>1. BlinkTypes /\ ListInv
  BY DEF BlinkInv
<1>2. /\ blink_array' = [s \in Slots |-> IF s \in Linked THEN Ticked(blink_array[s])
                                         ELSE blink_array[s]]
      /\ vmem' = [l \in DOMAIN vmem |-> IF l \in written THEN Poked(blink_array[writer(l)])
                                        ELSE vmem[l]]
      /\ drawn' = [l \in DOMAIN drawn |-> IF l \in written THEN writer(l) ELSE drawn[l]]
      /\ synced' = synced \ written
      /\ mp1_list_head' = mp1_list_head
  BY DEF mp1_rtc_tasklet, Places
<1>3. ASSUME NEW l \in written
      PROVE  /\ writer(l) \in Slots /\ blink_array[writer(l)].location = l /\ l # 0
             /\ Expired(blink_array[writer(l)])
  BY <1>1, LastWrites
<1>4. DOMAIN vmem = 0..(CELLS - 1) /\ DOMAIN drawn = 0..(CELLS - 1)
  BY <1>1 DEF BlinkTypes
<1> HIDE DEF written, writer
<1>5. ASSUME NEW s \in Slots
      PROVE  /\ blink_array'[s] \in Blinkers
             /\ blink_array'[s].location = blink_array[s].location
             /\ blink_array'[s].next = blink_array[s].next
  BY <1>1, <1>2, TickedOK DEF BlinkTypes
<1>7. BlinkTypes'
  <2>1. blink_array' \in [Slots -> Blinkers]
    <3>1. blink_array' = [s \in Slots |-> blink_array'[s]]
      BY <1>2
    <3> QED  BY <1>5, <3>1
  <2>2. vmem' \in [0..(CELLS - 1) -> Bytes]
    <3>1. ASSUME NEW l \in written PROVE Poked(blink_array[writer(l)]) \in Bytes
      <4>1. blink_array[writer(l)] \in Blinkers
        BY <1>1, <1>3 DEF BlinkTypes
      <4> QED  BY <4>1, TickedOK
    <3>2. \A l \in 0..(CELLS - 1) : vmem[l] \in Bytes
      BY <1>1 DEF BlinkTypes
    <3> QED  BY <1>2, <1>4, <3>1, <3>2
  <2>3. drawn' \in [0..(CELLS - 1) -> 0..CELLS] /\ synced' \subseteq 0..(CELLS - 1)
    <3>1. ASSUME NEW l \in written PROVE writer(l) \in 0..CELLS
      BY <1>3
    <3>2. \A l \in 0..(CELLS - 1) : drawn[l] \in 0..CELLS
      BY <1>1 DEF BlinkTypes
    <3>3. synced \subseteq 0..(CELLS - 1)
      BY <1>1 DEF BlinkTypes
    <3> QED  BY <1>2, <1>4, <3>1, <3>2, <3>3
  <2> QED  BY <1>1, <1>2, <2>1, <2>2, <2>3 DEF BlinkTypes
<1>8. ListInv'
  <2>1. PICK k : Order(Chain, k, blink_array, mp1_list_head)
    BY <1>1, ListHas
  <2>2. Order(Chain, k, blink_array', mp1_list_head)
    BY <1>5, <2>1, SameOrder
  <2> QED  BY <1>2, <2>2, Zenon DEF ListInv
<1>9. ShowsInv'
  <2>1. ASSUME NEW l \in 1..(CELLS - 1), drawn'[l] # NULL, blink_array'[drawn'[l]].location = l
        PROVE  Drew(blink_array'[drawn'[l]], vmem'[l], l, synced')
    <3>1. CASE l \in written
      <4> DEFINE s == writer(l)
      <4>1. /\ s \in Slots /\ blink_array[s].location = l /\ l # 0
            /\ Expired(blink_array[s]) /\ blink_array[s] \in Blinkers
        BY <1>1, <1>3, <3>1 DEF BlinkTypes
      <4>2. drawn'[l] = s /\ vmem'[l] = Poked(blink_array[s]) /\ l \notin synced'
        BY <1>2, <1>4, <3>1
      <4> HIDE DEF s
      <4>3. s \in Linked
        BY <1>1, <4>1, LinkedUsed
      <4>4. blink_array'[s] = Ticked(blink_array[s])
        BY <1>2, <4>1, <4>3
      <4>5. Poked(blink_array[s]) = Char(blink_array'[s])
        BY <4>1, <4>4, TickedOK
      <4> QED  BY <4>2, <4>5 DEF Drew
    <3>2. CASE l \notin written
      <4> DEFINE s == drawn[l]
      <4>1. drawn'[l] = s /\ vmem'[l] = vmem[l] /\ (l \in synced' <=> l \in synced)
        BY <1>2, <1>4, <3>2
      <4>2. s \in Slots /\ blink_array[s] \in Blinkers
        BY <1>1, <2>1, <4>1 DEF BlinkTypes
      <4>3. blink_array[s].location = l
        BY <1>5, <2>1, <4>1, <4>2
      <4>4. Drew(blink_array[s], vmem[l], l, synced)
        BY <2>1, <4>1, <4>3 DEF BlinkInv, ShowsInv, Shown
      <4> HIDE DEF s
      <4>5. s \in Linked
        BY <1>1, <4>2, <4>3, LinkedUsed
      <4>6. PICK n \in 0..(CELLS - 1) : Chain[n] = s
        BY <4>5 DEF Linked
      <4>7. ~Expired(blink_array[s])
        <5> SUFFICES ASSUME Expired(blink_array[s]) PROVE FALSE
          OBVIOUS
        <5>1. n \in Places(l)
          BY <4>2, <4>3, <4>6 DEF Places
        <5> QED  BY <1>4, <3>2, <5>1 DEF written
      <4>8. blink_array'[s] = Ticked(blink_array[s])
        BY <1>2, <4>2, <4>5
      <4>9. /\ Char(blink_array'[s]) = Char(blink_array[s])
            /\ blink_array'[s].off_char = blink_array[s].off_char
        BY <4>2, <4>7, <4>8, TickedOK
      <4> QED  BY <4>1, <4>4, <4>9 DEF Drew
    <3> QED  BY <3>1, <3>2
  <2> QED  BY <2>1, Zenon DEF ShowsInv, Shown, Drew, Char
<1> QED  BY <1>7, <1>8, <1>9 DEF BlinkInv

LEMMA BlinkNextInv ==
  ASSUME BlinkInv, [BlinkNext]_blinkVars
  PROVE  BlinkInv'
<1>1. ASSUME NEW r \in Requests, mp1_ioctl_add(r) PROVE BlinkInv'
  <2>1. r \in Filled /\ r.location # 0
    BY BlinkAssumption, Zenon DEF BlinkAssumption
  <2> QED  BY <1>1, <2>1, AddInv
<1>2. ASSUME NEW l \in DOMAIN vmem \ {0}, mp1_ioctl_remove(l) PROVE BlinkInv'
  BY <1>2, RemoveInv
<1>3. ASSUME NEW l \in DOMAIN vmem \ {0}, NEW m \in DOMAIN vmem \ {0}, mp1_ioctl_sync(l, m)
      PROVE  BlinkInv'
  BY <1>3, SyncInv
<1>4. CASE mp1_rtc_tasklet
  BY <1>4, TickInv
<1>5. CASE UNCHANGED blinkVars
  BY <1>5, BlinkStutters
<1> QED  BY <1>1, <1>2, <1>3, <1>4, <1>5, Zenon DEF BlinkNext

\* The invariant behind the list: an order of the slots in use that the links
\* follow, and what each cell shows of the blinker that drew it (blink.S).
THEOREM BlinkInvariance == BlinkSpec => []BlinkInv
  BY BlinkInitInv, BlinkNextInv, PTL DEF BlinkSpec

\* Any program's adds, removes, synchronisations and ticks leave a list that
\* ends and holds exactly the slots in use, for every size of the array
\* (blink.S, fish.c:160-180).
THEOREM ListAlwaysSound == BlinkSpec => []ListSound
<1>1. BlinkInv => ListSound
  BY ListIsSound DEF BlinkInv
<1> QED  BY <1>1, BlinkInvariance, PTL

\* A cell whose blinker was the last to write it shows the character of that
\* blinker's status after an add or a tick, and the off character after a
\* sync, also of a blinker that is on, for every set of blinkers and lengths,
\* equal locations included (blink.S:78-83, 279-285).
THEOREM StatusAlwaysShown == BlinkSpec => []ShowsStatus
<1>1. BlinkInv => ShowsStatus
  BY StatusShown
<1> QED  BY <1>1, BlinkInvariance, PTL

-----------------------------------------------------------------------------
(* The lines of a text (Lines).                                            *)

Rank(t, k) == Cardinality({j \in Starts(t) : j < k})

LEMMA IntervalSize ==
  ASSUME NEW n \in Nat
  PROVE  IsFiniteSet(1..n) /\ Cardinality(1..n) = n
  BY FS_Interval

LEMMA StartsFinite ==
  ASSUME NEW t \in Seq(Bytes), NEW S, S \subseteq Starts(t)
  PROVE  IsFiniteSet(S) /\ Cardinality(S) \in Nat
<1>1. IsFiniteSet(1..Len(t))
  BY FS_Interval
<1>2. S \subseteq 1..Len(t)
  BY DEF Starts
<1>3. IsFiniteSet(S)
  BY <1>1, <1>2, FS_Subset
<1> QED  BY <1>3, FS_CardinalityType

LEMMA EndFacts ==
  ASSUME NEW t \in Seq(Bytes), NEW k \in 1..Len(t)
  PROVE  /\ LineEnd(t, k) \in k..(Len(t) + 1)
         /\ \A j \in k..(LineEnd(t, k) - 1) : t[j] # NL
         /\ LineEnd(t, k) <= Len(t) => t[LineEnd(t, k)] = NL
<1> DEFINE T == {j \in k..Len(t) : t[j] = NL} \cup {Len(t) + 1}
<1>1. T \subseteq Nat /\ T # {}
  OBVIOUS
<1>2. LineEnd(t, k) = Min(T)
  BY DEF LineEnd
<1>3. Min(T) \in T /\ \A y \in T : Min(T) <= y
  <2> HIDE DEF T
  <2> QED  BY <1>1, MinPicks
<1> DEFINE e == Min(T)
<1> HIDE DEF e
<1>4. e \in T /\ (\A y \in T : e <= y) /\ LineEnd(t, k) = e
  BY <1>2, <1>3, Zenon DEF e
<1>5. e \in k..(Len(t) + 1)
  BY <1>4
<1>6. ASSUME NEW j \in k..(e - 1) PROVE t[j] # NL
  <2>1. j \in k..Len(t) /\ ~(e <= j)
    BY <1>5
  <2> QED  BY <1>4, <2>1
<1>7. e <= Len(t) => t[e] = NL
  BY <1>4
<1> QED  BY <1>4, <1>5, <1>6, <1>7

\* Later lines have higher ranks.
LEMMA RankLess ==
  ASSUME NEW t \in Seq(Bytes), NEW k \in Starts(t), NEW m \in Starts(t), k < m
  PROVE  Rank(t, k) < Rank(t, m)
<1> DEFINE A == {j \in Starts(t) : j < k}
           B == {j \in Starts(t) : j < m}
<1>1. A \subseteq Starts(t) /\ B \subseteq Starts(t) /\ A \subseteq B /\ k \in B /\ k \notin A
  BY DEF Starts
<1>2. IsFiniteSet(A) /\ IsFiniteSet(B) /\ Cardinality(A) \in Nat /\ Cardinality(B) \in Nat
  BY <1>1, StartsFinite
<1>3. A \in SUBSET B /\ B # A
  BY <1>1
<1> HIDE DEF A, B
<1>4. Cardinality(A) <= Cardinality(B) /\ Cardinality(A) # Cardinality(B)
  BY <1>2, <1>3, FS_Subset
<1> QED  BY <1>2, <1>4 DEF Rank, A, B

LEMMA RankType ==
  ASSUME NEW t \in Seq(Bytes), NEW k
  PROVE  Rank(t, k) \in Nat
  BY StartsFinite DEF Rank

LEMMA RankUnique ==
  ASSUME NEW t \in Seq(Bytes), NEW k \in Starts(t), NEW m \in Starts(t), Rank(t, k) = Rank(t, m)
  PROVE  k = m
<1>1. k \in Int /\ m \in Int
  BY DEF Starts
<1>2. Rank(t, k) \in Nat /\ Rank(t, m) \in Nat
  BY RankType
<1>3. ASSUME k < m PROVE FALSE
  <2>1. Rank(t, k) < Rank(t, m)
    BY <1>3, RankLess
  <2> QED  BY <1>2, <2>1
<1>4. ASSUME m < k PROVE FALSE
  <2>1. Rank(t, m) < Rank(t, k)
    BY <1>4, RankLess
  <2> QED  BY <1>2, <2>1
<1> QED  BY <1>1, <1>3, <1>4

\* A line that begins at k is the line number Rank(t, k) + 1.
LEMMA LineAt ==
  ASSUME NEW t \in Seq(Bytes), NEW k \in Starts(t)
  PROVE  /\ Rank(t, k) \in Nat /\ Rank(t, k) < Len(Lines(t))
         /\ Lines(t)[Rank(t, k) + 1] = SubSeq(t, k, LineEnd(t, k) - 1)
<1> DEFINE n == Rank(t, k) + 1
<1>1. Rank(t, k) \in Nat
  BY RankType
<1>2. Cardinality(Starts(t)) \in Nat
  BY StartsFinite
<1>3. Rank(t, k) < Cardinality(Starts(t))
  <2> DEFINE A == {j \in Starts(t) : j < k}
             S == Starts(t)
  <2>1. A \subseteq S /\ k \notin A /\ k \in S
    BY DEF Starts
  <2>2. IsFiniteSet(S)
    BY StartsFinite
  <2>3. A \in SUBSET S /\ S # A
    BY <2>1
  <2> HIDE DEF A, S
  <2>4. Cardinality(A) <= Cardinality(S) /\ Cardinality(A) # Cardinality(S)
    BY <2>2, <2>3, FS_Subset
  <2> QED  BY <1>1, <1>2, <2>4 DEF Rank, A, S
<1>4. n \in 1..Cardinality(Starts(t))
  BY <1>1, <1>2, <1>3
<1>5. LineBegin(t, n) = k
  <2> DEFINE b == LineBegin(t, n)
  <2>1. Rank(t, k) = n - 1
    BY <1>1
  <2>2. b \in Starts(t) /\ Cardinality({j \in Starts(t) : j < b}) = n - 1
    BY <2>1, Zenon DEF LineBegin, Rank
  <2>3. Rank(t, b) = Rank(t, k)
    BY <2>1, <2>2, Zenon DEF Rank
  <2> HIDE DEF b
  <2>4. b = k
    BY <2>2, <2>3, RankUnique
  <2> QED  BY <2>4 DEF b
<1>6. Len(Lines(t)) = Cardinality(Starts(t))
  BY <1>2 DEF Lines
<1>7. Lines(t)[n] = SubSeq(t, LineBegin(t, n), LineEnd(t, LineBegin(t, n)) - 1)
  <2> HIDE DEF n
  <2> QED  BY <1>4, Zenon DEF Lines
<1> QED  BY <1>1, <1>3, <1>5, <1>6, <1>7

\* The first line begins with the text; an empty text has none.
LEMMA FirstLine ==
  ASSUME NEW t \in Seq(Bytes)
  PROVE  /\ Len(t) > 0 => 1 \in Starts(t) /\ Rank(t, 1) = 0
         /\ Len(t) = 0 => Len(Lines(t)) = 0
<1>1. ASSUME Len(t) > 0 PROVE 1 \in Starts(t)
  BY <1>1 DEF Starts
<1>2. {j \in Starts(t) : j < 1} = {}
  BY DEF Starts
<1>3. Rank(t, 1) = 0
  BY <1>2, FS_EmptySet DEF Rank
<1>4. ASSUME Len(t) = 0 PROVE Len(Lines(t)) = 0
  <2>1. Starts(t) = {}
    BY <1>4 DEF Starts
  <2>2. Cardinality(Starts(t)) = 0
    BY <2>1, FS_EmptySet
  <2> QED  BY <2>2 DEF Lines
<1> QED  BY <1>1, <1>3, <1>4

LEMMA LinesLen ==
  ASSUME NEW t \in Seq(Bytes)
  PROVE  /\ Len(Lines(t)) \in Nat /\ Len(Lines(t)) = Cardinality(Starts(t))
         /\ Len(Lines(t)) <= Len(t)
<1>1. Cardinality(Starts(t)) \in Nat
  BY StartsFinite
<1>2. Len(Lines(t)) = Cardinality(Starts(t))
  BY <1>1 DEF Lines
<1>3. IsFiniteSet(1..Len(t)) /\ Cardinality(1..Len(t)) = Len(t)
  <2>1. Len(t) \in Nat
    OBVIOUS
  <2> QED  BY <2>1, IntervalSize
<1>4. Starts(t) \in SUBSET (1..Len(t))
  BY DEF Starts
<1>5. Cardinality(Starts(t)) <= Len(t)
  BY <1>3, <1>4, FS_Subset
<1> QED  BY <1>1, <1>2, <1>5

\* After a newline that does not end the text the next line begins.
LEMMA NextLine ==
  ASSUME NEW t \in Seq(Bytes), NEW k \in Starts(t), LineEnd(t, k) < Len(t)
  PROVE  /\ LineEnd(t, k) + 1 \in Starts(t)
         /\ Rank(t, LineEnd(t, k) + 1) = Rank(t, k) + 1
<1> DEFINE e == LineEnd(t, k)
           A == {j \in Starts(t) : j < k}
           B == {j \in Starts(t) : j < e + 1}
<1>1. k \in 1..Len(t)
  BY DEF Starts
<1>2. e \in k..(Len(t) + 1) /\ (\A j \in k..(e - 1) : t[j] # NL) /\ t[e] = NL
  <2>1. LineEnd(t, k) <= Len(t)
    BY <1>1, EndFacts
  <2> QED  BY <1>1, <2>1, EndFacts
<1>3. e + 1 \in Starts(t)
  <2>1. e + 1 \in 1..Len(t) /\ (e + 1) - 1 = e
    BY <1>1, <1>2
  <2> HIDE DEF e
  <2> QED  BY <1>2, <2>1 DEF Starts
<1>4. B = A \cup {k}
  <2>1. ASSUME NEW j \in Starts(t), j < e + 1, ~(j < k), j # k PROVE FALSE
    <3>1. j \in 1..Len(t) /\ (j = 1 \/ t[j - 1] = NL)
      BY DEF Starts
    <3>2. j - 1 \in k..(e - 1)
      BY <1>1, <1>2, <2>1, <3>1
    <3>3. j # 1
      BY <1>1, <2>1, <3>1
    <3> QED  BY <1>2, <3>1, <3>2, <3>3
  <2>2. k < e + 1 /\ k \in Starts(t)
    BY <1>1, <1>2
  <2>3. ASSUME NEW j \in Starts(t), j < k PROVE j < e + 1
    <3>1. j \in Int /\ k \in Int /\ e \in Int
      BY <1>1, <1>2 DEF Starts
    <3> QED  BY <2>2, <2>3, <3>1
  <2> HIDE DEF e
  <2> QED  BY <2>1, <2>2, <2>3
<1>5. IsFiniteSet(A) /\ k \notin A
  <2>1. A \subseteq Starts(t)
    OBVIOUS
  <2>2. k \notin A
    BY <1>1
  <2> HIDE DEF A
  <2> QED  BY <2>1, <2>2, StartsFinite
<1>6. Cardinality(B) = Cardinality(A) + 1
  <2> HIDE DEF A, B
  <2> QED  BY <1>4, <1>5, FS_AddElement
<1> QED  BY <1>3, <1>6 DEF Rank

\* The line that ends with the text, or with its last newline, is the last.
LEMMA LastLine ==
  ASSUME NEW t \in Seq(Bytes), NEW k \in Starts(t), ~(LineEnd(t, k) < Len(t))
  PROVE  Len(Lines(t)) = Rank(t, k) + 1
<1> DEFINE e == LineEnd(t, k)
           A == {j \in Starts(t) : j < k}
           S == Starts(t)
<1>1. k \in 1..Len(t)
  BY DEF Starts
<1>2. e \in k..(Len(t) + 1) /\ (\A j \in k..(e - 1) : t[j] # NL)
  BY <1>1, EndFacts
<1>3. S = A \cup {k}
  <2>1. ASSUME NEW j \in Starts(t), ~(j < k), j # k PROVE FALSE
    <3>1. j \in 1..Len(t) /\ (j = 1 \/ t[j - 1] = NL)
      BY DEF Starts
    <3>2. j - 1 \in k..(e - 1)
      BY <1>1, <1>2, <2>1, <3>1
    <3>3. j # 1
      BY <1>1, <2>1, <3>1
    <3> QED  BY <1>2, <3>1, <3>2, <3>3
  <2> QED  BY <2>1
<1>4. IsFiniteSet(A) /\ k \notin A
  <2>1. A \subseteq Starts(t)
    OBVIOUS
  <2>2. k \notin A
    BY <1>1
  <2> HIDE DEF A
  <2> QED  BY <2>1, <2>2, StartsFinite
<1>5. Cardinality(S) = Cardinality(A) + 1
  <2> HIDE DEF A, S
  <2> QED  BY <1>3, <1>4, FS_AddElement
<1> QED  BY <1>5, LinesLen DEF Rank

-----------------------------------------------------------------------------
(* The pictures of fish (Fish).                                            *)

\* What a picture shows in the line that begins at b, and below its lines.
LEMMA PictureAt ==
  ASSUME NEW t \in Seq(Bytes), NEW b \in Starts(t), NEW k \in Nat
  PROVE  /\ Len(Lines(t)[Rank(t, b) + 1]) = LineEnd(t, b) - b
         /\ k < LineEnd(t, b) - b => Picture(t, Rank(t, b), k) = t[b + k]
         /\ ~(k < LineEnd(t, b) - b) => Picture(t, Rank(t, b), k) = SPACE
<1> DEFINE e == LineEnd(t, b)
           line == Lines(t)[Rank(t, b) + 1]
<1>1. b \in 1..Len(t) /\ e \in b..(Len(t) + 1)
  BY EndFacts DEF Starts
<1>2. line = SubSeq(t, b, e - 1) /\ Rank(t, b) < Len(Lines(t))
  BY LineAt
<1> HIDE DEF e
<1>3. /\ Len(SubSeq(t, b, e - 1)) = e - b
      /\ k < e - b => SubSeq(t, b, e - 1)[k + 1] = t[b + k]
  BY <1>1
<1>4. Picture(t, Rank(t, b), k) = IF k < Len(line) THEN line[k + 1] ELSE SPACE
  BY <1>2 DEF Picture
<1> HIDE DEF line
<1> QED  BY <1>2, <1>3, <1>4 DEF e, line

LEMMA PictureBelow ==
  ASSUME NEW t \in Seq(Bytes), NEW r \in Nat, NEW k \in Nat, r >= Len(Lines(t))
  PROVE  Picture(t, r, k) = SPACE
<1>1. ~(r < Len(Lines(t)))
  BY LinesLen
<1> QED  BY <1>1, Zenon DEF Picture

\* Where a descriptor of add_frames is before the character of column k in
\* row r is read: in the line, behind it, or at the end of the text.
InLine(t, p, r, k) ==
  \E b \in Starts(t) : Rank(t, b) = r /\ p = b - 1 + k /\ p < LineEnd(t, b)
Behind(t, p, r, k) ==
  \E b \in Starts(t) : Rank(t, b) = r /\ p = LineEnd(t, b) /\ p <= Len(t) /\ k > p - b
Ended(t, r, k) ==
  \/ r >= Len(Lines(t))
  \/ \E b \in Starts(t) : /\ Rank(t, b) = r /\ LineEnd(t, b) = Len(t) + 1
                          /\ k > LineEnd(t, b) - b

Reading(t, p, ch, ended, op, r, k) ==
  \/ /\ ch # NL /\ ~ended /\ op
     /\ InLine(t, p, r, k) \/ (r = Len(Lines(t)) /\ p = Len(t))
  \/ ch = NL /\ ~ended /\ op /\ Behind(t, p, r, k)
  \/ ch = NL /\ ended /\ p = Len(t) /\ Ended(t, r, k)

\* What one read of a character leads to, with what follows the last of a row.
ReadTo(t, r, k, p2, ch2, ended2, op) ==
  /\ ch2 \in Bytes /\ (Blank(ch2) <=> Blank(Picture(t, r, k))) /\ Drawn(ch2) = Picture(t, r, k)
  /\ ch2 # NL => r < Len(Lines(t)) /\ k < Len(Lines(t)[r + 1]) /\ Len(Lines(t)[r + 1]) \in Nat
               /\ r <= Len(t) /\ k <= Len(t)
  /\ ch2 = NL => \A j \in Nat : j >= k => Picture(t, r, j) = SPACE
  /\ Reading(t, p2, ch2, ended2, op, r, k + 1)
  /\ ch2 = NL => Reading(t, p2, IF ended2 THEN NL ELSE 48, ended2, ~ended2, r + 1, 0)
  /\ ended2 => r + 1 >= Len(Lines(t))

USE DEF NL, SPACE

\* The newline of a line leads to the next line, or to the end of the text.
LEMMA AfterNewline ==
  ASSUME NEW t \in Seq(Bytes), NEW b \in Starts(t), LineEnd(t, b) <= Len(t)
  PROVE  Reading(t, LineEnd(t, b), 48, FALSE, TRUE, Rank(t, b) + 1, 0)
<1> DEFINE e == LineEnd(t, b)
<1>1. b \in 1..Len(t) /\ e \in b..(Len(t) + 1)
  BY EndFacts DEF Starts
<1>2. CASE e < Len(t)
  <2>1. e + 1 \in Starts(t) /\ Rank(t, e + 1) = Rank(t, b) + 1
    BY <1>2, NextLine
  <2>2. LineEnd(t, e + 1) \in (e + 1)..(Len(t) + 1)
    BY <2>1, EndFacts DEF Starts
  <2>3. e = (e + 1) - 1 + 0 /\ e < LineEnd(t, e + 1)
    BY <1>1, <2>2
  <2> HIDE DEF e
  <2>4. InLine(t, e, Rank(t, b) + 1, 0)
    BY <2>1, <2>3, Zenon DEF InLine
  <2> QED  BY <2>4 DEF Reading, e
<1>3. CASE ~(e < Len(t))
  <2>1. Len(Lines(t)) = Rank(t, b) + 1 /\ e = Len(t)
    BY <1>1, <1>3, LastLine
  <2> QED  BY <2>1 DEF Reading
<1> QED  BY <1>2, <1>3

\* A read in a line.
LEMMA ReadInLine ==
  ASSUME NEW t \in Seq(Bytes), NEW b \in Starts(t), NEW k \in Nat, NEW p, NEW r,
         Rank(t, b) = r, p = b - 1 + k, p < LineEnd(t, b)
  PROVE  IF p = Len(t) THEN ReadTo(t, r, k, p, NL, TRUE, TRUE)
         ELSE p + 1 \in 1..Len(t) /\ ReadTo(t, r, k, p + 1, t[p + 1], FALSE, TRUE)
<1> DEFINE e == LineEnd(t, b)
<1>1. b \in 1..Len(t) /\ e \in b..(Len(t) + 1)
  BY EndFacts DEF Starts
<1>2. (\A j \in b..(e - 1) : t[j] # NL) /\ (e <= Len(t) => t[e] = NL)
  BY <1>1, EndFacts
<1>3. r \in Nat /\ r < Len(Lines(t)) /\ Len(Lines(t)) \in Nat
  BY LineAt, LinesLen
<1>4. /\ Len(Lines(t)[r + 1]) = e - b
      /\ k < e - b => Picture(t, r, k) = t[b + k]
      /\ \A j \in Nat : ~(j < e - b) => Picture(t, r, j) = SPACE
  BY PictureAt
<1> HIDE DEF e
<1>5. CASE k < e - b
  <2>1. /\ b + k = p + 1 /\ p + 1 \in 1..Len(t) /\ p # Len(t) /\ p + 1 < e
        /\ p + 1 = b - 1 + (k + 1) /\ p + 1 \in b..(e - 1)
    BY <1>1, <1>5
  <2>2. t[p + 1] # NL /\ t[p + 1] \in Bytes /\ Picture(t, r, k) = t[p + 1]
    BY <1>2, <1>4, <1>5, <2>1
  <2>a. Len(Lines(t)[r + 1]) \in Nat
    BY <1>1, <1>4
  <2>3. InLine(t, p + 1, r, k + 1)
    BY <2>1, Zenon DEF InLine, e
  <2>4. Reading(t, p + 1, t[p + 1], FALSE, TRUE, r, k + 1)
    BY <2>2, <2>3 DEF Reading
  <2>5. r <= Len(t) /\ k <= Len(t)
    <3>1. Len(Lines(t)) <= Len(t)
      BY LinesLen
    <3> QED  BY <1>1, <1>3, <1>5, <3>1
  <2> QED  BY <1>3, <1>4, <1>5, <2>1, <2>2, <2>4, <2>5, <2>a DEF ReadTo, Blank, Drawn
<1>6. CASE ~(k < e - b)
  <2>1. k = e - b /\ p + 1 = e
    BY <1>1, <1>6 DEF e
  <2>2. \A j \in Nat : j >= k => Picture(t, r, j) = SPACE
    BY <1>1, <1>4, <2>1
  <2>3. Picture(t, r, k) = SPACE
    BY <2>2
  <2>4. NL \in Bytes
    BY DEF Bytes
  <2>5. CASE e = Len(t) + 1
    <3>1. p = Len(t) /\ k + 1 > e - b
      BY <1>1, <2>1, <2>5
    <3>2. Len(Lines(t)) = r + 1
      BY <1>1, <2>5, LastLine DEF e
    <3>3. Ended(t, r, k + 1)
      BY <2>5, <3>1, Zenon DEF Ended, e
    <3>4. Reading(t, p, NL, TRUE, TRUE, r, k + 1) /\ Reading(t, p, NL, TRUE, FALSE, r + 1, 0)
      <4>1. Ended(t, r + 1, 0)
        BY <1>3, <3>2 DEF Ended
      <4> QED  BY <3>1, <3>3, <4>1 DEF Reading
    <3>5. r + 1 >= Len(Lines(t))
      BY <1>3, <3>2
    <3> QED  BY <2>2, <2>3, <2>4, <3>1, <3>4, <3>5 DEF ReadTo, Blank, Drawn
  <2>6. CASE e # Len(t) + 1
    <3>1. e <= Len(t) /\ t[e] = NL /\ p # Len(t) /\ e \in 1..Len(t) /\ k + 1 > e - b
      BY <1>1, <1>2, <2>1, <2>6
    <3>2. Behind(t, e, r, k + 1)
      BY <3>1, Zenon DEF Behind, e
    <3>3. Reading(t, e, NL, FALSE, TRUE, r, k + 1)
      BY <3>2 DEF Reading
    <3>4. Reading(t, e, 48, FALSE, TRUE, r + 1, 0)
      BY <3>1, AfterNewline DEF e
    <3> QED  BY <2>1, <2>2, <2>3, <2>4, <3>1, <3>3, <3>4 DEF ReadTo, Blank, Drawn
  <2> QED  BY <2>5, <2>6
<1> QED  BY <1>5, <1>6

\* A read at the end of a text whose lines are all behind.
LEMMA ReadAtEnd ==
  ASSUME NEW t \in Seq(Bytes), NEW r \in Nat, NEW k \in Nat, NEW op \in BOOLEAN,
         Ended(t, r, k)
  PROVE  ReadTo(t, r, k, Len(t), NL, TRUE, op)
<1>1. Len(Lines(t)) \in Nat
  BY LinesLen
<1>2. (\A j \in Nat : j >= k => Picture(t, r, j) = SPACE) /\ Ended(t, r, k + 1)
  <2>1. CASE r >= Len(Lines(t))
    BY <2>1, PictureBelow DEF Ended
  <2>2. ASSUME NEW b \in Starts(t), Rank(t, b) = r, LineEnd(t, b) = Len(t) + 1,
               k > LineEnd(t, b) - b
        PROVE  (\A j \in Nat : j >= k => Picture(t, r, j) = SPACE) /\ Ended(t, r, k + 1)
    <3>1. b \in Nat
      BY DEF Starts
    <3>2. ASSUME NEW j \in Nat, j >= k PROVE Picture(t, r, j) = SPACE
      <4>1. ~(j < LineEnd(t, b) - b)
        BY <2>2, <3>1, <3>2
      <4> QED  BY <2>2, <4>1, PictureAt
    <3>3. k + 1 > LineEnd(t, b) - b
      BY <2>2, <3>1
    <3> QED  BY <2>2, <3>2, <3>3, Zenon DEF Ended
  <2> QED  BY <2>1, <2>2, Zenon DEF Ended
<1>3. r + 1 >= Len(Lines(t))
  <2>1. CASE r >= Len(Lines(t))
    BY <1>1, <2>1
  <2>2. ASSUME NEW b \in Starts(t), Rank(t, b) = r, LineEnd(t, b) = Len(t) + 1
        PROVE  r + 1 >= Len(Lines(t))
    <3>1. ~(LineEnd(t, b) < Len(t))
      BY <2>2
    <3>2. Len(Lines(t)) = r + 1
      BY <2>2, <3>1, LastLine
    <3> QED  BY <3>2
  <2> QED  BY <2>1, <2>2, Zenon DEF Ended
<1>4. Ended(t, r + 1, 0)
  BY <1>3 DEF Ended
<1>5. NL \in Bytes /\ Picture(t, r, k) = SPACE
  BY <1>2 DEF Bytes
<1> QED  BY <1>2, <1>3, <1>4, <1>5 DEF ReadTo, Reading, Blank, Drawn

\* No read behind a newline.
LEMMA NoReadBehind ==
  ASSUME NEW t \in Seq(Bytes), NEW r \in Nat, NEW k \in Nat, NEW p, Behind(t, p, r, k)
  PROVE  ReadTo(t, r, k, p, NL, FALSE, TRUE)
<1>1. PICK b \in Starts(t) : Rank(t, b) = r /\ p = LineEnd(t, b) /\ p <= Len(t) /\ k > p - b
  BY Zenon DEF Behind
<1>2. b \in Nat /\ p \in Nat
  BY <1>1, EndFacts DEF Starts
<1>3. ASSUME NEW j \in Nat, j >= k PROVE Picture(t, r, j) = SPACE
  <2>1. ~(j < LineEnd(t, b) - b)
    BY <1>1, <1>2, <1>3
  <2> QED  BY <1>1, <2>1, PictureAt
<1>4. Behind(t, p, r, k + 1)
  <2>1. k + 1 > p - b
    BY <1>1, <1>2
  <2> QED  BY <1>1, <2>1, Zenon DEF Behind
<1>5. Reading(t, p, 48, FALSE, TRUE, r + 1, 0)
  BY <1>1, AfterNewline
<1>6. NL \in Bytes /\ Picture(t, r, k) = SPACE
  BY <1>3 DEF Bytes
<1>7. Reading(t, p, NL, FALSE, TRUE, r, k + 1)
  BY <1>4 DEF Reading
<1> QED  BY <1>3, <1>5, <1>6, <1>7 DEF ReadTo, Blank, Drawn

\* The read of a character, as NextChar, ReadBoth and AtEnd have it.
ReadResult(t, p, ch, ended, op, r, k) ==
  IF ch = NL \/ ~op THEN ReadTo(t, r, k, p, ch, ended, op)
  ELSE IF p = Len(t) THEN ReadTo(t, r, k, p, NL, TRUE, op) /\ ~ended
  ELSE ReadTo(t, r, k, p + 1, t[p + 1], ended, op) /\ p + 1 \in 1..Len(t)

LEMMA ReadStep ==
  ASSUME NEW t \in Seq(Bytes), NEW p \in Nat, NEW ch, NEW ended \in BOOLEAN, NEW op \in BOOLEAN,
         NEW r \in Nat, NEW k \in Nat, Reading(t, p, ch, ended, op, r, k)
  PROVE  ReadResult(t, p, ch, ended, op, r, k)
<1> USE DEF ReadResult
<1>1. CASE ch # NL /\ ~ended /\ op /\ InLine(t, p, r, k)
  <2>1. PICK b \in Starts(t) : Rank(t, b) = r /\ p = b - 1 + k /\ p < LineEnd(t, b)
    BY <1>1, Zenon DEF InLine
  <2>2. IF p = Len(t) THEN ReadTo(t, r, k, p, NL, TRUE, TRUE)
        ELSE p + 1 \in 1..Len(t) /\ ReadTo(t, r, k, p + 1, t[p + 1], FALSE, TRUE)
    BY <2>1, ReadInLine
  <2>3. op = TRUE /\ ended = FALSE
    BY <1>1
  <2> QED  BY <1>1, <2>2, <2>3
<1>2. CASE ch # NL /\ ~ended /\ op /\ r = Len(Lines(t)) /\ p = Len(t)
  <2>1. Ended(t, r, k)
    BY <1>2 DEF Ended
  <2>2. ReadTo(t, r, k, Len(t), NL, TRUE, op)
    BY <2>1, ReadAtEnd
  <2> QED  BY <1>2, <2>2
<1>3. CASE ch = NL /\ ~ended /\ op /\ Behind(t, p, r, k)
  <2>1. ReadTo(t, r, k, p, NL, FALSE, TRUE)
    BY <1>3, NoReadBehind
  <2>2. op = TRUE /\ ended = FALSE
    BY <1>3
  <2> QED  BY <1>3, <2>1, <2>2
<1>4. CASE ch = NL /\ ended /\ p = Len(t) /\ Ended(t, r, k)
  <2>1. ReadTo(t, r, k, Len(t), NL, TRUE, op)
    BY <1>4, ReadAtEnd
  <2>2. ended = TRUE
    BY <1>4
  <2> QED  BY <1>4, <2>1, <2>2
<1> QED  BY <1>1, <1>2, <1>3, <1>4 DEF Reading

\* The blinker of a cell, and whether it has one, for the pictures fr.
Dots(fr, r, k) ==
  <<r * COLS + k + OFFSET, Picture(fr[0].text, r, k), Picture(fr[1].text, r, k)>>
Inked(fr, r, k) == ~(Blank(Picture(fr[0].text, r, k)) /\ Blank(Picture(fr[1].text, r, k)))
Before(r, k, r2, k2) == r < r2 \/ (r = r2 /\ k < k2)

Within(fr, r, k) == LET size == Len(fr[0].text) + Len(fr[1].text) IN r <= size /\ k <= size

InUse(arr) == {s \in Slots : arr[s].location # 0}
Triple(b) == <<b.location, b.on_char, b.off_char>>

\* The slots in use are the blinkers of the cells before column k2 of row r2.
OnlyCells(arr, fr, r2, k2) ==
  \A s \in InUse(arr) : \E r, k \in Nat :
    /\ Before(r, k, r2, k2) /\ Inked(fr, r, k) /\ Within(fr, r, k)
    /\ Triple(arr[s]) = Dots(fr, r, k)
EveryCell(arr, fr, r2, k2) ==
  \A r, k \in Nat : Before(r, k, r2, k2) /\ Inked(fr, r, k) /\ r * COLS + k + OFFSET < CELLS
    => \E s \in InUse(arr) : Triple(arr[s]) = Dots(fr, r, k)
\* Their locations are below the next one, and differ.
Below(arr, r2, k2) ==
  \A s \in InUse(arr) : /\ arr[s].location < r2 * COLS + k2 + OFFSET
                        /\ arr[s].location < r2 * COLS + COLS + OFFSET
Apart(arr) == \A s, u \in InUse(arr) : arr[s].location = arr[u].location => s = u

Laid(arr, fr, r2, k2) ==
  OnlyCells(arr, fr, r2, k2) /\ EveryCell(arr, fr, r2, k2) /\ Below(arr, r2, k2) /\ Apart(arr)

LEMMA FishConstants ==
  /\ COLS \in Nat /\ COLS > 0 /\ OFFSET \in Nat /\ OFFSET > 0 /\ WAIT \in Nat
  /\ EXTRA \in 1..(CELLS - 1) /\ EXTRA \in Words
  /\ LENGTH \in Words /\ EXTRA_ON \in Words /\ EXTRA_OFF \in Words
<1>1. FishAssumption
  BY FishAssumption
<1> QED  BY <1>1 DEF FishAssumption, Words

LEMMA RowBase ==
  ASSUME NEW r \in Nat
  PROVE  r * COLS \in Nat /\ (r + 1) * COLS = r * COLS + COLS
  BY FishConstants

LEMMA BeforeNext ==
  ASSUME NEW r \in Nat, NEW k \in Nat, NEW r2 \in Nat, NEW k2 \in Nat
  PROVE  /\ Before(r, k, r2, k2) => Before(r, k, r2, k2 + 1)
         /\ Before(r, k, r2, k2 + 1) => Before(r, k, r2, k2) \/ (r = r2 /\ k = k2)
         /\ Before(r, k, r2, k2) => Before(r, k, r2 + 1, 0)
         /\ Before(r, k, r2 + 1, 0) => Before(r, k, r2, k2) \/ (r = r2 /\ k >= k2)
         /\ Before(r2, k2, r2, k2 + 1)
  BY DEF Before

\* A cell without a blinker.
LEMMA SkipLaid ==
  ASSUME NEW arr \in [Slots -> Blinkers], NEW fr, NEW r2 \in Nat, NEW k2 \in Nat,
         Laid(arr, fr, r2, k2),
         ~Inked(fr, r2, k2) \/ ~(r2 * COLS + k2 + OFFSET < CELLS)
  PROVE  Laid(arr, fr, r2, k2 + 1)
<1>1. OnlyCells(arr, fr, r2, k2 + 1)
  <2>1. ASSUME NEW s \in InUse(arr)
        PROVE  \E r, k \in Nat : /\ Before(r, k, r2, k2 + 1) /\ Inked(fr, r, k) /\ Within(fr, r, k)
                                 /\ Triple(arr[s]) = Dots(fr, r, k)
    <3>1. PICK r \in Nat, k \in Nat :
            /\ Before(r, k, r2, k2) /\ Inked(fr, r, k) /\ Within(fr, r, k)
            /\ Triple(arr[s]) = Dots(fr, r, k)
      BY Zenon DEF Laid, OnlyCells
    <3> QED  BY <3>1, BeforeNext, Zenon
  <2> QED  BY <2>1, Zenon DEF OnlyCells
<1>2. EveryCell(arr, fr, r2, k2 + 1)
  <2>1. ASSUME NEW r \in Nat, NEW k \in Nat, Before(r, k, r2, k2 + 1), Inked(fr, r, k),
               r * COLS + k + OFFSET < CELLS
        PROVE  \E s \in InUse(arr) : Triple(arr[s]) = Dots(fr, r, k)
    <3>1. Before(r, k, r2, k2)
      BY <2>1, BeforeNext, Zenon
    <3> QED  BY <2>1, <3>1, Zenon DEF Laid, EveryCell
  <2> QED  BY <2>1, Zenon DEF EveryCell
<1>3. Below(arr, r2, k2 + 1)
  <2>1. ASSUME NEW s \in InUse(arr)
        PROVE  /\ arr[s].location < r2 * COLS + (k2 + 1) + OFFSET
               /\ arr[s].location < r2 * COLS + COLS + OFFSET
    <3>1. arr[s].location \in Nat
      BY DEF InUse, Blinkers
    <3>2. /\ arr[s].location < r2 * COLS + k2 + OFFSET
          /\ arr[s].location < r2 * COLS + COLS + OFFSET
      BY Zenon DEF Laid, Below
    <3> QED  BY <3>1, <3>2, RowBase, FishConstants
  <2> QED  BY <2>1, Zenon DEF Below
<1> QED  BY <1>1, <1>2, <1>3, Zenon DEF Laid

\* The end of a row.
LEMMA RowLaid ==
  ASSUME NEW arr \in [Slots -> Blinkers], NEW fr, NEW r2 \in Nat, NEW k2 \in Nat,
         Laid(arr, fr, r2, k2), \A k \in Nat : k >= k2 => ~Inked(fr, r2, k)
  PROVE  Laid(arr, fr, r2 + 1, 0)
<1>1. OnlyCells(arr, fr, r2 + 1, 0)
  <2>1. ASSUME NEW s \in InUse(arr)
        PROVE  \E r, k \in Nat : /\ Before(r, k, r2 + 1, 0) /\ Inked(fr, r, k) /\ Within(fr, r, k)
                                 /\ Triple(arr[s]) = Dots(fr, r, k)
    <3>1. PICK r \in Nat, k \in Nat :
            /\ Before(r, k, r2, k2) /\ Inked(fr, r, k) /\ Within(fr, r, k)
            /\ Triple(arr[s]) = Dots(fr, r, k)
      BY Zenon DEF Laid, OnlyCells
    <3> QED  BY <3>1, BeforeNext, Zenon
  <2> QED  BY <2>1, Zenon DEF OnlyCells
<1>2. EveryCell(arr, fr, r2 + 1, 0)
  <2>1. ASSUME NEW r \in Nat, NEW k \in Nat, Before(r, k, r2 + 1, 0), Inked(fr, r, k),
               r * COLS + k + OFFSET < CELLS
        PROVE  \E s \in InUse(arr) : Triple(arr[s]) = Dots(fr, r, k)
    <3>1. Before(r, k, r2, k2)
      <4>1. Before(r, k, r2, k2) \/ (r = r2 /\ k >= k2)
        BY <2>1, BeforeNext
      <4>2. ~(r = r2 /\ k >= k2)
        BY <2>1
      <4> QED  BY <4>1, <4>2
    <3> QED  BY <2>1, <3>1, Zenon DEF Laid, EveryCell
  <2> QED  BY <2>1, Zenon DEF EveryCell
<1>3. Below(arr, r2 + 1, 0)
  <2>1. ASSUME NEW s \in InUse(arr)
        PROVE  /\ arr[s].location < (r2 + 1) * COLS + 0 + OFFSET
               /\ arr[s].location < (r2 + 1) * COLS + COLS + OFFSET
    <3>1. arr[s].location \in Nat
      BY DEF InUse, Blinkers
    <3>2. arr[s].location < r2 * COLS + COLS + OFFSET
      BY Zenon DEF Laid, Below
    <3> QED  BY <3>1, <3>2, RowBase, FishConstants
  <2> QED  BY <2>1, Zenon DEF Below
<1> QED  BY <1>1, <1>2, <1>3, Zenon DEF Laid

\* A blinker added for a cell.
LEMMA AddLaid ==
  ASSUME NEW arr \in [Slots -> Blinkers], NEW arr2, NEW fr, NEW r2 \in Nat, NEW k2 \in Nat,
         Laid(arr, fr, r2, k2), Inked(fr, r2, k2), Within(fr, r2, k2), k2 < COLS,
         NEW new \in Slots, arr[new].location = 0, arr2[new].location # 0,
         Triple(arr2[new]) = Dots(fr, r2, k2),
         \A s \in Slots \ {new} : arr2[s] = arr[s]
  PROVE  Laid(arr2, fr, r2, k2 + 1)
<1>1. InUse(arr2) = InUse(arr) \cup {new} /\ new \notin InUse(arr)
  <2> HIDE DEF Slots
  <2> QED  BY DEF InUse
<1>2. \A s \in InUse(arr) : arr2[s] = arr[s]
  <2> HIDE DEF Slots
  <2> QED  BY DEF InUse
<1>3. arr2[new].location = r2 * COLS + k2 + OFFSET
  BY DEF Triple, Dots
<1>4. OnlyCells(arr2, fr, r2, k2 + 1)
  <2>1. ASSUME NEW s \in InUse(arr2)
        PROVE  \E r, k \in Nat : /\ Before(r, k, r2, k2 + 1) /\ Inked(fr, r, k) /\ Within(fr, r, k)
                                 /\ Triple(arr2[s]) = Dots(fr, r, k)
    <3>1. CASE s = new
      BY <3>1, BeforeNext, Zenon
    <3>2. CASE s # new
      <4>1. s \in InUse(arr) /\ arr2[s] = arr[s]
        BY <1>1, <1>2, <3>2
      <4>2. PICK r \in Nat, k \in Nat :
              /\ Before(r, k, r2, k2) /\ Inked(fr, r, k) /\ Within(fr, r, k)
              /\ Triple(arr[s]) = Dots(fr, r, k)
        BY <4>1, Zenon DEF Laid, OnlyCells
      <4>3. Triple(arr2[s]) = Dots(fr, r, k) /\ Before(r, k, r2, k2 + 1)
        BY <4>1, <4>2, BeforeNext, Zenon
      <4> QED  BY <4>2, <4>3, Zenon
    <3> QED  BY <3>1, <3>2
  <2> QED  BY <2>1, Zenon DEF OnlyCells
<1>5. EveryCell(arr2, fr, r2, k2 + 1)
  <2>1. ASSUME NEW r \in Nat, NEW k \in Nat, Before(r, k, r2, k2 + 1), Inked(fr, r, k),
               r * COLS + k + OFFSET < CELLS
        PROVE  \E s \in InUse(arr2) : Triple(arr2[s]) = Dots(fr, r, k)
    <3>1. CASE r = r2 /\ k = k2
      <4>1. new \in InUse(arr2)
        BY <1>1
      <4> QED  BY <3>1, <4>1, Zenon
    <3>2. CASE ~(r = r2 /\ k = k2)
      <4>1. Before(r, k, r2, k2)
        BY <2>1, <3>2, BeforeNext, Zenon
      <4>2. PICK s \in InUse(arr) : Triple(arr[s]) = Dots(fr, r, k)
        BY <2>1, <4>1, Zenon DEF Laid, EveryCell
      <4>3. s \in InUse(arr2) /\ arr2[s] = arr[s]
        BY <1>1, <1>2
      <4>4. Triple(arr2[s]) = Dots(fr, r, k)
        BY <4>2, <4>3, Zenon
      <4> QED  BY <4>3, <4>4
    <3> QED  BY <3>1, <3>2
  <2> QED  BY <2>1, Zenon DEF EveryCell
<1>6. Below(arr2, r2, k2 + 1)
  <2>1. ASSUME NEW s \in InUse(arr2)
        PROVE  /\ arr2[s].location < r2 * COLS + (k2 + 1) + OFFSET
               /\ arr2[s].location < r2 * COLS + COLS + OFFSET
    <3>1. CASE s = new
      BY <1>3, <3>1, RowBase, FishConstants
    <3>2. CASE s # new
      <4>1. s \in InUse(arr) /\ arr2[s] = arr[s]
        BY <1>1, <1>2, <3>2
      <4>2. arr[s].location \in Nat
        BY <4>1 DEF InUse, Blinkers
      <4>3. /\ arr[s].location < r2 * COLS + k2 + OFFSET
            /\ arr[s].location < r2 * COLS + COLS + OFFSET
        BY <4>1, Zenon DEF Laid, Below
      <4> QED  BY <4>1, <4>2, <4>3, RowBase, FishConstants
    <3> QED  BY <3>1, <3>2
  <2> QED  BY <2>1, Zenon DEF Below
<1>7. Apart(arr2)
  <2>1. ASSUME NEW s \in InUse(arr) PROVE arr2[s].location # arr2[new].location
    <3>1. arr[s].location \in Nat /\ arr[s].location < r2 * COLS + k2 + OFFSET
      BY DEF InUse, Blinkers, Laid, Below
    <3>2. arr[s].location # r2 * COLS + k2 + OFFSET
      BY <3>1, RowBase, FishConstants
    <3> QED  BY <1>2, <1>3, <3>2
  <2>2. \A s, u \in InUse(arr) : arr2[s].location = arr2[u].location => s = u
    BY <1>2 DEF Laid, Apart
  <2> QED  BY <1>1, <2>1, <2>2 DEF Apart
<1> QED  BY <1>4, <1>5, <1>6, <1>7, Zenon DEF Laid

\* Pictures that fit never fill the array: the pigeonhole principle.
LEMMA RoomForCell ==
  ASSUME NEW arr \in [Slots -> Blinkers], Apart(arr)
  PROVE  \E s \in Slots : arr[s].location = 0
<1> SUFFICES ASSUME \A s \in Slots : arr[s].location # 0 PROVE FALSE
  OBVIOUS
<1> DEFINE T == 1..(CELLS - 1)
           f == [s \in Slots |-> arr[s].location]
<1>1. IsFiniteSet(Slots) /\ Cardinality(Slots) = CELLS
  BY FS_Interval
<1>2. IsFiniteSet(T) /\ Cardinality(T) = CELLS - 1
  <2>1. 1 \in Int /\ CELLS - 1 \in Int
    OBVIOUS
  <2>2. /\ IsFiniteSet(1..(CELLS - 1))
        /\ Cardinality(1..(CELLS - 1)) = IF 1 > CELLS - 1 THEN 0 ELSE (CELLS - 1) - 1 + 1
    BY <2>1, FS_Interval, Zenon
  <2> QED  BY <2>2
<1>3. f \in [Slots -> T]
  <2>1. ASSUME NEW s \in Slots PROVE arr[s].location \in T
    BY DEF Blinkers
  <2> QED  BY <2>1
<1>4. \A s, u \in Slots : f[s] = f[u] => s = u
  <2>1. InUse(arr) = Slots
    BY DEF InUse
  <2> HIDE DEF Slots
  <2> QED  BY <2>1 DEF Apart
<1> HIDE DEF T, f, Slots
<1>5. Cardinality(T) < Cardinality(Slots)
  BY <1>1, <1>2
<1> QED  BY <1>1, <1>2, <1>3, <1>4, <1>5, FS_PigeonHole

FishTypes ==
  /\ frames \in Files
  /\ pos \in [F -> Nat] /\ opened \in [F -> BOOLEAN] /\ eof \in [F -> BOOLEAN]
  /\ c \in [F -> Bytes]
  /\ row \in Nat /\ col \in Nat /\ i \in Nat

\* While the pictures are read: both descriptors are at the cell that comes
\* next, and the blinkers of the cells before it are in the array.
Laying ==
  stage \in {"open", "frames"} =>
    /\ Laid(blink_array, frames, row, col)
    /\ \A f \in F : Reading(frames[f].text, pos[f], c[f], eof[f], opened[f], row, col)

FishInv == FishTypes /\ PicturesFit /\ BlinkInv /\ Laying /\ FramesLaid

LEMMA FishInitInv ==
  ASSUME NEW files \in Files, FishInit(files), PicturesFit
  PROVE  FishInv
<1>1. FishTypes
  <2>1. 48 \in Bytes
    BY DEF Bytes
  <2> QED  BY <2>1 DEF FishInit, FishTypes
<1>2. BlinkInv
  BY BlinkInitInv DEF FishInit
<1>3. Laid(blink_array, frames, 0, 0)
  <2>1. InUse(blink_array) = {}
    BY FreeOK DEF FishInit, BlinkInit, InUse
  <2>2. \A r, k \in Nat : ~Before(r, k, 0, 0)
    BY DEF Before
  <2> QED  BY <2>1, <2>2 DEF Laid, OnlyCells, EveryCell, Below, Apart
<1>4. ASSUME NEW f \in F
      PROVE  Reading(frames[f].text, pos[f], c[f], eof[f], opened[f], 0, 0)
  <2> DEFINE t == frames[f].text
  <2>1. t \in Seq(Bytes)
    BY <1>1 DEF FishTypes, Files
  <2>2. pos[f] = 0 /\ c[f] = 48 /\ eof[f] = FALSE /\ opened[f] = TRUE
    BY DEF FishInit
  <2> HIDE DEF t
  <2>3. CASE Len(t) > 0
    <3>1. 1 \in Starts(t) /\ Rank(t, 1) = 0
      BY <2>1, <2>3, FirstLine
    <3>2. LineEnd(t, 1) \in 1..(Len(t) + 1)
      BY <2>1, <3>1, EndFacts DEF Starts
    <3>3. 0 = 1 - 1 + 0 /\ 0 < LineEnd(t, 1)
      BY <2>1, <3>2
    <3>4. InLine(t, 0, 0, 0)
      BY <3>1, <3>3, Zenon DEF InLine
    <3> QED  BY <2>2, <3>4 DEF Reading, t
  <2>4. CASE ~(Len(t) > 0)
    <3>1. Len(t) = 0 /\ Len(Lines(t)) = 0
      BY <2>1, <2>4, FirstLine
    <3> QED  BY <2>2, <3>1 DEF Reading, t
  <2> QED  BY <2>3, <2>4
<1>5. row = 0 /\ col = 0 /\ stage = "open"
  BY DEF FishInit
<1>6. Laying
  BY <1>3, <1>4, <1>5 DEF Laying
<1>7. FramesLaid
  BY <1>5 DEF FramesLaid
<1> QED  BY <1>1, <1>2, <1>6, <1>7 DEF FishInv

\* What ReadBoth does to a descriptor.
Moved(f) == IF Reads(f) /\ ~AtEnd(f) THEN pos[f] + 1 ELSE pos[f]
EofNow(f) == eof[f] \/ AtEnd(f)

LEMMA ReadsTo ==
  ASSUME FishTypes, NEW f \in F,
         Reading(frames[f].text, pos[f], c[f], eof[f], opened[f], row, col)
  PROVE  /\ ReadTo(frames[f].text, row, col, Moved(f), NextChar(f), EofNow(f), opened[f])
         /\ Moved(f) \in Nat /\ EofNow(f) \in BOOLEAN
<1> DEFINE t == frames[f].text
<1>1. /\ t \in Seq(Bytes) /\ pos[f] \in Nat /\ eof[f] \in BOOLEAN /\ opened[f] \in BOOLEAN
      /\ row \in Nat /\ col \in Nat
  BY DEF FishTypes, Files
<1>2. IF c[f] = NL \/ ~opened[f] THEN ReadTo(t, row, col, pos[f], c[f], eof[f], opened[f])
      ELSE IF pos[f] = Len(t) THEN ReadTo(t, row, col, pos[f], NL, TRUE, opened[f]) /\ ~eof[f]
      ELSE /\ ReadTo(t, row, col, pos[f] + 1, t[pos[f] + 1], eof[f], opened[f])
           /\ pos[f] + 1 \in 1..Len(t)
  <2>1. Reading(t, pos[f], c[f], eof[f], opened[f], row, col)
    OBVIOUS
  <2> HIDE DEF t
  <2>2. ReadResult(t, pos[f], c[f], eof[f], opened[f], row, col)
    BY <1>1, <2>1, ReadStep
  <2> QED  BY <2>2 DEF ReadResult
<1>3. CASE c[f] = NL \/ ~opened[f]
  <2>1. ~Reads(f) /\ ~AtEnd(f)
    BY <1>3 DEF Reads, AtEnd
  <2>2. Moved(f) = pos[f] /\ NextChar(f) = c[f]
    BY <2>1 DEF Moved, NextChar
  <2>3. EofNow(f) = eof[f]
    BY <1>1, <2>1 DEF EofNow
  <2> QED  BY <1>1, <1>2, <1>3, <2>2, <2>3
<1>4. CASE ~(c[f] = NL \/ ~opened[f]) /\ pos[f] = Len(t)
  <2>1. Reads(f) /\ AtEnd(f)
    BY <1>4 DEF Reads, AtEnd
  <2>2. Moved(f) = pos[f] /\ NextChar(f) = NL
    BY <2>1 DEF Moved, NextChar
  <2>3. EofNow(f) = TRUE
    BY <2>1 DEF EofNow
  <2> QED  BY <1>1, <1>2, <1>4, <2>2, <2>3
<1>5. CASE ~(c[f] = NL \/ ~opened[f]) /\ pos[f] # Len(t)
  <2>1. Reads(f) /\ ~AtEnd(f)
    BY <1>5 DEF Reads, AtEnd
  <2>2. Moved(f) = pos[f] + 1 /\ NextChar(f) = t[pos[f] + 1]
    BY <2>1 DEF Moved, NextChar
  <2>3. EofNow(f) = eof[f]
    BY <1>1, <2>1 DEF EofNow
  <2> QED  BY <1>1, <1>2, <1>5, <2>2, <2>3
<1> QED  BY <1>3, <1>4, <1>5

\* When all rows are read, the slots in use are the blinkers of the pictures.
AllCells(fr, size) ==
  {<<r * COLS + k + OFFSET, Picture(fr[0].text, r, k), Picture(fr[1].text, r, k)>> :
     r, k \in 0..size}
AllWanted(fr) ==
  {w \in AllCells(fr, Len(fr[0].text) + Len(fr[1].text)) :
     w[1] < CELLS /\ ~(Blank(w[2]) /\ Blank(w[3]))}

LEMMA LaidIsWanted ==
  ASSUME NEW arr \in [Slots -> Blinkers], NEW fr \in Files, NEW r2 \in Nat, Laid(arr, fr, r2, 0),
         \A f \in F : r2 >= Len(Lines(fr[f].text))
  PROVE  {Triple(arr[s]) : s \in InUse(arr)} = AllWanted(fr)
<1> DEFINE size == Len(fr[0].text) + Len(fr[1].text)
<1>1. fr[0].text \in Seq(Bytes) /\ fr[1].text \in Seq(Bytes) /\ size \in Nat
  <2>1. ASSUME NEW f \in F PROVE fr[f].text \in Seq(Bytes)
    BY DEF Files
  <2>2. 0 \in F /\ 1 \in F
    BY DEF F
  <2>3. fr[0].text \in Seq(Bytes) /\ fr[1].text \in Seq(Bytes)
    BY <2>1, <2>2, Zenon
  <2>4. ASSUME NEW t \in Seq(Bytes), NEW u \in Seq(Bytes) PROVE Len(t) + Len(u) \in Nat
    OBVIOUS
  <2> QED  BY <2>3, <2>4, Zenon
<1>2. ASSUME NEW s \in InUse(arr) PROVE Triple(arr[s]) \in AllWanted(fr)
  <2>1. PICK r \in Nat, k \in Nat : /\ Inked(fr, r, k) /\ Within(fr, r, k)
                                    /\ Triple(arr[s]) = Dots(fr, r, k)
    BY Zenon DEF Laid, OnlyCells
  <2>2. r \in 0..size /\ k \in 0..size
    <3>1. r <= size /\ k <= size
      BY <2>1, Zenon DEF Within
    <3> HIDE DEF size
    <3> QED  BY <1>1, <3>1
  <2>3. r * COLS + k + OFFSET < CELLS
    <3>1. arr[s].location \in 0..(CELLS - 1)
      BY DEF InUse, Blinkers
    <3>2. arr[s].location = r * COLS + k + OFFSET
      BY <2>1 DEF Triple, Dots
    <3> QED  BY <3>1, <3>2
  <2> HIDE DEF size
  <2> DEFINE w == Dots(fr, r, k)
  <2>4. w[1] < CELLS /\ ~(Blank(w[2]) /\ Blank(w[3]))
    BY <2>1, <2>3 DEF Inked, Dots
  <2>5. w \in AllCells(fr, size)
    BY <2>2 DEF Dots, AllCells
  <2> HIDE DEF w
  <2>6. w \in AllWanted(fr)
    BY <2>4, <2>5, Zenon DEF AllWanted, size
  <2> QED  BY <2>1, <2>6 DEF w
<1>3. ASSUME NEW w \in AllWanted(fr) PROVE \E s \in InUse(arr) : Triple(arr[s]) = w
  <2>1. PICK r \in 0..size, k \in 0..size : w = Dots(fr, r, k)
    <3>1. w \in AllCells(fr, size)
      BY Zenon DEF AllWanted
    <3> HIDE DEF size
    <3> QED  BY <3>1 DEF AllCells, Dots
  <2>2. w[1] < CELLS /\ ~(Blank(w[2]) /\ Blank(w[3]))
    BY DEF AllWanted
  <2>3. Inked(fr, r, k) /\ r * COLS + k + OFFSET < CELLS
    BY <2>1, <2>2 DEF Inked, Dots
  <2>4. r \in Nat /\ k \in Nat
    BY <1>1
  <2>5. r < r2
    <3> SUFFICES ASSUME ~(r < r2) PROVE FALSE
      OBVIOUS
    <3>1. ASSUME NEW f \in F PROVE Picture(fr[f].text, r, k) = SPACE
      <4>1. fr[f].text \in Seq(Bytes)
        BY DEF Files
      <4>2. r >= Len(Lines(fr[f].text))
        <5>1. Len(Lines(fr[f].text)) \in Nat /\ r2 >= Len(Lines(fr[f].text))
          BY <4>1, LinesLen
        <5> QED  BY <2>4, <5>1
      <4> QED  BY <2>4, <4>1, <4>2, PictureBelow
    <3> QED  BY <2>3, <3>1 DEF Inked, Blank, F
  <2>6. Before(r, k, r2, 0)
    BY <2>5 DEF Before
  <2> QED  BY <2>1, <2>3, <2>4, <2>6, Zenon DEF Laid, EveryCell
<1> QED  BY <1>2, <1>3

\* The location of a cell that a picture reaches.
LEMMA CellFits ==
  ASSUME FishTypes, PicturesFit, NEW f \in F,
         row < Len(Lines(frames[f].text)), col < Len(Lines(frames[f].text)[row + 1]),
         Len(Lines(frames[f].text)[row + 1]) \in Nat
  PROVE  /\ col < COLS
         /\ row * COLS + col + OFFSET \in 1..(WORD - 1)
         /\ (row * COLS + col + OFFSET) % WORD = row * COLS + col + OFFSET
<1> DEFINE t == frames[f].text
           n == row + 1
           len == Len(Lines(t)[n])
           loc == row * COLS + col + OFFSET
<1>1. t \in Seq(Bytes) /\ row \in Nat /\ col \in Nat
  BY DEF FishTypes, Files
<1>2. DOMAIN Lines(t) = 1..Cardinality(Starts(t)) /\ Len(Lines(t)) = Cardinality(Starts(t))
  BY <1>1, LinesLen DEF Lines
<1>3. n \in DOMAIN Lines(t) /\ n - 1 = row
  BY <1>1, <1>2, LinesLen
<1>4. len <= COLS /\ (n - 1) * COLS + len + OFFSET <= WORD
  BY <1>3, Zenon DEF PicturesFit
<1>5. len \in Int
  OBVIOUS
<1> HIDE DEF len
<1>6. row * COLS + len + OFFSET <= WORD /\ col < len
  BY <1>3, <1>4 DEF len
<1>7. col < COLS /\ loc \in 1..(WORD - 1)
  BY <1>1, <1>4, <1>5, <1>6, RowBase, FishConstants
<1> HIDE DEF loc
<1>8. loc % WORD = loc
  BY <1>7
<1> QED  BY <1>7, <1>8 DEF loc

\* A step that reads both pictures.
LEMMA ReadBothTypes ==
  ASSUME FishTypes, \A f \in F : Moved(f) \in Nat /\ EofNow(f) \in BOOLEAN,
         ReadBoth
  PROVE  /\ pos' \in [F -> Nat] /\ eof' \in [F -> BOOLEAN]
         /\ \A f \in F : pos'[f] = Moved(f) /\ eof'[f] = EofNow(f)
<1>1. pos' = [f \in F |-> Moved(f)]
  BY Zenon DEF ReadBoth, Moved
<1>2. eof' = [f \in F |-> EofNow(f)]
  BY Zenon DEF ReadBoth, EofNow
<1> QED  BY <1>1, <1>2, Zenon

LEMMA CellInv ==
  ASSUME FishInv, Cell
  PROVE  FishInv'
<1>1. FishTypes /\ PicturesFit /\ BlinkInv /\ stage = "frames" /\ stage' = "frames"
  BY DEF FishInv, Cell
<1>2. /\ Laid(blink_array, frames, row, col)
      /\ \A f \in F : Reading(frames[f].text, pos[f], c[f], eof[f], opened[f], row, col)
  BY <1>1 DEF FishInv, Laying
<1>3. \A f \in F :
        /\ ReadTo(frames[f].text, row, col, Moved(f), NextChar(f), EofNow(f), opened[f])
        /\ Moved(f) \in Nat /\ EofNow(f) \in BOOLEAN
  BY <1>1, <1>2, ReadsTo, Zenon
<1>4. /\ frames' = frames /\ opened' = opened /\ row' = row /\ col' = col + 1 /\ i' = i
      /\ c' = [f \in F |-> NextChar(f)]
  BY DEF Cell
<1>5. /\ pos' \in [F -> Nat] /\ eof' \in [F -> BOOLEAN]
      /\ \A f \in F : pos'[f] = Moved(f) /\ eof'[f] = EofNow(f)
  <2>1. ReadBoth
    BY DEF Cell
  <2> QED  BY <1>1, <1>3, <2>1, ReadBothTypes, Zenon
<1>6. FishTypes'
  <2>1. \A f \in F : NextChar(f) \in Bytes
    BY <1>3, Zenon DEF ReadTo
  <2>2. c' \in [F -> Bytes]
    BY <1>4, <2>1, Zenon
  <2>3. col' \in Nat
    BY <1>1, <1>4 DEF FishTypes
  <2> QED  BY <1>1, <1>4, <1>5, <2>2, <2>3 DEF FishTypes
<1>7. PicturesFit'
  BY <1>1, <1>4, Zenon DEF PicturesFit
<1>8. \A f \in F : Reading(frames'[f].text, pos'[f], c'[f], eof'[f], opened'[f], row', col')
  <2>1. ASSUME NEW f \in F
        PROVE  Reading(frames'[f].text, pos'[f], c'[f], eof'[f], opened'[f], row', col')
    <3>1. Reading(frames[f].text, Moved(f), NextChar(f), EofNow(f), opened[f], row, col + 1)
      BY <1>3, Zenon DEF ReadTo
    <3>2. c'[f] = NextChar(f)
      BY <1>4, Zenon
    <3> QED  BY <1>4, <1>5, <3>1, <3>2, Zenon
  <2> QED  BY <2>1
<1>9. Laid(blink_array', frames, row, col + 1) /\ BlinkInv'
  <2>1. blink_array \in [Slots -> Blinkers] /\ row \in Nat /\ col \in Nat
    BY <1>1 DEF BlinkInv, BlinkTypes, FishTypes
  <2>2. 0 \in F /\ 1 \in F
    BY DEF F
  <2>3. /\ Drawn(NextChar(0)) = Picture(frames[0].text, row, col)
        /\ Drawn(NextChar(1)) = Picture(frames[1].text, row, col)
        /\ \A f \in F : Blank(NextChar(f)) <=> Blank(Picture(frames[f].text, row, col))
    BY <1>3, <2>2, Zenon DEF ReadTo
  <2>4. CASE (\A f \in F : Blank(NextChar(f))) /\ UNCHANGED blinkVars
    <3>1. ~Inked(frames, row, col)
      BY <2>2, <2>3, <2>4, Zenon DEF Inked
    <3>2. Laid(blink_array, frames, row, col + 1)
      BY <1>2, <2>1, <3>1, SkipLaid
    <3>3. blink_array' = blink_array
      BY <2>4 DEF blinkVars
    <3> QED  BY <1>1, <2>4, <3>2, <3>3, BlinkStutters
  <2> DEFINE loc == row * COLS + col + OFFSET
             req == [location |-> loc % WORD,
                     on_char |-> Drawn(NextChar(0)), off_char |-> Drawn(NextChar(1)),
                     on_length |-> LENGTH, off_length |-> LENGTH]
  <2>5. CASE (\E f \in F : ~Blank(NextChar(f))) /\ mp1_ioctl_add(req)
    <3>1. PICK f \in F : ~Blank(NextChar(f))
      BY <2>5
    <3>2. NextChar(f) # NL
      BY <3>1 DEF Blank
    <3>3. /\ row < Len(Lines(frames[f].text)) /\ col < Len(Lines(frames[f].text)[row + 1])
          /\ Len(Lines(frames[f].text)[row + 1]) \in Nat
          /\ row <= Len(frames[f].text) /\ col <= Len(frames[f].text)
      BY <1>3, <3>2, Zenon DEF ReadTo
    <3>4. col < COLS /\ loc \in 1..(WORD - 1) /\ loc % WORD = loc
      BY <1>1, <3>3, CellFits
    <3>5. Within(frames, row, col)
      <4>1. ASSUME NEW g \in F PROVE Len(frames[g].text) \in Nat
        BY <1>1 DEF FishTypes, Files
      <4>2. Len(frames[0].text) \in Nat /\ Len(frames[1].text) \in Nat
        BY <2>2, <4>1, Zenon
      <4>3. f = 0 \/ f = 1
        BY DEF F
      <4>4. ASSUME NEW a \in Nat, NEW b \in Nat, NEW x \in Nat, x <= a \/ x <= b
            PROVE  x <= a + b
        BY <4>4
      <4>5. /\ row <= Len(frames[0].text) \/ row <= Len(frames[1].text)
            /\ col <= Len(frames[0].text) \/ col <= Len(frames[1].text)
        BY <3>3, <4>3, Zenon
      <4> QED  BY <2>1, <4>2, <4>4, <4>5, Zenon DEF Within
    <3>6. Inked(frames, row, col)
      <4>1. ~Blank(Picture(frames[f].text, row, col))
        BY <2>3, <3>1
      <4>2. f = 0 \/ f = 1
        BY DEF F
      <4> QED  BY <4>1, <4>2, Zenon DEF Inked
    <3>7. req \in Filled /\ req.location = loc /\ loc # 0
      <4>1. ASSUME NEW g \in F PROVE Drawn(NextChar(g)) \in Bytes
        <5>1. NextChar(g) \in Bytes
          BY <1>3, Zenon DEF ReadTo
        <5> QED  BY <5>1 DEF Drawn, Bytes
      <4>2. Drawn(NextChar(0)) \in Bytes /\ Drawn(NextChar(1)) \in Bytes
        BY <2>2, <4>1, Zenon
      <4>3. loc % WORD \in Words /\ loc # 0
        BY <3>4 DEF Words
      <4> HIDE DEF loc
      <4> QED  BY <3>4, <4>2, <4>3, FishConstants DEF Filled
    <3>8. BlinkInv'
      <4> HIDE DEF req
      <4> QED  BY <1>1, <2>5, <3>7, AddInv
    <3>9. CASE req.location < CELLS /\ mp1_malloc # NULL /\ Added(req)
      <4> DEFINE s0 == mp1_malloc
                 b == NewBlinker(req, mp1_list_head)
      <4>1. s0 \in Slots /\ blink_array[s0].location = 0
        BY <3>9, MallocFinds
      <4>2. mp1_list_head \in 0..CELLS
        BY <1>1 DEF BlinkInv, BlinkTypes
      <4>3. /\ b \in Blinkers /\ b.location = req.location
            /\ b.on_char = req.on_char /\ b.off_char = req.off_char
        <5> HIDE DEF req
        <5> QED  BY <3>7, <3>9, <4>2, NewOK
      <4>4. Triple(b) = Dots(frames, row, col)
        <5>1. /\ b.location = loc /\ b.on_char = Picture(frames[0].text, row, col)
              /\ b.off_char = Picture(frames[1].text, row, col)
          BY <2>3, <3>7, <4>3
        <5> HIDE DEF b
        <5> QED  BY <5>1 DEF Triple, Dots
      <4>5. b.location # 0
        BY <3>7, <4>3
      <4>6. blink_array' = [blink_array EXCEPT ![s0] = b]
        <5> HIDE DEF req
        <5> QED  BY <3>9 DEF Added, NewBlinker
      <4> HIDE DEF s0, b
      <4>7. blink_array'[s0] = b /\ \A s \in Slots \ {s0} : blink_array'[s] = blink_array[s]
        BY <2>1, <4>1, <4>6
      <4>8. Triple(blink_array'[s0]) = Dots(frames, row, col) /\ blink_array'[s0].location # 0
        BY <4>4, <4>5, <4>7
      <4>9. Laid(blink_array', frames, row, col + 1)
        BY <1>2, <2>1, <3>4, <3>5, <3>6, <4>1, <4>7, <4>8, AddLaid
      <4> QED  BY <3>8, <4>9
    <3>10. CASE (req.location >= CELLS \/ mp1_malloc = NULL) /\ UNCHANGED blinkVars
      <4>1. mp1_malloc # NULL
        <5>1. PICK s \in Slots : blink_array[s].location = 0
          BY <1>2, <2>1, RoomForCell DEF Laid
        <5>2. At(0) # {} /\ At(0) \subseteq Nat /\ At(0) \subseteq Slots
          BY <5>1 DEF At
        <5>3. Min(At(0)) \in Slots
          BY <5>2, MinPicks
        <5> QED  BY <5>2, <5>3 DEF mp1_malloc
      <4>2. ~(loc < CELLS)
        BY <3>4, <3>7, <3>10, <4>1
      <4>3. Laid(blink_array, frames, row, col + 1)
        BY <1>2, <2>1, <4>2, SkipLaid
      <4>4. blink_array' = blink_array
        BY <3>10 DEF blinkVars
      <4> QED  BY <3>8, <4>3, <4>4
    <3> HIDE DEF req
    <3> QED  BY <2>5, <3>9, <3>10 DEF mp1_ioctl_add
  <2> QED  BY <2>4, <2>5 DEF Cell
<1>10. Laying' /\ FramesLaid'
  <2>1. Laid(blink_array', frames', row', col')
    BY <1>4, <1>9
  <2> QED  BY <1>1, <1>8, <2>1 DEF Laying, FramesLaid
<1> QED  BY <1>6, <1>7, <1>9, <1>10 DEF FishInv

LEMMA SameLinked ==
  ASSUME blink_array' = blink_array, mp1_list_head' = mp1_list_head
  PROVE  Linked' = Linked
<1>1. Chain = ChainOf(blink_array, mp1_list_head)
  BY DEF Chain, ChainOf
<1>2. Chain' = ChainOf(blink_array', mp1_list_head')
  BY DEF Chain, ChainOf
<1>3. Chain' = Chain
  BY <1>1, <1>2, Zenon
<1> QED  BY <1>3, Zenon DEF Linked

LEMMA EndRowInv ==
  ASSUME FishInv, EndRow
  PROVE  FishInv'
<1>1. FishTypes /\ PicturesFit /\ BlinkInv /\ stage = "frames"
  BY DEF FishInv, EndRow
<1>2. /\ Laid(blink_array, frames, row, col)
      /\ \A f \in F : Reading(frames[f].text, pos[f], c[f], eof[f], opened[f], row, col)
  BY <1>1 DEF FishInv, Laying
<1>3. \A f \in F :
        /\ ReadTo(frames[f].text, row, col, Moved(f), NextChar(f), EofNow(f), opened[f])
        /\ Moved(f) \in Nat /\ EofNow(f) \in BOOLEAN
  BY <1>1, <1>2, ReadsTo, Zenon
<1>4. /\ frames' = frames /\ row' = row + 1 /\ col' = 0 /\ i' = i /\ UNCHANGED blinkVars
      /\ c' = [f \in F |-> IF eof'[f] THEN NL ELSE 48]
      /\ opened' = [f \in F |-> ~eof'[f]]
      /\ \A f \in F : NextChar(f) = NL
  BY DEF EndRow
<1>5. /\ pos' \in [F -> Nat] /\ eof' \in [F -> BOOLEAN]
      /\ \A f \in F : pos'[f] = Moved(f) /\ eof'[f] = EofNow(f)
  <2>1. ReadBoth
    BY DEF EndRow
  <2> QED  BY <1>1, <1>3, <2>1, ReadBothTypes, Zenon
<1>6. FishTypes'
  <2>1. c' \in [F -> Bytes]
    <3>1. NL \in Bytes /\ 48 \in Bytes
      BY DEF Bytes
    <3> QED  BY <1>4, <3>1
  <2>2. opened' \in [F -> BOOLEAN]
    BY <1>4, Zenon
  <2>3. row' \in Nat /\ col' \in Nat
    BY <1>1, <1>4 DEF FishTypes
  <2> QED  BY <1>1, <1>4, <1>5, <2>1, <2>2, <2>3 DEF FishTypes
<1>7. PicturesFit'
  BY <1>1, <1>4, Zenon DEF PicturesFit
<1>8. BlinkInv'
  BY <1>1, <1>4, BlinkStutters
<1>9. \A f \in F : Reading(frames'[f].text, pos'[f], c'[f], eof'[f], opened'[f], row', col')
  <2>1. ASSUME NEW f \in F
        PROVE  Reading(frames'[f].text, pos'[f], c'[f], eof'[f], opened'[f], row', col')
    <3>1. Reading(frames[f].text, Moved(f), IF EofNow(f) THEN NL ELSE 48, EofNow(f), ~EofNow(f),
                  row + 1, 0)
      BY <1>3, <1>4, Zenon DEF ReadTo
    <3>2. c'[f] = (IF EofNow(f) THEN NL ELSE 48) /\ opened'[f] = ~EofNow(f)
      BY <1>4, <1>5, Zenon
    <3> QED  BY <1>4, <1>5, <3>1, <3>2, Zenon
  <2> QED  BY <2>1
<1>10. blink_array \in [Slots -> Blinkers] /\ row \in Nat /\ col \in Nat /\ frames \in Files
  BY <1>1 DEF BlinkInv, BlinkTypes, FishTypes
<1>11. Laid(blink_array, frames, row + 1, 0)
  <2>1. 0 \in F /\ 1 \in F
    BY DEF F
  <2>2. ASSUME NEW k \in Nat, k >= col PROVE ~Inked(frames, row, k)
    <3>1. ASSUME NEW f \in F PROVE Picture(frames[f].text, row, k) = SPACE
      BY <1>3, <1>4, <2>2, Zenon DEF ReadTo
    <3>2. Blank(SPACE)
      BY DEF Blank
    <3> QED  BY <2>1, <3>1, <3>2, Zenon DEF Inked
  <2> QED  BY <1>2, <1>10, <2>2, RowLaid
<1>12. blink_array' = blink_array /\ mp1_list_head' = mp1_list_head
  BY <1>4 DEF blinkVars
<1>13. Laying'
  <2>1. Laid(blink_array', frames', row', col')
    BY <1>4, <1>11, <1>12
  <2> QED  BY <1>9, <2>1, Zenon DEF Laying
<1>14. FramesLaid'
  <2> SUFFICES ASSUME stage' = "wait"
               PROVE  {<<blink_array[s].location, blink_array[s].on_char, blink_array[s].off_char>> :
                         s \in Linked}' = Wanted'
    BY Zenon DEF FramesLaid
  <2>1. \A f \in F : eof'[f]
    BY DEF EndRow
  <2>2. \A f \in F : row + 1 >= Len(Lines(frames[f].text))
    BY <1>3, <1>5, <2>1, Zenon DEF ReadTo
  <2>3. {Triple(blink_array[s]) : s \in InUse(blink_array)} = AllWanted(frames)
    BY <1>10, <1>11, <2>2, LaidIsWanted
  <2>4. Wanted' = AllWanted(frames)
    <3>1. Wanted' = AllWanted(frames')
      BY DEF Wanted, AllWanted, AllCells, MaxCol
    <3> QED  BY <1>4, <3>1
  <2>5. Linked' = Linked
    BY <1>12, SameLinked
  <2>6. Linked = InUse(blink_array)
    BY <1>1, LinkedUsed DEF BlinkInv, InUse
  <2> QED  BY <1>12, <2>3, <2>4, <2>5, <2>6, Zenon DEF Triple
<1> QED  BY <1>6, <1>7, <1>8, <1>13, <1>14 DEF FishInv

LEMMA OpenInv ==
  ASSUME FishInv, OpenFrames
  PROVE  FishInv'
<1>1. UNCHANGED blinkVars /\ UNCHANGED frameVars /\ i' = i
  BY DEF OpenFrames
<1>2. stage' \in {"frames", "halted"} /\ stage = "open"
  BY DEF OpenFrames
<1>3. BlinkInv'
  BY <1>1, BlinkStutters DEF FishInv
<1>4. FishTypes' /\ PicturesFit'
  BY <1>1 DEF FishInv, FishTypes, PicturesFit, frameVars
<1>5. Laying' /\ FramesLaid'
  BY <1>1, <1>2 DEF FishInv, Laying, FramesLaid, frameVars, blinkVars
<1> QED  BY <1>3, <1>4, <1>5 DEF FishInv

\* After the pictures only the list matters.
LEMMA LaterInv ==
  ASSUME FishInv, BlinkInv', UNCHANGED frameVars, i' \in Nat,
         stage' \notin {"open", "frames"}, ~(stage' = "wait" /\ i' = 0)
  PROVE  FishInv'
<1>1. FishTypes' /\ PicturesFit'
  BY DEF FishInv, FishTypes, PicturesFit, frameVars
<1>2. Laying' /\ FramesLaid'
  BY DEF Laying, FramesLaid
<1> QED  BY <1>1, <1>2 DEF FishInv

LEMMA FishNextInv ==
  ASSUME FishInv, [FishNext]_fishVars
  PROVE  FishInv'
<1>1. CASE OpenFrames
  BY <1>1, OpenInv
<1>2. CASE Cell
  BY <1>2, CellInv
<1>3. CASE EndRow
  BY <1>3, EndRowInv
<1>4. CASE Tick
  <2>1. BlinkInv'
    BY <1>4, TickInv DEF Tick, FishInv
  <2>2. i' \in Nat /\ i' # 0 /\ stage' \notin {"open", "frames"} /\ UNCHANGED frameVars
    BY <1>4 DEF Tick, FishInv, FishTypes
  <2> QED  BY <2>1, <2>2, LaterInv
<1>5. CASE AddExtra
  <2> DEFINE req == [location |-> EXTRA, on_char |-> 73, off_char |-> 77,
                     on_length |-> EXTRA_ON, off_length |-> EXTRA_OFF]
  <2>1. req \in Filled /\ req.location # 0
    <3>1. 73 \in Bytes /\ 77 \in Bytes /\ EXTRA # 0
      BY FishConstants DEF Bytes
    <3> QED  BY <3>1, FishConstants DEF Filled
  <2>2. mp1_ioctl_add(req)
    BY <1>5 DEF AddExtra
  <2> HIDE DEF req
  <2>3. BlinkInv'
    BY <2>1, <2>2, AddInv DEF FishInv
  <2> QED  BY <1>5, <2>3, LaterInv DEF AddExtra, AfterWait
<1>6. CASE SyncExtra
  <2>1. BlinkInv'
    BY <1>6, SyncInv DEF SyncExtra, FishInv
  <2> QED  BY <1>6, <2>1, LaterInv DEF SyncExtra, AfterWait
<1>7. CASE RemoveExtra
  <2>1. BlinkInv'
    BY <1>7, RemoveInv DEF RemoveExtra, FishInv
  <2> QED  BY <1>7, <2>1, LaterInv DEF RemoveExtra, AfterWait
<1>8. CASE CloseRtc
  <2>1. BlinkInv'
    BY <1>8, BlinkStutters DEF CloseRtc, FishInv
  <2> QED  BY <1>8, <2>1, LaterInv DEF CloseRtc, AfterWait
<1>9. CASE UNCHANGED fishVars
  <2>1. BlinkInv'
    BY <1>9, BlinkStutters DEF fishVars, FishInv
  <2>2. FishTypes' /\ PicturesFit'
    BY <1>9 DEF fishVars, FishInv, FishTypes, PicturesFit, frameVars
  <2>3. Laying'
    BY <1>9, Zenon DEF fishVars, FishInv, Laying, frameVars, blinkVars
  <2>4. FramesLaid'
    <3>1. /\ blink_array' = blink_array /\ mp1_list_head' = mp1_list_head
          /\ stage' = stage /\ i' = i /\ frames' = frames
      BY <1>9 DEF fishVars, frameVars, blinkVars
    <3>2. Linked' = Linked
      BY <3>1, SameLinked
    <3>3. Wanted' = Wanted
      <4>1. Wanted = AllWanted(frames)
        BY DEF Wanted, AllWanted, AllCells, MaxCol
      <4>2. Wanted' = AllWanted(frames')
        BY DEF Wanted, AllWanted, AllCells, MaxCol
      <4> QED  BY <3>1, <4>1, <4>2, Zenon
    <3> QED  BY <3>1, <3>2, <3>3, Zenon DEF FishInv, FramesLaid
  <2> QED  BY <2>1, <2>2, <2>3, <2>4 DEF FishInv
<1> QED  BY <1>1, <1>2, <1>3, <1>4, <1>5, <1>6, <1>7, <1>8, <1>9 DEF FishNext

\* The invariant behind fish: the blinkers are those of the cells read so far,
\* and each descriptor stands where row and col say (fish.c:35-147).
THEOREM FishInvariance == FishSpec /\ PicturesFit => []FishInv
<1>1. (\E files \in Files : FishInit(files)) /\ PicturesFit => FishInv
  BY FishInitInv
<1> QED  BY <1>1, FishNextInv, PTL DEF FishSpec

\* Pictures whose rows fit the screen are laid out as blinkers, cell by cell,
\* for every size of the screen and of the pictures (fish.c:98-147).
THEOREM PicturesAreLaid == FishSpec /\ PicturesFit => []FramesLaid
  BY FishInvariance, PTL DEF FishInv

\* The list stays sound through the whole of fish, with the blinker that main
\* adds, synchronises and removes (fish.c:35-80).
THEOREM FishListSound == FishSpec /\ PicturesFit => [](ListSound /\ ShowsStatus)
<1>1. FishInv => ListSound /\ ShowsStatus
  BY ListIsSound, StatusShown DEF FishInv, BlinkInv
<1> QED  BY <1>1, FishInvariance, PTL

-----------------------------------------------------------------------------
(* The lines that grep prints (Grep).                                      *)

MatchesIn(string, line) ==
  \E k \in 1..(Len(line) - Len(string) + 1) : SubSeq(line, k, k + Len(string) - 1) = string

Extended(t, string, n, found) ==
  IF MatchesIn(string, Lines(t)[n]) THEN Append(found, Lines(t)[n]) ELSE found

\* Found of a text and a string, with its recursion spelled out.
FoundBody(t, string, f) ==
  [n \in 0..Len(Lines(t)) |-> IF n = 0 THEN <<>> ELSE Extended(t, string, n, f[n - 1])]
FoundOf(t, string) == CHOOSE f : f = FoundBody(t, string, f)

LEMMA FoundIs == Found = FoundOf(file, search)
  BY DEF Found, FoundOf, FoundBody, Extended, MatchesIn, Matches

\* f answers for the first n lines.
Answers(t, string, n, f) ==
  /\ f = [m \in 0..n |-> f[m]]
  /\ f[0] = <<>>
  /\ \A m \in 1..n : f[m] = Extended(t, string, m, f[m - 1])

LEMMA AnswersExist ==
  ASSUME NEW t, NEW string, NEW n \in Nat
  PROVE  \E f : Answers(t, string, n, f)
<1> DEFINE T == {m \in Nat : ~ \E f : Answers(t, string, m, f)}
<1>1. SUFFICES ASSUME T # {} PROVE FALSE
  OBVIOUS
<1>2. PICK x \in T : \A y \in T : x <= y
  <2>1. T \subseteq Nat
    OBVIOUS
  <2> HIDE DEF T
  <2> QED  BY <1>1, <2>1, LeastElement
<1>3. x \in Nat /\ ~ \E f : Answers(t, string, x, f)
  OBVIOUS
<1>4. CASE x = 0
  <2> DEFINE f == [m \in 0..0 |-> <<>>]
  <2>1. f[0] = <<>> /\ f = [m \in 0..0 |-> f[m]]
    OBVIOUS
  <2> HIDE DEF f
  <2>2. Answers(t, string, 0, f)
    BY <2>1 DEF Answers
  <2> QED  BY <1>3, <1>4, <2>2
<1>5. CASE x # 0
  <2>1. x - 1 \in Nat /\ ~(x <= x - 1)
    BY <1>3, <1>5
  <2>2. x - 1 \notin T
    BY <1>2, <2>1
  <2>3. PICK f : Answers(t, string, x - 1, f)
    BY <2>1, <2>2
  <2> DEFINE e == Extended(t, string, x, f[x - 1])
             g == [m \in 0..x |-> IF m = x THEN e ELSE f[m]]
  <2> HIDE DEF e
  <2>4. g = [m \in 0..x |-> g[m]]
    OBVIOUS
  <2>5. g[0] = <<>>
    BY <1>3, <1>5, <2>3 DEF Answers
  <2>6. ASSUME NEW m \in 1..x PROVE g[m] = Extended(t, string, m, g[m - 1])
    <3>1. m - 1 \in 0..x /\ m - 1 # x /\ m \in 0..x
      BY <1>3
    <3>2. g[m - 1] = f[m - 1]
      BY <3>1
    <3>3. CASE m = x
      <4>1. g[m] = e
        BY <3>1, <3>3
      <4> HIDE DEF g
      <4> QED  BY <3>2, <3>3, <4>1 DEF e
    <3>4. CASE m # x
      <4>1. g[m] = f[m]
        BY <3>1, <3>4
      <4>2. m \in 1..(x - 1)
        BY <1>3, <3>4
      <4> HIDE DEF g
      <4> QED  BY <2>3, <3>2, <4>1, <4>2 DEF Answers
    <3> QED  BY <3>3, <3>4
  <2> HIDE DEF g
  <2>7. Answers(t, string, x, g)
    BY <2>4, <2>5, <2>6 DEF Answers
  <2> QED  BY <1>3, <2>7
<1> QED  BY <1>4, <1>5

\* The recursion that FoundOf obeys.
LEMMA FoundStep ==
  ASSUME NEW t \in Seq(Bytes), NEW string
  PROVE  /\ FoundOf(t, string)[0] = <<>>
         /\ \A n \in 1..Len(Lines(t)) :
              FoundOf(t, string)[n] = Extended(t, string, n, FoundOf(t, string)[n - 1])
<1> DEFINE N == Len(Lines(t))
<1>1. N \in Nat
  BY LinesLen
<1> HIDE DEF N
<1>2. PICK f : Answers(t, string, N, f)
  BY <1>1, AnswersExist
<1>3. f = FoundBody(t, string, f)
  <2>1. ASSUME NEW n \in 0..N
        PROVE  f[n] = IF n = 0 THEN <<>> ELSE Extended(t, string, n, f[n - 1])
    <3>1. n = 0 \/ n \in 1..N
      BY <1>1
    <3> QED  BY <1>2, <3>1 DEF Answers
  <2>2. f = [m \in 0..N |-> f[m]]
    BY <1>2 DEF Answers
  <2>3. [m \in 0..N |-> f[m]]
          = [n \in 0..N |-> IF n = 0 THEN <<>> ELSE Extended(t, string, n, f[n - 1])]
    BY <2>1
  <2> QED  BY <2>2, <2>3, Zenon DEF FoundBody, N
<1> DEFINE g == FoundOf(t, string)
<1>4. g = FoundBody(t, string, g)
  BY <1>3, Zenon DEF FoundOf
<1> HIDE DEF g
<1>5. 0 \in 0..N
  BY <1>1
<1>6. ASSUME NEW n \in 0..N
      PROVE  g[n] = IF n = 0 THEN <<>> ELSE Extended(t, string, n, g[n - 1])
  <2>1. FoundBody(t, string, g)[n] = IF n = 0 THEN <<>> ELSE Extended(t, string, n, g[n - 1])
    BY Zenon DEF FoundBody, N
  <2> QED  BY <1>4, <2>1, Zenon
<1>7. g[0] = <<>>
  BY <1>5, <1>6
<1>8. ASSUME NEW n \in 1..N PROVE g[n] = Extended(t, string, n, g[n - 1])
  <2>1. n \in 0..N /\ n # 0
    BY <1>1
  <2> QED  BY <1>6, <2>1
<1> QED  BY <1>7, <1>8 DEF g, N

\* strncmp with a string of n characters is 0 exactly where it occurs.
LEMMA ComparesEqual ==
  ASSUME NEW s1 \in Seq(Bytes), NEW s2 \in Seq(Characters)
  PROVE  strncmp(s1, s2, Len(s2)) = 0
           <=> \A x \in 0..(Len(s2) - 1) : x < Len(s1) /\ s1[x + 1] = s2[x + 1]
<1> DEFINE n == Len(s2)
           stops == {x \in 0..(n - 1) : CharAt(s1, x) # CharAt(s2, x) \/ CharAt(s1, x) = NUL}
<1>0. /\ \A v \in 1..255 : v \in Int /\ v # 0
      /\ \A v \in 0..255 : v \in Int
      /\ 0 \in Int
  OBVIOUS
<1>1. ASSUME NEW x \in 0..(n - 1)
      PROVE  /\ CharAt(s2, x) = s2[x + 1] /\ CharAt(s2, x) \in Int /\ CharAt(s2, x) # NUL
             /\ CharAt(s1, x) \in Int
             /\ CharAt(s1, x) = CharAt(s2, x) <=> x < Len(s1) /\ s1[x + 1] = s2[x + 1]
  <2>1. x + 1 \in 1..Len(s2) /\ x < Len(s2) /\ x \in Nat
    OBVIOUS
  <2>2. s2[x + 1] \in 1..255
    <3>1. s2[x + 1] \in Characters
      BY <2>1
    <3> QED  BY <3>1, Zenon DEF Characters
  <2>3. CharAt(s2, x) = s2[x + 1]
    BY <2>1 DEF CharAt
  <2>4. CASE x < Len(s1)
    <3>1. x + 1 \in 1..Len(s1)
      BY <2>1, <2>4
    <3>2. s1[x + 1] \in 0..255
      <4>1. s1[x + 1] \in Bytes
        BY <3>1
      <4> QED  BY <4>1, Zenon DEF Bytes
    <3>3. CharAt(s1, x) = s1[x + 1]
      BY <2>4 DEF CharAt
    <3>4. s1[x + 1] \in Int /\ s2[x + 1] \in Int /\ s2[x + 1] # 0
      BY <1>0, <2>2, <3>2, Zenon
    <3> QED  BY <2>3, <2>4, <3>3, <3>4, Zenon DEF NUL
  <2>5. CASE ~(x < Len(s1))
    <3>1. CharAt(s1, x) = 0
      BY <2>5 DEF CharAt, NUL
    <3>2. s2[x + 1] \in Int /\ s2[x + 1] # 0 /\ 0 \in Int
      BY <1>0, <2>2, Zenon
    <3> QED  BY <2>3, <2>5, <3>1, <3>2, Zenon DEF NUL
  <2> QED  BY <2>4, <2>5
<1>2. strncmp(s1, s2, n)
        = IF stops = {} THEN 0 ELSE CharAt(s1, Min(stops)) - CharAt(s2, Min(stops))
  BY Zenon DEF strncmp
<1>3. stops = {} <=> \A x \in 0..(n - 1) : CharAt(s1, x) = CharAt(s2, x)
  <2>1. ASSUME NEW x \in 0..(n - 1) PROVE x \in stops <=> CharAt(s1, x) # CharAt(s2, x)
    BY <1>1
  <2>2. \A x \in stops : x \in 0..(n - 1)
    OBVIOUS
  <2> HIDE DEF stops
  <2> QED  BY <2>1, <2>2
<1>4. ASSUME stops # {} PROVE CharAt(s1, Min(stops)) - CharAt(s2, Min(stops)) # 0
  <2>1. stops \subseteq Nat
    OBVIOUS
  <2>2. Min(stops) \in stops
    <3> HIDE DEF stops
    <3> QED  BY <1>4, <2>1, MinPicks
  <2> DEFINE y == Min(stops)
  <2>3. y \in 0..(n - 1) /\ CharAt(s1, y) # CharAt(s2, y)
    <3>1. \A x \in stops : x \in 0..(n - 1) /\ CharAt(s1, x) # CharAt(s2, x)
      BY <1>1
    <3> HIDE DEF stops
    <3> QED  BY <2>2, <3>1
  <2> HIDE DEF y
  <2>4. CharAt(s1, y) \in Int /\ CharAt(s2, y) \in Int
    BY <1>1, <2>3
  <2>5. CharAt(s1, y) - CharAt(s2, y) # 0
    BY <2>3, <2>4
  <2> QED  BY <2>5, Zenon DEF y
<1> HIDE DEF stops
<1>5. strncmp(s1, s2, n) = 0 <=> stops = {}
  BY <1>2, <1>4, Zenon
<1> QED  BY <1>1, <1>3, <1>5

HoldsIn(string, line) ==
  \E check \in 1..Len(line) :
    /\ string # <<>> /\ line[check] = string[1]
    /\ strncmp(SubSeq(line, check, Len(line)), string, Len(string)) = 0

\* The search of a line finds the string exactly where the line holds it.
LEMMA HoldsMatches ==
  ASSUME NEW string \in Seq(Characters), string # <<>>, NEW line \in Seq(Bytes)
  PROVE  HoldsIn(string, line) <=> MatchesIn(string, line)
<1>1. Len(string) \in Nat /\ Len(string) >= 1 /\ Len(line) \in Nat
  <2>1. Len(string) \in Nat /\ Len(string) # 0
    OBVIOUS
  <2> QED  BY <2>1
<1>2. ASSUME NEW k \in 1..Len(line)
      PROVE  LET rest == SubSeq(line, k, Len(line))
             IN  /\ rest \in Seq(Bytes) /\ Len(rest) = Len(line) - k + 1
                 /\ \A x \in 1..(Len(line) - k + 1) : rest[x] = line[k + x - 1]
  OBVIOUS
<1>3. ASSUME HoldsIn(string, line) PROVE MatchesIn(string, line)
  <2>1. PICK k \in 1..Len(line) : strncmp(SubSeq(line, k, Len(line)), string, Len(string)) = 0
    BY <1>3 DEF HoldsIn
  <2> DEFINE rest == SubSeq(line, k, Len(line))
  <2>2. /\ rest \in Seq(Bytes) /\ Len(rest) = Len(line) - k + 1
        /\ \A x \in 1..(Len(line) - k + 1) : rest[x] = line[k + x - 1]
    BY <1>2
  <2> HIDE DEF rest
  <2>3. \A x \in 0..(Len(string) - 1) : x < Len(rest) /\ rest[x + 1] = string[x + 1]
    BY <2>1, <2>2, ComparesEqual DEF rest
  <2>4. k + Len(string) - 1 <= Len(line)
    <3>1. Len(string) - 1 \in 0..(Len(string) - 1)
      BY <1>1
    <3>2. Len(string) - 1 < Len(rest)
      BY <2>3, <3>1
    <3> QED  BY <1>1, <2>2, <3>2
  <2>5. k \in 1..(Len(line) - Len(string) + 1)
    BY <1>1, <2>4
  <2> DEFINE piece == SubSeq(line, k, k + Len(string) - 1)
  <2>6. piece \in Seq(Bytes) /\ Len(piece) = Len(string)
        /\ \A x \in 1..Len(string) : piece[x] = line[k + x - 1]
    BY <1>1, <2>4
  <2> HIDE DEF piece
  <2>7. ASSUME NEW x \in 1..Len(string) PROVE piece[x] = string[x]
    <3>1. x - 1 \in 0..(Len(string) - 1) /\ (x - 1) + 1 = x
      BY <1>1
    <3>2. x - 1 < Len(rest) /\ rest[x] = string[x]
      BY <2>3, <3>1
    <3>3. x \in 1..(Len(line) - k + 1)
      BY <1>1, <2>2, <3>2
    <3> QED  BY <2>2, <2>6, <3>2, <3>3
  <2>8. piece = string
    BY <2>6, <2>7
  <2> QED  BY <2>5, <2>8 DEF MatchesIn, piece
<1>4. ASSUME MatchesIn(string, line) PROVE HoldsIn(string, line)
  <2>1. PICK k \in 1..(Len(line) - Len(string) + 1) : SubSeq(line, k, k + Len(string) - 1) = string
    BY <1>4 DEF MatchesIn
  <2>2. k \in 1..Len(line) /\ k + Len(string) - 1 <= Len(line)
    BY <1>1
  <2>3. ASSUME NEW x \in 1..Len(string) PROVE line[k + x - 1] = string[x]
    <3>1. SubSeq(line, k, k + Len(string) - 1)[x] = line[k + x - 1]
      BY <1>1, <2>2
    <3> QED  BY <2>1, <3>1
  <2> DEFINE rest == SubSeq(line, k, Len(line))
  <2>4. /\ rest \in Seq(Bytes) /\ Len(rest) = Len(line) - k + 1
        /\ \A x \in 1..(Len(line) - k + 1) : rest[x] = line[k + x - 1]
    BY <1>2, <2>2
  <2> HIDE DEF rest
  <2>5. ASSUME NEW x \in 0..(Len(string) - 1) PROVE x < Len(rest) /\ rest[x + 1] = string[x + 1]
    <3>1. x + 1 \in 1..Len(string) /\ x + 1 \in 1..(Len(line) - k + 1)
      BY <1>1, <2>2
    <3>2. rest[x + 1] = line[k + (x + 1) - 1]
      BY <2>4, <3>1
    <3>3. line[k + (x + 1) - 1] = string[x + 1]
      BY <2>3, <3>1
    <3> QED  BY <1>1, <2>4, <3>1, <3>2, <3>3
  <2>6. strncmp(rest, string, Len(string)) = 0
    BY <2>4, <2>5, ComparesEqual
  <2>7. line[k] = string[1]
    <3>1. 1 \in 1..Len(string) /\ k + 1 - 1 = k
      BY <1>1
    <3> QED  BY <2>3, <3>1
  <2> QED  BY <2>2, <2>6, <2>7 DEF HoldsIn, rest
<1> QED  BY <1>3, <1>4

\* The first p characters of the text are its first n lines.
LinesDone(t, p, n) ==
  \/ \E b \in Starts(t) : p = b - 1 /\ n = Rank(t, b)
  \/ p = Len(t) /\ n = Len(Lines(t))

\* They are the first n lines without the newline of the last of them.
AtNewline(t, p, n) ==
  \E b \in Starts(t) : p = LineEnd(t, b) - 1 /\ p < Len(t) /\ n = Rank(t, b) + 1

\* The first newline ends the line.
LEMMA EndUnique ==
  ASSUME NEW t \in Seq(Bytes), NEW k \in 1..Len(t), NEW e \in k..(Len(t) + 1),
         \A j \in k..(e - 1) : t[j] # NL, e = Len(t) + 1 \/ t[e] = NL
  PROVE  LineEnd(t, k) = e
<1> DEFINE z == LineEnd(t, k)
<1>1. /\ z \in k..(Len(t) + 1)
      /\ \A j \in k..(z - 1) : t[j] # NL
      /\ z <= Len(t) => t[z] = NL
  BY EndFacts
<1> HIDE DEF z
<1>2. ASSUME z < e PROVE FALSE
  <2>1. z \in k..(e - 1) /\ z <= Len(t)
    BY <1>1, <1>2
  <2> QED  BY <1>1, <2>1
<1>3. ASSUME e < z PROVE FALSE
  <2>1. e \in k..(z - 1) /\ e # Len(t) + 1
    BY <1>1, <1>3
  <2> QED  BY <1>1, <2>1
<1>4. z = e
  BY <1>1, <1>2, <1>3
<1> QED  BY <1>4 DEF z

LEMMA DoneRange ==
  ASSUME NEW t \in Seq(Bytes), NEW p, NEW n, LinesDone(t, p, n)
  PROVE  p \in 0..Len(t) /\ n \in 0..Len(Lines(t))
<1>1. Len(Lines(t)) \in Nat /\ Len(t) \in Nat
  BY LinesLen
<1>2. ASSUME NEW b \in Starts(t), p = b - 1, n = Rank(t, b)
      PROVE  p \in 0..Len(t) /\ n \in 0..Len(Lines(t))
  <2>1. b \in 1..Len(t)
    BY DEF Starts
  <2>2. n \in Nat /\ n < Len(Lines(t))
    BY <1>2, LineAt
  <2> QED  BY <1>1, <1>2, <2>1, <2>2
<1>3. ASSUME p = Len(t), n = Len(Lines(t))
      PROVE  p \in 0..Len(t) /\ n \in 0..Len(Lines(t))
  <2> DEFINE N == Len(Lines(t))
  <2> HIDE DEF N
  <2>1. N \in 0..N
    BY <1>1 DEF N
  <2>2. Len(t) \in 0..Len(t)
    BY <1>1
  <2> QED  BY <1>3, <2>1, <2>2 DEF N
<1> QED  BY <1>2, <1>3 DEF LinesDone

\* The line that follows the ones done, when it is read up to e.
LEMMA LineRead ==
  ASSUME NEW t \in Seq(Bytes), NEW p, NEW n, LinesDone(t, p, n), p < Len(t),
         NEW e \in p..Len(t), \A j \in (p + 1)..e : t[j] # NL, e = Len(t) \/ t[e + 1] = NL
  PROVE  /\ n + 1 \in 1..Len(Lines(t))
         /\ Lines(t)[n + 1] = SubSeq(t, p + 1, e)
         /\ e = Len(t) => n + 1 = Len(Lines(t))
         /\ e < Len(t) => LinesDone(t, e + 1, n + 1) /\ AtNewline(t, e, n + 1)
<1>1. Len(t) \in Nat /\ p \in 0..Len(t) /\ p # Len(t)
  <2>1. p \in 0..Len(t)
    BY DoneRange
  <2> QED  BY <2>1
<1>2. PICK b \in Starts(t) : p = b - 1 /\ n = Rank(t, b)
  BY <1>1 DEF LinesDone
<1>3. b \in 1..Len(t) /\ p + 1 = b
  BY <1>2 DEF Starts
<1>4. LineEnd(t, b) = e + 1
  <2>1. e + 1 \in b..(Len(t) + 1) /\ (e + 1) - 1 = e
    BY <1>1, <1>2, <1>3
  <2>2. \A j \in b..((e + 1) - 1) : t[j] # NL
    BY <1>3, <2>1
  <2>3. e + 1 = Len(t) + 1 \/ t[e + 1] = NL
    OBVIOUS
  <2> QED  BY <1>3, <2>1, <2>2, <2>3, EndUnique
<1>5. e \in Int /\ p \in Int /\ (e + 1) - 1 = e
  BY <1>1, <1>3
<1>6. n \in Nat /\ n < Len(Lines(t)) /\ Lines(t)[n + 1] = SubSeq(t, b, (e + 1) - 1)
  BY <1>2, <1>4, LineAt
<1>7. Len(Lines(t)) \in Nat
  BY LinesLen
<1>8. n + 1 \in 1..Len(Lines(t))
  BY <1>6, <1>7
<1>9. ASSUME e = Len(t) PROVE n + 1 = Len(Lines(t))
  <2>1. ~(e + 1 < Len(t))
    <3>1. \A x \in Int : ~(x + 1 < x)
      OBVIOUS
    <3>2. e \in Int
      BY <1>5
    <3> QED  BY <1>9, <3>1, <3>2, Zenon
  <2>2. ~(LineEnd(t, b) < Len(t))
    BY <1>4, <2>1
  <2> QED  BY <1>2, <2>2, LastLine
<1>10. ASSUME e < Len(t) PROVE LinesDone(t, e + 1, n + 1) /\ AtNewline(t, e, n + 1)
  <2>1. AtNewline(t, e, n + 1)
    BY <1>2, <1>4, <1>5, <1>10 DEF AtNewline
  <2>2. CASE e + 1 = Len(t)
    <3>1. ~(LineEnd(t, b) < Len(t))
      BY <1>1, <1>4, <1>5, <2>2
    <3>2. n + 1 = Len(Lines(t))
      BY <1>2, <3>1, LastLine
    <3> QED  BY <2>1, <2>2, <3>2 DEF LinesDone
  <2>3. CASE e + 1 # Len(t)
    <3>1. LineEnd(t, b) < Len(t)
      BY <1>1, <1>4, <1>5, <1>10, <2>3
    <3>2. LineEnd(t, b) + 1 \in Starts(t) /\ Rank(t, LineEnd(t, b) + 1) = n + 1
      BY <1>2, <3>1, NextLine
    <3>3. e + 1 = (LineEnd(t, b) + 1) - 1
      BY <1>4, <1>5
    <3> QED  BY <2>1, <3>2, <3>3 DEF LinesDone
  <2> QED  BY <2>2, <2>3
<1> QED  BY <1>3, <1>5, <1>6, <1>8, <1>9, <1>10

\* Over the newline the same lines are done.
LEMMA OverNewline ==
  ASSUME NEW t \in Seq(Bytes), NEW p, NEW n, AtNewline(t, p, n)
  PROVE  /\ p \in 0..(Len(t) - 1) /\ t[p + 1] = NL
         /\ LinesDone(t, p + 1, n) /\ n \in 0..Len(Lines(t))
<1>1. PICK b \in Starts(t) : p = LineEnd(t, b) - 1 /\ p < Len(t) /\ n = Rank(t, b) + 1
  BY DEF AtNewline
<1>2. b \in 1..Len(t)
  BY DEF Starts
<1>3. LineEnd(t, b) \in b..(Len(t) + 1) /\ (LineEnd(t, b) <= Len(t) => t[LineEnd(t, b)] = NL)
  BY <1>2, EndFacts
<1>4. Len(t) \in Nat /\ p + 1 = LineEnd(t, b) /\ p \in 0..(Len(t) - 1) /\ LineEnd(t, b) <= Len(t)
  BY <1>1, <1>2, <1>3
<1>5. LinesDone(t, p + 1, n)
  <2>1. CASE LineEnd(t, b) < Len(t)
    <3>1. LineEnd(t, b) + 1 \in Starts(t) /\ Rank(t, LineEnd(t, b) + 1) = n
      BY <1>1, <2>1, NextLine
    <3>2. p + 1 = (LineEnd(t, b) + 1) - 1
      BY <1>3, <1>4
    <3> QED  BY <3>1, <3>2 DEF LinesDone
  <2>2. CASE ~(LineEnd(t, b) < Len(t))
    <3>1. n = Len(Lines(t))
      BY <1>1, <2>2, LastLine
    <3>2. p + 1 = Len(t)
      BY <1>3, <1>4, <2>2
    <3> QED  BY <3>1, <3>2 DEF LinesDone
  <2> QED  BY <2>1, <2>2
<1>6. n \in 0..Len(Lines(t))
  BY <1>5, DoneRange
<1> QED  BY <1>3, <1>4, <1>5, <1>6

\* A line that fills size characters and fits them ends there.
LEMMA FullLine ==
  ASSUME NEW t \in Seq(Bytes), NEW p, NEW n, LinesDone(t, p, n), NEW size \in Nat,
         p + size < Len(t), \A j \in (p + 1)..(p + size) : t[j] # NL,
         \A m \in DOMAIN Lines(t) : Len(Lines(t)[m]) <= size
  PROVE  t[p + size + 1] = NL
<1>1. p \in 0..Len(t) /\ Len(t) \in Nat
  BY DoneRange
<1>2. p # Len(t)
  BY <1>1
<1>3. PICK b \in Starts(t) : p = b - 1 /\ n = Rank(t, b)
  BY <1>2 DEF LinesDone
<1>4. b \in 1..Len(t) /\ p + 1 = b
  BY <1>3 DEF Starts
<1> DEFINE z == LineEnd(t, b)
<1>5. /\ z \in b..(Len(t) + 1)
      /\ z <= Len(t) => t[z] = NL
  BY <1>4, EndFacts
<1>6. n \in Nat /\ n < Len(Lines(t)) /\ Lines(t)[n + 1] = SubSeq(t, b, z - 1)
  BY <1>3, LineAt
<1>7. Len(Lines(t)) \in Nat /\ DOMAIN Lines(t) = 1..Len(Lines(t))
  BY LinesLen DEF Lines
<1> HIDE DEF z
<1>8. n + 1 \in DOMAIN Lines(t)
  BY <1>6, <1>7
<1>9. Len(SubSeq(t, b, z - 1)) <= size
  BY <1>6, <1>8
<1>10. Len(SubSeq(t, b, z - 1)) = z - b
  BY <1>4, <1>5
<1>11. z <= p + size + 1
  BY <1>1, <1>4, <1>5, <1>9, <1>10
<1>12. ASSUME z <= p + size PROVE FALSE
  <2>1. z \in (p + 1)..(p + size) /\ z <= Len(t)
    BY <1>1, <1>4, <1>5, <1>12
  <2> QED  BY <1>5, <2>1
<1>13. z = p + size + 1 /\ z <= Len(t)
  BY <1>1, <1>5, <1>11, <1>12
<1> QED  BY <1>5, <1>13

\* The characters of the buffer that are scanned, and how far in the file.
Scanned == IF at = "scan" THEN line_start ELSE 0
Position == file_pos - last + Scanned

GrepTypes ==
  /\ file \in Seq(Characters) /\ search \in Seq(Characters) /\ search # <<>>
  /\ data \in [0..BUFSIZE -> Bytes]
  /\ last \in 0..BUFSIZE /\ file_pos \in 0..Len(file) /\ last <= file_pos
  /\ cnt \in Nat /\ line_start \in Nat
  /\ at \in {"read", "scan", "closed"}

\* There is room to read; a scan has a line before it, and leaves characters
\* of the file only when the buffer is full.
LoopsInv ==
  /\ at = "read" => last < BUFSIZE
  /\ at = "scan" =>
       /\ cnt = 0 => file_pos = Len(file)
       /\ file_pos < Len(file) => last = BUFSIZE
       /\ line_start < last \/ (line_start = 0 /\ last = 0 /\ cnt = 0)

\* The buffer holds the part of the file before its position, and newlines
\* only in what is still to be scanned: none in the byte that Cut tests.
BufferInv ==
  /\ \A k \in Scanned..(last - 1) : data[k] = file[file_pos - last + k + 1]
  /\ \A k \in 0..BUFSIZE : data[k] = NL => at = "scan" /\ k \in line_start..(last - 1)

\* The lines before the position are dealt with. The newline of a line that
\* filled the whole buffer may be left, at its front.
LineInv(n) ==
  IF at = "closed" THEN n = Len(Lines(file))
  ELSE \/ LinesDone(file, Position, n)
       \/ AtNewline(file, Position, n) /\ (IF at = "scan" THEN line_start = 0 ELSE last = 0)
PrintedInv == \E n \in 0..Len(Lines(file)) : printed = FoundOf(file, search)[n] /\ LineInv(n)

Usual == junk # NL /\ LinesFit
GrepInv == GrepTypes /\ LoopsInv /\ (Usual => BufferInv /\ PrintedInv)

LEMMA TextBytes ==
  ASSUME NEW t \in Seq(Characters)
  PROVE  t \in Seq(Bytes)
<1>1. \A v \in Characters : v \in Bytes
  BY DEF Characters, Bytes
<1> QED  BY <1>1

LEMMA DoneAll ==
  ASSUME NEW t \in Seq(Bytes), NEW n, LinesDone(t, Len(t), n)
  PROVE  n = Len(Lines(t))
<1>1. ASSUME NEW b \in Starts(t), Len(t) = b - 1 PROVE FALSE
  <2>1. b \in 1..Len(t)
    BY DEF Starts
  <2> QED  BY <1>1, <2>1
<1> QED  BY <1>1 DEF LinesDone

LEMMA DoneNone ==
  ASSUME NEW t \in Seq(Bytes)
  PROVE  LinesDone(t, 0, 0)
<1>1. CASE Len(t) > 0
  <2>1. 1 \in Starts(t) /\ Rank(t, 1) = 0 /\ 0 = 1 - 1
    BY <1>1, FirstLine
  <2> QED  BY <2>1 DEF LinesDone
<1>2. CASE ~(Len(t) > 0)
  <2>1. Len(t) = 0
    BY <1>2
  <2>2. Len(Lines(t)) = 0
    BY <2>1, FirstLine
  <2> QED  BY <2>1, <2>2 DEF LinesDone
<1> QED  BY <1>1, <1>2

LEMMA GrepConstants == BUFSIZE \in Nat /\ BUFSIZE # 0
  BY GrepAssumption

LEMMA GrepInitInv ==
  ASSUME NEW text \in Seq(Characters), NEW string \in Seq(Characters) \ {<<>>}, NEW byte \in 0..255,
         GrepInit(text, string, byte)
  PROVE  GrepInv
<1>1. /\ file = text /\ search = string /\ junk = byte
      /\ data = [k \in 0..BUFSIZE |-> byte]
      /\ file_pos = 0 /\ last = 0 /\ cnt = 0 /\ line_start = 0
      /\ printed = <<>> /\ at = "read"
  BY DEF GrepInit
<1>2. data \in [0..BUFSIZE -> Bytes]
  BY <1>1 DEF Bytes
<1>3. Len(file) \in Nat
  BY <1>1
<1>4. GrepTypes
  BY <1>1, <1>2, <1>3, GrepConstants DEF GrepTypes
<1>5. LoopsInv
  BY <1>1, GrepConstants DEF LoopsInv
<1>6. ASSUME junk # NL PROVE BufferInv
  <2>1. ASSUME NEW k \in 0..BUFSIZE PROVE data[k] # NL
    BY <1>1, <1>6
  <2>2. ASSUME NEW k \in 0..(0 - 1) PROVE FALSE
    OBVIOUS
  <2>3. Scanned = 0
    BY <1>1 DEF Scanned
  <2> QED  BY <1>1, <2>1, <2>2, <2>3 DEF BufferInv
<1>7. PrintedInv
  <2>1. file \in Seq(Bytes)
    BY <1>1, TextBytes
  <2>2. Position = 0
    BY <1>1 DEF Position, Scanned
  <2>3. LinesDone(file, Position, 0)
    BY <2>1, <2>2, DoneNone
  <2>4. LineInv(0)
    BY <1>1, <2>3 DEF LineInv
  <2>5. FoundOf(file, search)[0] = <<>>
    BY <2>1, FoundStep
  <2>6. 0 \in 0..Len(Lines(file))
    BY <2>1, LinesLen
  <2> QED  BY <1>1, <2>4, <2>5, <2>6 DEF PrintedInv
<1> QED  BY <1>4, <1>5, <1>6, <1>7 DEF GrepInv, Usual

LEMMA SmallMin ==
  ASSUME NEW a \in Nat, NEW b \in Nat
  PROVE  Min({a, b}) = IF a <= b THEN a ELSE b
<1>1. {a, b} \subseteq Nat /\ {a, b} # {} /\ a \in {a, b} /\ b \in {a, b}
  OBVIOUS
<1>2. Min({a, b}) \in {a, b} /\ Min({a, b}) <= a /\ Min({a, b}) <= b
  BY <1>1, MinPicks
<1> DEFINE m == Min({a, b})
<1> HIDE DEF m
<1>3. m \in {a, b} /\ m <= a /\ m <= b
  BY <1>2 DEF m
<1>4. m = IF a <= b THEN a ELSE b
  BY <1>3
<1> QED  BY <1>4 DEF m

LEMMA AheadInText ==
  ASSUME NEW size \in Nat, NEW from \in Nat, NEW p \in Nat, NEW n \in Nat,
         p + n <= size, NEW k \in from..(from + n - 1)
  PROVE  p + k - from + 1 \in 1..size
  OBVIOUS

LEMMA FillInv ==
  ASSUME GrepInv, Fill
  PROVE  GrepInv'
<1>1. /\ at = "read" /\ at' = "scan"
      /\ cnt' = Min({BUFSIZE - last, Len(file) - file_pos})
      /\ data' = [k \in DOMAIN data |->
                IF k \in last..(last + cnt' - 1) THEN file[file_pos + k - last + 1] ELSE data[k]]
      /\ file_pos' = file_pos + cnt' /\ last' = last + cnt' /\ line_start' = 0
      /\ file' = file /\ search' = search /\ junk' = junk /\ printed' = printed
  BY DEF Fill
<1>2. /\ file \in Seq(Characters) /\ search \in Seq(Characters) /\ search # <<>>
      /\ data \in [0..BUFSIZE -> Bytes]
      /\ last \in 0..BUFSIZE /\ file_pos \in 0..Len(file) /\ last <= file_pos
      /\ last < BUFSIZE
  BY <1>1 DEF GrepInv, GrepTypes, LoopsInv
<1>3. file \in Seq(Bytes) /\ Len(file) \in Nat
  BY <1>2, TextBytes
<1>4. /\ BUFSIZE \in Nat /\ last \in Nat /\ file_pos \in Nat
      /\ BUFSIZE - last \in Nat /\ Len(file) - file_pos \in Nat
  BY <1>2, <1>3, GrepConstants
<1>5. cnt' = IF BUFSIZE - last <= Len(file) - file_pos THEN BUFSIZE - last ELSE Len(file) - file_pos
  <2> DEFINE a == BUFSIZE - last
             b == Len(file) - file_pos
  <2>1. a \in Nat /\ b \in Nat /\ cnt' = Min({a, b})
    BY <1>1, <1>4
  <2> HIDE DEF a, b
  <2>2. cnt' = IF a <= b THEN a ELSE b
    BY <2>1, SmallMin
  <2> QED  BY <2>2 DEF a, b
<1>6. /\ cnt' \in Nat /\ last + cnt' <= BUFSIZE /\ file_pos + cnt' <= Len(file)
      /\ cnt' = 0 => file_pos' = Len(file)
      /\ file_pos' < Len(file) => last' = BUFSIZE
  <2> DEFINE L == Len(file)
  <2>1. /\ L \in Nat /\ file_pos <= L /\ last < BUFSIZE
        /\ cnt' = IF BUFSIZE - last <= L - file_pos THEN BUFSIZE - last ELSE L - file_pos
    BY <1>2, <1>3, <1>5
  <2> HIDE DEF L
  <2>2. /\ cnt' \in Nat /\ last + cnt' <= BUFSIZE /\ file_pos + cnt' <= L
        /\ cnt' = 0 => file_pos + cnt' = L
        /\ file_pos + cnt' < L => last + cnt' = BUFSIZE
    BY <1>4, <2>1
  <2> QED  BY <1>1, <2>2, Zenon DEF L
<1>7. ASSUME NEW k \in 0..BUFSIZE
      PROVE  /\ k \in last..(last' - 1) => data'[k] = file[file_pos + k - last + 1]
             /\ k \notin last..(last' - 1) => data'[k] = data[k]
  <2>1. DOMAIN data = 0..BUFSIZE
    BY <1>2
  <2>2. data'[k] = IF k \in last..(last + cnt' - 1) THEN file[file_pos + k - last + 1] ELSE data[k]
    BY <1>1, <2>1, Zenon
  <2>3. last..(last' - 1) = last..(last + cnt' - 1)
    <3>1. last' = last + cnt' /\ last \in Int /\ cnt' \in Int
      BY <1>1, <1>4, <1>6
    <3>2. last' - 1 = last + cnt' - 1
      BY <3>1
    <3> QED  BY <3>2, Zenon
  <2> QED  BY <2>2, <2>3, Zenon
<1>8. GrepTypes'
  <2>1. data' \in [0..BUFSIZE -> Bytes]
    <3>1. ASSUME NEW k \in 0..BUFSIZE, k \in last..(last + cnt' - 1)
          PROVE  file[file_pos + k - last + 1] \in Bytes
      <4>1. file_pos + k - last + 1 \in 1..Len(file)
        <5>1. Len(file) \in Nat /\ last \in Nat /\ file_pos \in Nat /\ cnt' \in Nat
          BY <1>3, <1>4, <1>6
        <5> QED  BY <1>6, <3>1, <5>1, AheadInText, Zenon
      <4> QED  BY <1>3, <4>1
    <3>2. \A k \in 0..BUFSIZE : data[k] \in Bytes
      BY <1>2
    <3> QED  BY <1>1, <1>2, <3>1, <3>2
  <2>2. last' \in 0..BUFSIZE /\ file_pos' \in 0..Len(file) /\ last' <= file_pos'
    BY <1>1, <1>2, <1>3, <1>4, <1>6
  <2> QED  BY <1>1, <1>2, <1>6, <2>1, <2>2 DEF GrepTypes
<1>9. LoopsInv'
  <2>1. line_start' < last' \/ (line_start' = 0 /\ last' = 0 /\ cnt' = 0)
    BY <1>1, <1>4, <1>6
  <2> QED  BY <1>1, <1>6, <2>1 DEF LoopsInv
<1>10. ASSUME Usual' PROVE BufferInv' /\ PrintedInv'
  <2>1. Usual
    BY <1>1, <1>10 DEF Usual, LinesFit
  <2>2. BufferInv /\ PrintedInv
    BY <2>1 DEF GrepInv
  <2>3. Scanned' = 0 /\ Scanned = 0
    BY <1>1 DEF Scanned
  <2>4. file_pos' - last' = file_pos - last
    BY <1>1, <1>4, <1>6
  <2>5. ASSUME NEW k \in 0..(last' - 1) PROVE data'[k] = file[file_pos' - last' + k + 1]
    <3>1. k \in 0..BUFSIZE /\ k \in Int
      BY <1>1, <1>4, <1>6
    <3>2. CASE k \in last..(last' - 1)
      <4>1. file_pos + k - last + 1 = file_pos - last + k + 1
        BY <1>4, <3>1
      <4> QED  BY <1>7, <2>4, <3>1, <3>2, <4>1
    <3>3. CASE k \notin last..(last' - 1)
      <4>1. k \in 0..(last - 1)
        BY <1>1, <1>4, <1>6, <3>3
      <4>2. data[k] = file[file_pos - last + k + 1]
        BY <2>2, <2>3, <4>1 DEF BufferInv
      <4> QED  BY <1>7, <2>4, <3>1, <3>3, <4>2
    <3> QED  BY <3>2, <3>3
  <2>6. ASSUME NEW k \in 0..BUFSIZE, data'[k] = NL PROVE k \in 0..(last' - 1)
    <3>1. data[k] # NL
      BY <1>1, <2>2 DEF BufferInv
    <3>2. k \in last..(last' - 1)
      BY <1>7, <2>6, <3>1
    <3> QED  BY <1>4, <3>2
  <2>7. BufferInv'
    <3>1. \A k \in 0..(last' - 1) : data'[k] = file'[file_pos' - last' + k + 1]
      BY <1>1, <2>5
    <3>2. \A k \in 0..BUFSIZE : data'[k] = NL => at' = "scan" /\ k \in line_start'..(last' - 1)
      BY <1>1, <2>6
    <3> QED  BY <2>3, <3>1, <3>2, Zenon DEF BufferInv
  <2>8. Position' = Position
    <3>1. Position' = file_pos' - last' + Scanned' /\ Position = file_pos - last + Scanned
      BY DEF Position
    <3> QED  BY <2>3, <2>4, <3>1
  <2>9. PICK n \in 0..Len(Lines(file)) : printed = FoundOf(file, search)[n] /\ LineInv(n)
    BY <2>2 DEF PrintedInv
  <2>10. LinesDone(file, Position, n) \/ (AtNewline(file, Position, n) /\ last = 0)
    BY <1>1, <2>9 DEF LineInv
  <2>11. LineInv(n)'
    BY <1>1, <2>8, <2>10 DEF LineInv
  <2> QED  BY <1>1, <2>7, <2>9, <2>11 DEF PrintedInv
<1> QED  BY <1>8, <1>9, <1>10 DEF GrepInv

\* line_end is the end of the line, or of the bytes in use.
LEMMA LineEndFacts ==
  ASSUME GrepTypes, line_start <= last
  PROVE  /\ line_end \in line_start..last
         /\ \A k \in line_start..(line_end - 1) : data[k] # NL
         /\ line_end = last \/ data[line_end] = NL
<1> DEFINE T == {k \in line_start..last : k = last \/ data[k] = NL}
<1>1. line_start \in Nat /\ last \in Nat
  BY GrepConstants DEF GrepTypes
<1>2. T \subseteq Nat /\ last \in T
  BY <1>1
<1>3. line_end = Min(T)
  BY DEF line_end
<1>4. Min(T) \in T /\ \A y \in T : Min(T) <= y
  <2> HIDE DEF T
  <2> QED  BY <1>2, MinPicks
<1> DEFINE e == Min(T)
<1> HIDE DEF e
<1>5. e \in T /\ (\A y \in T : e <= y) /\ line_end = e
  BY <1>3, <1>4, Zenon DEF e
<1>6. e \in line_start..last /\ (e = last \/ data[e] = NL)
  BY <1>5
<1>7. ASSUME NEW k \in line_start..(e - 1) PROVE data[k] # NL
  <2>1. k \in line_start..last /\ ~(e <= k)
    BY <1>1, <1>6
  <2> QED  BY <1>5, <2>1
<1> QED  BY <1>5, <1>6, <1>7

Piece(d, from, to) == [k \in 1..(to - from) |-> d[from + k - 1]]

LEMMA PieceFacts ==
  ASSUME NEW B \in Nat, NEW d \in [0..B -> Bytes], NEW from \in 0..B, NEW to \in from..B
  PROVE  /\ Piece(d, from, to) \in Seq(Bytes) /\ Len(Piece(d, from, to)) = to - from
         /\ \A k \in 1..(to - from) : Piece(d, from, to)[k] = d[from + k - 1]
<1>1. to - from \in Nat
  OBVIOUS
<1>2. ASSUME NEW k \in 1..(to - from) PROVE d[from + k - 1] \in Bytes
  <2>1. from + k - 1 \in 0..B
    OBVIOUS
  <2> QED  BY <2>1
<1> DEFINE n == to - from
           f == [k \in 1..n |-> d[from + k - 1]]
<1>3. f \in [1..n -> Bytes] /\ n \in Nat
  BY <1>1, <1>2
<1>4. \A k \in 1..n : f[k] = d[from + k - 1]
  OBVIOUS
<1>5. Piece(d, from, to) = f
  BY DEF Piece
<1> HIDE DEF f, n
<1>6. f \in Seq(Bytes) /\ Len(f) = n
  BY <1>3
<1> QED  BY <1>4, <1>5, <1>6 DEF n

Kept(d, from, to) == strcpy([d EXCEPT ![to] = NUL], Piece(d, from, to))

\* What the buffer holds after the piece is moved to its front.
LEMMA KeptData ==
  ASSUME NEW B \in Nat, NEW d \in [0..B -> Bytes], NEW from \in 0..B, NEW to \in from..B
  PROVE  /\ Kept(d, from, to) \in [0..B -> Bytes]
         /\ \A k \in 0..B :
              /\ k < to - from => Kept(d, from, to)[k] = d[from + k]
              /\ ~(k < to - from) => \/ Kept(d, from, to)[k] = NUL
                                     \/ Kept(d, from, to)[k] = d[k] /\ k # to
<1> DEFINE src == Piece(d, from, to)
           d2 == [d EXCEPT ![to] = NUL]
           g == strcpy(d2, src)
<1>1. /\ src \in Seq(Bytes) /\ Len(src) = to - from
      /\ \A k \in 1..(to - from) : src[k] = d[from + k - 1]
  BY PieceFacts
<1>2. to \in 0..B /\ to - from \in Nat
  OBVIOUS
<1>3. DOMAIN d2 = 0..B /\ \A k \in 0..B : d2[k] = IF k = to THEN NUL ELSE d[k]
  BY <1>2
<1> HIDE DEF src, d2
<1>4. g = [k \in 0..B |-> IF k <= Len(src) THEN CharAt(src, k) ELSE d2[k]]
  BY <1>3, Zenon DEF strcpy
<1> HIDE DEF g
<1>5. ASSUME NEW k \in 0..B
      PROVE  /\ k < to - from => g[k] = d[from + k]
             /\ ~(k < to - from) => g[k] = NUL \/ (g[k] = d[k] /\ k # to)
  <2>1. g[k] = IF k <= to - from THEN CharAt(src, k) ELSE d2[k]
    BY <1>1, <1>4
  <2>2. CASE k < to - from
    <3>1. k + 1 \in 1..(to - from) /\ from + (k + 1) - 1 = from + k
      BY <2>2
    <3>2. k <= to - from
      BY <2>2
    <3>3. CharAt(src, k) = src[k + 1]
      BY <1>1, <2>2 DEF CharAt
    <3>4. src[k + 1] = d[from + k]
      BY <1>1, <3>1
    <3> QED  BY <2>1, <2>2, <3>2, <3>3, <3>4
  <2>3. CASE k = to - from
    <3>1. CharAt(src, k) = NUL
      BY <1>1, <2>3 DEF CharAt
    <3>2. k <= to - from /\ ~(k < to - from)
      BY <2>3
    <3> QED  BY <2>1, <3>1, <3>2
  <2>4. CASE ~(k <= to - from)
    <3>1. g[k] = d2[k] /\ ~(k < to - from)
      BY <2>1, <2>4
    <3> QED  BY <1>3, <3>1
  <2> QED  BY <1>2, <2>2, <2>3, <2>4
<1>6. ASSUME NEW k \in 0..B PROVE g[k] \in Bytes
  <2>1. NUL \in Bytes
    BY DEF NUL, Bytes
  <2>2. k < to - from => from + k \in 0..B
    BY <1>2
  <2>3. d[k] \in Bytes /\ (from + k \in 0..B => d[from + k] \in Bytes)
    OBVIOUS
  <2> QED  BY <1>5, <2>1, <2>2, <2>3
<1>7. g \in [0..B -> Bytes]
  BY <1>4, <1>6
<1>8. Kept(d, from, to) = g
  BY Zenon DEF Kept, g, d2, src
<1> QED  BY <1>5, <1>7, <1>8

LEMMA KeepInv ==
  ASSUME GrepInv, Keep
  PROVE  GrepInv'
<1> DEFINE e == line_end
<1>1. /\ at = "scan" /\ at' = "read" /\ Cut
      /\ data' = strcpy([data EXCEPT ![e] = NUL], String(line_start, e))
      /\ last' = last - line_start
      /\ file' = file /\ file_pos' = file_pos /\ search' = search /\ junk' = junk
      /\ cnt' = cnt /\ line_start' = line_start /\ printed' = printed
  BY DEF Keep
<1>2. GrepTypes /\ LoopsInv
  BY DEF GrepInv
<1>3. /\ file \in Seq(Characters) /\ search \in Seq(Characters) /\ search # <<>>
      /\ data \in [0..BUFSIZE -> Bytes]
      /\ last \in 0..BUFSIZE /\ file_pos \in 0..Len(file) /\ last <= file_pos
      /\ cnt \in Nat /\ line_start \in Nat
  BY <1>2 DEF GrepTypes
<1>4. data[e] # NL /\ cnt # 0 /\ line_start # 0
  BY <1>1 DEF Cut
<1>5. line_start < last
  BY <1>1, <1>2, <1>4 DEF LoopsInv
<1>6. /\ file \in Seq(Bytes) /\ Len(file) \in Nat /\ BUFSIZE \in Nat
      /\ last \in Nat /\ file_pos \in Nat /\ last <= BUFSIZE
  BY <1>3, TextBytes, GrepConstants
<1>7. e = last /\ \A k \in line_start..(last - 1) : data[k] # NL
  <2>1. line_start <= last
    BY <1>3, <1>5, <1>6
  <2>2. /\ \A k \in line_start..(e - 1) : data[k] # NL
        /\ e = last \/ data[e] = NL
    BY <1>2, <2>1, LineEndFacts
  <2> QED  BY <1>4, <2>2
<1> HIDE DEF e
<1>8. /\ data' \in [0..BUFSIZE -> Bytes]
      /\ \A k \in 0..BUFSIZE :
           /\ k < last - line_start => data'[k] = data[line_start + k]
           /\ ~(k < last - line_start) => data'[k] = NUL \/ (data'[k] = data[k] /\ k # last)
  <2>1. line_start \in 0..BUFSIZE /\ last \in line_start..BUFSIZE
    BY <1>3, <1>5, <1>6
  <2>2. String(line_start, e) = Piece(data, line_start, last)
    BY <1>7, Zenon DEF String, Piece
  <2>3. data' = Kept(data, line_start, last)
    BY <1>1, <1>7, <2>2, Zenon DEF Kept
  <2> QED  BY <1>3, <1>6, <2>1, <2>3, KeptData
<1>9. GrepTypes'
  <2>1. last' \in 0..BUFSIZE /\ last' <= file_pos'
    BY <1>1, <1>3, <1>5, <1>6
  <2> QED  BY <1>1, <1>3, <1>8, <2>1 DEF GrepTypes
<1>10. LoopsInv'
  <2>1. last' < BUFSIZE
    BY <1>1, <1>3, <1>4, <1>6
  <2> QED  BY <1>1, <2>1 DEF LoopsInv
<1>11. ASSUME Usual' PROVE BufferInv' /\ PrintedInv'
  <2>1. Usual
    BY <1>1, <1>11 DEF Usual, LinesFit
  <2>2. BufferInv /\ PrintedInv
    BY <2>1 DEF GrepInv
  <2>3. Scanned' = 0 /\ Scanned = line_start
    BY <1>1 DEF Scanned
  <2>4. file_pos' - last' = file_pos - last + line_start
    BY <1>1, <1>3, <1>6
  <2>5. ASSUME NEW k \in 0..(last' - 1) PROVE data'[k] = file'[file_pos' - last' + k + 1]
    <3>1. k \in 0..BUFSIZE /\ k < last - line_start /\ line_start + k \in line_start..(last - 1)
      BY <1>1, <1>3, <1>5, <1>6
    <3>2. data[line_start + k] = file[file_pos - last + (line_start + k) + 1]
      BY <2>2, <2>3, <3>1 DEF BufferInv
    <3>3. file_pos - last + (line_start + k) + 1 = file_pos' - last' + k + 1
      <4>1. k \in Int
        BY <3>1
      <4> QED  BY <1>3, <1>6, <2>4, <4>1
    <3>4. data'[k] = data[line_start + k]
      BY <1>8, <3>1
    <3>5. file' = file
      BY <1>1
    <3> QED  BY <3>2, <3>3, <3>4, <3>5, Zenon
  <2>6. ASSUME NEW k \in 0..BUFSIZE PROVE data'[k] # NL
    <3>1. CASE k < last - line_start
      <4>1. line_start + k \in line_start..(last - 1)
        BY <1>3, <1>5, <1>6, <3>1
      <4> QED  BY <1>7, <1>8, <3>1, <4>1
    <3>2. CASE ~(k < last - line_start)
      <4>1. data[k] = NL => k \in line_start..(last - 1)
        BY <2>2 DEF BufferInv
      <4>2. data[k] # NL
        BY <1>7, <4>1
      <4> QED  BY <1>8, <3>2, <4>2 DEF NUL
    <3> QED  BY <3>1, <3>2
  <2>7. BufferInv'
    <3>1. \A k \in 0..(last' - 1) : data'[k] = file'[file_pos' - last' + k + 1]
      BY <2>5
    <3>2. \A k \in 0..BUFSIZE : data'[k] = NL => at' = "scan" /\ k \in line_start'..(last' - 1)
      BY <2>6
    <3> QED  BY <2>3, <3>1, <3>2, Zenon DEF BufferInv
  <2>8. Position' = Position
    <3>1. Position' = file_pos' - last' + Scanned' /\ Position = file_pos - last + Scanned
      BY DEF Position
    <3> QED  BY <1>3, <1>6, <2>3, <2>4, <3>1
  <2>9. PICK n \in 0..Len(Lines(file)) : printed = FoundOf(file, search)[n] /\ LineInv(n)
    BY <2>2 DEF PrintedInv
  <2>10. LinesDone(file, Position, n)
    BY <1>1, <1>4, <2>9 DEF LineInv
  <2>11. LineInv(n)'
    BY <1>1, <2>8, <2>10 DEF LineInv
  <2> QED  BY <1>1, <2>7, <2>9, <2>11 DEF PrintedInv
<1> QED  BY <1>9, <1>10, <1>11 DEF GrepInv

\* A piece of the buffer is the part of the text that it was read from.
LEMMA PieceIsText ==
  ASSUME NEW B \in Nat, NEW d \in [0..B -> Bytes], NEW from \in 0..B, NEW to \in from..B,
         NEW t \in Seq(Bytes), NEW q \in Nat, q + to <= Len(t),
         \A k \in from..(to - 1) : d[k] = t[q + k + 1]
  PROVE  Piece(d, from, to) = SubSeq(t, q + from + 1, q + to)
<1> DEFINE a == Piece(d, from, to)
           b == SubSeq(t, q + from + 1, q + to)
<1>1. /\ a \in Seq(Bytes) /\ Len(a) = to - from
      /\ \A k \in 1..(to - from) : a[k] = d[from + k - 1]
  BY PieceFacts
<1>2. /\ b \in Seq(Bytes) /\ Len(b) = to - from
      /\ \A k \in 1..(to - from) : b[k] = t[q + from + 1 + k - 1]
  <2> DEFINE x == q + from + 1
             y == q + to
  <2>1. /\ x \in 1..(Len(t) + 1) /\ y \in (x - 1)..Len(t) /\ y - x + 1 = to - from
    OBVIOUS
  <2>2. b = SubSeq(t, x, y)
    OBVIOUS
  <2> HIDE DEF x, y, b
  <2>3. /\ SubSeq(t, x, y) \in Seq(Bytes) /\ Len(SubSeq(t, x, y)) = y - x + 1
        /\ \A k \in 1..(y - x + 1) : SubSeq(t, x, y)[k] = t[x + k - 1]
    BY <2>1
  <2> QED  BY <2>1, <2>2, <2>3, Zenon DEF x
<1> HIDE DEF a, b
<1>3. ASSUME NEW k \in 1..(to - from) PROVE a[k] = b[k]
  <2>1. from + k - 1 \in from..(to - 1) /\ q + (from + k - 1) + 1 = q + from + 1 + k - 1
    OBVIOUS
  <2>2. d[from + k - 1] = t[q + (from + k - 1) + 1]
    BY <2>1
  <2> QED  BY <1>1, <1>2, <2>1, <2>2
<1>4. a = b
  BY <1>1, <1>2, <1>3
<1> QED  BY <1>4 DEF a, b

LEMMA PrintedLine ==
  ASSUME NEW t \in Seq(Bytes), NEW string \in Seq(Characters), string # <<>>,
         NEW n, n + 1 \in 1..Len(Lines(t)), n \in Int,
         NEW line \in Seq(Bytes), Lines(t)[n + 1] = line
  PROVE  FoundOf(t, string)[n + 1]
           = IF HoldsIn(string, line) THEN Append(FoundOf(t, string)[n], line)
             ELSE FoundOf(t, string)[n]
<1>1. (n + 1) - 1 = n
  OBVIOUS
<1>2. FoundOf(t, string)[n + 1] = Extended(t, string, n + 1, FoundOf(t, string)[n])
  BY <1>1, FoundStep
<1>3. HoldsIn(string, line) <=> MatchesIn(string, line)
  BY HoldsMatches
<1> QED  BY <1>2, <1>3, Zenon DEF Extended

LEMMA PrintedEmpty ==
  ASSUME NEW string, NEW line, Len(line) = 0
  PROVE  ~HoldsIn(string, line)
<1>1. \A check \in 1..0 : FALSE
  OBVIOUS
<1> QED  BY <1>1, Zenon DEF HoldsIn

LEMMA HoldsIs ==
  ASSUME NEW line
  PROVE  Holds(line) <=> HoldsIn(search, line)
  BY Zenon DEF Holds, HoldsIn

\* What Scan prints, and how far it gets in the file.
LEMMA ScanPrints ==
  ASSUME GrepTypes, LoopsInv, BufferInv, LinesFit, at = "scan", ~Cut,
         NEW n \in 0..Len(Lines(file)), LineInv(n)
  PROVE  \E m \in 0..Len(Lines(file)) :
           /\ (IF Holds(String(line_start, line_end))
               THEN Append(FoundOf(file, search)[n], String(line_start, line_end))
               ELSE FoundOf(file, search)[n]) = FoundOf(file, search)[m]
           /\ line_end < last => LinesDone(file, file_pos - last + line_end + 1, m)
           /\ line_end = last =>
                \/ LinesDone(file, file_pos, m)
                \/ AtNewline(file, file_pos, m) /\ cnt # 0
<1> DEFINE e == line_end
           q == file_pos - last
           p == q + line_start
           line == String(line_start, e)
<1>1. /\ file \in Seq(Characters) /\ search \in Seq(Characters) /\ search # <<>>
      /\ data \in [0..BUFSIZE -> Bytes]
      /\ last \in 0..BUFSIZE /\ file_pos \in 0..Len(file) /\ last <= file_pos
      /\ cnt \in Nat /\ line_start \in Nat
  BY DEF GrepTypes
<1>2. /\ file \in Seq(Bytes) /\ Len(file) \in Nat /\ BUFSIZE \in Nat /\ BUFSIZE # 0
      /\ last \in Nat /\ file_pos \in Nat /\ last <= BUFSIZE /\ q \in Nat /\ file_pos <= Len(file)
  BY <1>1, TextBytes, GrepConstants
<1>3. /\ cnt = 0 => file_pos = Len(file)
      /\ file_pos < Len(file) => last = BUFSIZE
      /\ line_start < last \/ (line_start = 0 /\ last = 0 /\ cnt = 0)
  BY DEF LoopsInv
<1>4. line_start <= last
  BY <1>1, <1>2, <1>3
<1>5. /\ e \in line_start..last
      /\ \A k \in line_start..(e - 1) : data[k] # NL
      /\ e = last \/ data[e] = NL
  BY <1>4, LineEndFacts
<1>6. \A k \in line_start..(last - 1) : data[k] = file[q + k + 1]
  BY DEF BufferInv, Scanned
<1>7. e = last => data[e] # NL
  <2>1. last \in 0..BUFSIZE /\ last \notin line_start..(last - 1)
    BY <1>1, <1>2
  <2> QED  BY <2>1 DEF BufferInv
<1>8. e = last => cnt = 0 \/ line_start = 0
  BY <1>7 DEF Cut
<1>9. line = Piece(data, line_start, e)
  BY Zenon DEF String, Piece
<1>10. q + e <= Len(file) /\ q + last = file_pos /\ e \in Nat /\ p \in Nat /\ p <= q + e
  BY <1>1, <1>2, <1>5
<1>11. LinesDone(file, p, n) \/ (AtNewline(file, p, n) /\ line_start = 0)
  <2>1. Position = p
    BY DEF Position, Scanned
  <2> QED  BY <2>1 DEF LineInv
<1> HIDE DEF e
<1>12. line \in Seq(Bytes) /\ Len(line) = e - line_start
       /\ line = SubSeq(file, p + 1, q + e)
  <2>1. line_start \in 0..BUFSIZE /\ e \in line_start..BUFSIZE
    BY <1>1, <1>2, <1>4, <1>5
  <2>2. \A k \in line_start..(e - 1) : data[k] = file[q + k + 1]
    <3>1. \A k \in line_start..(e - 1) : k \in line_start..(last - 1)
      BY <1>1, <1>2, <1>5
    <3> QED  BY <1>6, <3>1
  <2> HIDE DEF q
  <2>3. Piece(data, line_start, e) = SubSeq(file, q + line_start + 1, q + e)
    <3>1. BUFSIZE \in Nat /\ data \in [0..BUFSIZE -> Bytes] /\ file \in Seq(Bytes)
          /\ q \in Nat /\ q + e <= Len(file)
      BY <1>1, <1>2, <1>10
    <3> QED  BY <2>1, <2>2, <3>1, PieceIsText
  <2>4. Piece(data, line_start, e) \in Seq(Bytes) /\ Len(Piece(data, line_start, e)) = e - line_start
    <3>1. BUFSIZE \in Nat /\ data \in [0..BUFSIZE -> Bytes]
      BY <1>1, <1>2
    <3> QED  BY <2>1, <3>1, PieceFacts
  <2> QED  BY <1>9, <2>3, <2>4
<1> HIDE DEF line
<1>13. Holds(line) <=> HoldsIn(search, line)
  BY HoldsIs
<1> DEFINE out(m) == (IF Holds(line) THEN Append(FoundOf(file, search)[n], line)
                      ELSE FoundOf(file, search)[n]) = FoundOf(file, search)[m]
           next(m) ==
             /\ e < last => LinesDone(file, q + e + 1, m)
             /\ e = last =>
                  \/ LinesDone(file, file_pos, m)
                  \/ AtNewline(file, file_pos, m) /\ cnt # 0
<1>14. SUFFICES \E m \in 0..Len(Lines(file)) : out(m) /\ next(m)
  BY Zenon DEF e, line
<1>15. ASSUME Len(line) = 0 PROVE out(n)
  BY <1>13, <1>15, PrintedEmpty
<1> HIDE DEF q
<1>16. CASE LinesDone(file, p, n) /\ p < Len(file)
  <2>1. \A j \in (p + 1)..(q + e) : file[j] # NL
    <3>1. ASSUME NEW j \in (p + 1)..(q + e) PROVE file[j] # NL
      <4>1. j - q - 1 \in line_start..(e - 1) /\ q + (j - q - 1) + 1 = j
            /\ j - q - 1 \in line_start..(last - 1)
        BY <1>1, <1>2, <1>5, <1>10
      <4>2. data[j - q - 1] = file[j] /\ data[j - q - 1] # NL
        BY <1>5, <1>6, <4>1
      <4> QED  BY <4>2
    <3> QED  BY <3>1
  <2>2. e < last => file[q + e + 1] = NL
    <3>1. e < last => e \in line_start..(last - 1) /\ e # last
      BY <1>1, <1>2, <1>5
    <3> QED  BY <1>5, <1>6, <3>1
  <2>3. ASSUME e = last, q + e # Len(file) PROVE file[q + e + 1] = NL
    <3>1. file_pos < Len(file) /\ last = BUFSIZE /\ line_start = 0
      BY <1>2, <1>3, <1>8, <1>10, <2>3
    <3>2. p + BUFSIZE < Len(file) /\ p + BUFSIZE = q + e
      BY <1>2, <1>10, <2>3, <3>1
    <3>3. \A j \in (p + 1)..(p + BUFSIZE) : file[j] # NL
      BY <2>1, <3>2
    <3>4. \A m \in DOMAIN Lines(file) : Len(Lines(file)[m]) <= BUFSIZE
      BY DEF LinesFit
    <3> HIDE DEF p
    <3>5. file[p + BUFSIZE + 1] = NL
      BY <1>2, <1>16, <3>2, <3>3, <3>4, FullLine
    <3> QED  BY <3>2, <3>5
  <2>4. q + e = Len(file) \/ file[q + e + 1] = NL
    <3>1. e < last \/ e = last
      BY <1>2, <1>5
    <3> QED  BY <2>2, <2>3, <3>1
  <2>5. q + e \in p..Len(file)
    BY <1>2, <1>10
  <2> DEFINE z == q + e
  <2> HIDE DEF z, p
  <2>6. /\ n + 1 \in 1..Len(Lines(file))
        /\ Lines(file)[n + 1] = SubSeq(file, p + 1, z)
        /\ z = Len(file) => n + 1 = Len(Lines(file))
        /\ z < Len(file) => LinesDone(file, z + 1, n + 1) /\ AtNewline(file, z, n + 1)
    BY <1>2, <1>16, <2>1, <2>4, <2>5, LineRead DEF z
  <2>7. n \in Int /\ n + 1 \in 0..Len(Lines(file))
    BY <2>6
  <2>8. out(n + 1)
    <3>1. Lines(file)[n + 1] = line
      BY <1>12, <2>6 DEF z
    <3>2. FoundOf(file, search)[n + 1]
            = IF HoldsIn(search, line) THEN Append(FoundOf(file, search)[n], line)
              ELSE FoundOf(file, search)[n]
      BY <1>1, <1>2, <1>12, <2>6, <2>7, <3>1, PrintedLine
    <3> QED  BY <1>13, <3>2, Zenon
  <2>9. next(n + 1)
    <3>1. ASSUME e < last PROVE LinesDone(file, q + e + 1, n + 1)
      <4>1. z < Len(file) /\ z + 1 = q + e + 1
        BY <1>2, <1>5, <1>10, <3>1 DEF z
      <4> QED  BY <2>6, <4>1
    <3>2. ASSUME e = last
          PROVE  LinesDone(file, file_pos, n + 1) \/ (AtNewline(file, file_pos, n + 1) /\ cnt # 0)
      <4>1. z = file_pos
        BY <1>10, <3>2 DEF z
      <4>2. CASE file_pos = Len(file)
        BY <2>6, <4>1, <4>2 DEF LinesDone
      <4>3. CASE file_pos # Len(file)
        <5>1. file_pos < Len(file) /\ cnt # 0
          BY <1>2, <1>3, <4>3
        <5> QED  BY <2>6, <4>1, <5>1
      <4> QED  BY <4>2, <4>3
    <3> QED  BY <3>1, <3>2
  <2> QED  BY <2>7, <2>8, <2>9
<1>17. CASE LinesDone(file, p, n) /\ ~(p < Len(file))
  <2>1. line_start = 0 /\ last = 0 /\ e = 0 /\ p = Len(file) /\ file_pos = Len(file)
    BY <1>1, <1>2, <1>3, <1>5, <1>10, <1>17
  <2>2. Len(line) = 0
    BY <1>12, <2>1
  <2>3. next(n)
    <3>1. LinesDone(file, file_pos, n)
      BY <1>17, <2>1
    <3>2. ~(e < last)
      BY <2>1
    <3> QED  BY <3>1, <3>2
  <2> QED  BY <1>15, <2>2, <2>3
<1>18. CASE AtNewline(file, p, n) /\ line_start = 0
  <2>1. /\ p \in 0..(Len(file) - 1) /\ file[p + 1] = NL
        /\ LinesDone(file, p + 1, n)
    <3> HIDE DEF p
    <3> QED  BY <1>2, <1>18, OverNewline
  <2>2. p = q
    BY <1>2, <1>18
  <2>3. last > 0
    BY <1>2, <1>3, <1>10, <2>1, <2>2
  <2>4. data[0] = NL
    <3>1. 0 \in line_start..(last - 1) /\ q + 0 + 1 = p + 1
      BY <1>2, <1>18, <2>2, <2>3
    <3>2. data[0] = file[q + 0 + 1]
      BY <1>6, <3>1
    <3> QED  BY <2>1, <3>1, <3>2
  <2>5. e = 0
    <3>1. ASSUME e # 0 PROVE FALSE
      <4>1. 0 \in line_start..(e - 1)
        BY <1>10, <1>18, <3>1
      <4> QED  BY <1>5, <2>4, <4>1
    <3> QED  BY <3>1
  <2>6. Len(line) = 0
    BY <1>12, <1>18, <2>5
  <2>7. next(n)
    <3>1. q + e + 1 = p + 1 /\ e # last
      BY <1>2, <2>2, <2>3, <2>5
    <3> HIDE DEF p
    <3> QED  BY <2>1, <3>1
  <2> QED  BY <1>15, <2>6, <2>7
<1> QED  BY <1>11, <1>16, <1>17, <1>18

LEMMA ScanInv ==
  ASSUME GrepInv, Scan
  PROVE  GrepInv'
<1> DEFINE e == line_end
           q == file_pos - last
           line == String(line_start, e)
<1>1. /\ at = "scan" /\ ~Cut
      /\ data' = [data EXCEPT ![e] = NUL]
      /\ printed' = IF Holds(line) THEN Append(printed, line) ELSE printed
      /\ line_start' = e + 1
      /\ last' = IF e + 1 >= last THEN 0 ELSE last
      /\ at' = IF e + 1 < last THEN "scan" ELSE IF cnt = 0 THEN "closed" ELSE "read"
      /\ file' = file /\ file_pos' = file_pos /\ search' = search /\ junk' = junk /\ cnt' = cnt
  BY DEF Scan
<1>2. GrepTypes /\ LoopsInv
  BY DEF GrepInv
<1>3. /\ file \in Seq(Characters) /\ search \in Seq(Characters) /\ search # <<>>
      /\ data \in [0..BUFSIZE -> Bytes]
      /\ last \in 0..BUFSIZE /\ file_pos \in 0..Len(file) /\ last <= file_pos
      /\ cnt \in Nat /\ line_start \in Nat
  BY <1>2 DEF GrepTypes
<1>4. /\ file \in Seq(Bytes) /\ Len(file) \in Nat /\ BUFSIZE \in Nat /\ BUFSIZE # 0
      /\ last \in Nat /\ file_pos \in Nat /\ last <= BUFSIZE
  BY <1>3, TextBytes, GrepConstants
<1>5. /\ cnt = 0 => file_pos = Len(file)
      /\ file_pos < Len(file) => last = BUFSIZE
      /\ line_start < last \/ (line_start = 0 /\ last = 0 /\ cnt = 0)
  BY <1>1, <1>2 DEF LoopsInv
<1>6. e \in line_start..last /\ e \in Nat /\ (e = last \/ data[e] = NL)
      /\ \A k \in line_start..(e - 1) : data[k] # NL
  <2>1. line_start <= last
    BY <1>3, <1>4, <1>5
  <2>2. e \in line_start..last /\ (e = last \/ data[e] = NL)
        /\ \A k \in line_start..(e - 1) : data[k] # NL
    BY <1>2, <2>1, LineEndFacts
  <2> QED  BY <1>3, <2>2
<1> HIDE DEF e
<1>7. /\ at' = "scan" => e + 1 < last /\ last' = last
      /\ at' # "scan" => ~(e + 1 < last) /\ last' = 0
      /\ at' = "read" => cnt # 0
      /\ at' = "closed" => cnt = 0
      /\ at' \in {"scan", "read", "closed"}
  BY <1>1, <1>4, <1>6
<1>8. e \in 0..BUFSIZE
  BY <1>4, <1>6
<1>9. \A k \in 0..BUFSIZE : data'[k] = IF k = e THEN NUL ELSE data[k]
  BY <1>1, <1>3
<1>10. GrepTypes'
  <2>1. data' \in [0..BUFSIZE -> Bytes]
    <3>1. NUL \in Bytes
      BY DEF NUL, Bytes
    <3> QED  BY <1>1, <1>3, <3>1
  <2>2. last' \in 0..BUFSIZE /\ last' <= file_pos' /\ line_start' \in Nat
    BY <1>1, <1>3, <1>4, <1>6
  <2> QED  BY <1>1, <1>3, <1>7, <2>1, <2>2 DEF GrepTypes
<1>11. LoopsInv'
  <2>1. at' = "read" => last' < BUFSIZE
    BY <1>4, <1>7
  <2>2. at' = "scan" => /\ cnt' = 0 => file_pos' = Len(file')
                        /\ file_pos' < Len(file') => last' = BUFSIZE
                        /\ line_start' < last'
    BY <1>1, <1>5, <1>7
  <2> QED  BY <2>1, <2>2 DEF LoopsInv
<1>12. ASSUME Usual' PROVE BufferInv' /\ PrintedInv'
  <2>1. Usual
    BY <1>1, <1>12 DEF Usual, LinesFit
  <2>2. BufferInv /\ PrintedInv /\ LinesFit
    BY <2>1 DEF GrepInv, Usual
  <2>3. /\ \A k \in line_start..(last - 1) : data[k] = file[file_pos - last + k + 1]
        /\ \A k \in 0..BUFSIZE : data[k] = NL => k \in line_start..(last - 1)
    BY <1>1, <2>2 DEF BufferInv, Scanned
  <2>4. BufferInv'
    <3>1. ASSUME NEW k \in Scanned'..(last' - 1)
          PROVE  data'[k] = file'[file_pos' - last' + k + 1]
      <4>1. at' = "scan"
        <5>1. ASSUME at' # "scan" PROVE FALSE
          <6>1. Scanned' = 0 /\ last' = 0
            BY <1>7, <5>1 DEF Scanned
          <6> QED  BY <6>1
        <5> QED  BY <5>1
      <4>2. Scanned' = e + 1 /\ last' = last
        BY <1>1, <1>7, <4>1 DEF Scanned
      <4>3. k \in line_start..(last - 1) /\ k \in 0..BUFSIZE /\ k # e
        BY <1>3, <1>4, <1>6, <4>2
      <4> QED  BY <1>1, <1>9, <2>3, <4>2, <4>3
    <3>2. ASSUME NEW k \in 0..BUFSIZE, data'[k] = NL
          PROVE  at' = "scan" /\ k \in line_start'..(last' - 1)
      <4>1. k # e /\ data[k] = NL
        BY <1>9, <3>2 DEF NUL
      <4>2. k \in line_start..(last - 1)
        BY <2>3, <4>1
      <4>3. k \in (e + 1)..(last - 1)
        <5>1. k \notin line_start..(e - 1)
          BY <1>6, <4>1
        <5> QED  BY <1>3, <1>4, <1>6, <4>1, <4>2, <5>1
      <4>4. at' = "scan"
        <5>1. e + 1 < last
          BY <1>4, <1>6, <4>3
        <5> QED  BY <1>1, <5>1
      <4> QED  BY <1>1, <1>7, <4>3, <4>4
    <3> QED  BY <3>1, <3>2, Zenon DEF BufferInv
  <2>5. PICK n \in 0..Len(Lines(file)) : printed = FoundOf(file, search)[n] /\ LineInv(n)
    BY <2>2 DEF PrintedInv
  <2>6. PICK m \in 0..Len(Lines(file)) :
           /\ (IF Holds(line) THEN Append(FoundOf(file, search)[n], line)
               ELSE FoundOf(file, search)[n]) = FoundOf(file, search)[m]
           /\ e < last => LinesDone(file, q + e + 1, m)
           /\ e = last =>
                \/ LinesDone(file, file_pos, m)
                \/ AtNewline(file, file_pos, m) /\ cnt # 0
    BY <1>1, <1>2, <2>2, <2>5, ScanPrints, Zenon DEF e
  <2>7. printed' = FoundOf(file, search)[m]
    BY <1>1, <2>5, <2>6, Zenon
  <2>8. LineInv(m)'
    <3>1. CASE at' = "scan"
      <4>1. Position' = q + e + 1
        <5>1. Position' = file_pos' - last' + Scanned' /\ Scanned' = e + 1 /\ last' = last
          BY <1>1, <1>7, <3>1 DEF Position, Scanned
        <5> QED  BY <1>1, <1>4, <1>6, <5>1
      <4>2. e < last
        BY <1>4, <1>6, <1>7, <3>1
      <4>3. LinesDone(file, Position', m)
        BY <2>6, <4>1, <4>2
      <4> QED  BY <1>1, <3>1, <4>3 DEF LineInv
    <3>2. CASE at' # "scan"
      <4>1. \/ LinesDone(file, file_pos, m)
            \/ AtNewline(file, file_pos, m) /\ cnt # 0
        <5>1. CASE e = last
          BY <2>6, <5>1
        <5>2. CASE e # last
          <6>1. e < last /\ q + e + 1 = file_pos
            BY <1>4, <1>6, <1>7, <3>2, <5>2
          <6> QED  BY <2>6, <6>1
        <5> QED  BY <5>1, <5>2
      <4>2. CASE at' = "closed"
        <5>1. cnt = 0 /\ file_pos = Len(file)
          BY <1>5, <1>7, <4>2
        <5>2. LinesDone(file, Len(file), m)
          BY <4>1, <5>1
        <5>3. m = Len(Lines(file))
          BY <1>4, <5>2, DoneAll
        <5> QED  BY <1>1, <4>2, <5>3 DEF LineInv
      <4>3. CASE at' = "read"
        <5>1. Position' = file_pos
          <6>1. Position' = file_pos' - last' + Scanned' /\ Scanned' = 0 /\ last' = 0
            BY <1>7, <4>3 DEF Position, Scanned
          <6> QED  BY <1>1, <1>4, <6>1
        <5>2. last' = 0
          BY <1>7, <4>3
        <5> QED  BY <1>1, <4>1, <4>3, <5>1, <5>2 DEF LineInv
      <4> QED  BY <1>7, <3>2, <4>2, <4>3
    <3> QED  BY <3>1, <3>2
  <2> QED  BY <1>1, <2>4, <2>7, <2>8 DEF PrintedInv
<1> QED  BY <1>10, <1>11, <1>12 DEF GrepInv

LEMMA GrepStutters ==
  ASSUME GrepInv, UNCHANGED grepVars
  PROVE  GrepInv'
<1>1. /\ file' = file /\ file_pos' = file_pos /\ search' = search /\ junk' = junk
      /\ data' = data /\ last' = last /\ cnt' = cnt /\ line_start' = line_start
      /\ printed' = printed /\ at' = at
  BY DEF grepVars
<1>2. GrepTypes' /\ LoopsInv'
  BY <1>1 DEF GrepInv, GrepTypes, LoopsInv
<1>3. (Usual' <=> Usual) /\ Scanned' = Scanned
  BY <1>1 DEF Usual, LinesFit, Scanned
<1>4. Position' = Position
  BY <1>1, <1>3 DEF Position
<1>5. (BufferInv' <=> BufferInv) /\ (PrintedInv' <=> PrintedInv)
  BY <1>1, <1>3, <1>4 DEF BufferInv, PrintedInv, LineInv
<1> QED  BY <1>2, <1>3, <1>5 DEF GrepInv

\* The invariant behind what grep prints: the buffer holds the part of the file
\* before its position, newlines stand only in what is still to be scanned, and
\* the lines before that are dealt with (ece391grep.c:21-60).
THEOREM GrepInvariance == GrepSpec => []GrepInv
<1>1. (\E text \in Seq(Characters), string \in Seq(Characters) \ {<<>>}, byte \in 0..255 :
         GrepInit(text, string, byte)) => GrepInv
  BY GrepInitInv
<1>2. GrepInv /\ [GrepNext]_grepVars => GrepInv'
  BY FillInv, KeepInv, ScanInv, GrepStutters DEF GrepNext
<1> QED  BY <1>1, <1>2, PTL DEF GrepSpec

\* grep prints the lines that hold the string, whole and in their order, and
\* all of them before it closes the file, for every file, string and size of
\* the buffer, when the lines fit it and the byte after it is no newline.
THEOREM PrintsAllMatches == GrepSpec => []PrintsMatches
<1>1. GrepInv => PrintsMatches
  <2> SUFFICES ASSUME GrepInv, junk # NL, LinesFit
               PROVE  /\ \E n \in 0..Len(Lines(file)) : printed = Found[n]
                      /\ at = "closed" => printed = Found[Len(Lines(file))]
    BY DEF PrintsMatches
  <2>1. PICK n \in 0..Len(Lines(file)) : printed = FoundOf(file, search)[n] /\ LineInv(n)
    BY DEF GrepInv, Usual, PrintedInv
  <2>2. Found = FoundOf(file, search)
    BY FoundIs
  <2>3. at = "closed" => n = Len(Lines(file))
    BY <2>1 DEF LineInv
  <2> QED  BY <2>1, <2>2, <2>3, Zenon
<1> QED  BY <1>1, GrepInvariance, PTL

-----------------------------------------------------------------------------
(* The memory and string routines (Library).                               *)

\* Induction over the naturals up to n.
LEMMA UpInduction ==
  ASSUME NEW n \in Nat, NEW T, 0 \in T, \A k \in 1..n : k - 1 \in T => k \in T
  PROVE  \A k \in 0..n : k \in T
<1> DEFINE U == {k \in 0..n : k \notin T}
<1>1. SUFFICES ASSUME U # {} PROVE FALSE
  OBVIOUS
<1>2. U \subseteq Nat
  OBVIOUS
<1>3. PICK x \in U : \A y \in U : x <= y
  <2> HIDE DEF U
  <2> QED  BY <1>1, <1>2, LeastElement
<1>4. x \in 0..n /\ x \notin T
  OBVIOUS
<1>5. x \in 1..n /\ x - 1 \in 0..n /\ ~(x <= x - 1)
  BY <1>4
<1>6. x - 1 \in T
  BY <1>3, <1>5
<1> QED  BY <1>4, <1>5, <1>6

MoveBody(m, dest, src, size, ks, f) ==
  [j \in 0..Len(ks) |-> IF j = 0 THEN m ELSE Unit(f[j - 1], dest, src, size, ks[j])]

LEMMA MoveIs ==
  ASSUME NEW m, NEW dest, NEW src, NEW size, NEW ks
  PROVE  Move(m, dest, src, size, ks)
           = (CHOOSE f : f = MoveBody(m, dest, src, size, ks, f))[Len(ks)]
  BY DEF Move, MoveBody

Steps(w, N, m, dest, src, size, ks) ==
  /\ Len(ks) = N /\ w = [j \in 0..N |-> w[j]] /\ w[0] = m
  /\ \A j \in 1..N : w[j] = Unit(w[j - 1], dest, src, size, ks[j])

\* What a function that takes the same steps reaches, Move reaches.
LEMMA MoveWitness ==
  ASSUME NEW m, NEW dest, NEW src, NEW size, NEW ks, NEW N \in Nat, NEW w,
         Steps(w, N, m, dest, src, size, ks)
  PROVE  Move(m, dest, src, size, ks) = w[N]
<1> DEFINE g == CHOOSE f : f = MoveBody(m, dest, src, size, ks, f)
<1>0. /\ Len(ks) = N /\ w = [j \in 0..N |-> w[j]] /\ w[0] = m
      /\ \A j \in 1..N : w[j] = Unit(w[j - 1], dest, src, size, ks[j])
  BY DEF Steps
<1>1. w = MoveBody(m, dest, src, size, ks, w)
  <2>1. ASSUME NEW j \in 0..N
        PROVE  w[j] = IF j = 0 THEN m ELSE Unit(w[j - 1], dest, src, size, ks[j])
    <3>1. j = 0 \/ j \in 1..N
      OBVIOUS
    <3> QED  BY <1>0, <3>1
  <2>2. [j \in 0..N |-> w[j]]
          = [j \in 0..N |-> IF j = 0 THEN m ELSE Unit(w[j - 1], dest, src, size, ks[j])]
    BY <2>1
  <2> QED  BY <1>0, <2>2, Zenon DEF MoveBody
<1>2. g = MoveBody(m, dest, src, size, ks, g)
  BY <1>1, Zenon
<1>3. Move(m, dest, src, size, ks) = g[N]
  BY <1>0, MoveIs, Zenon
<1> HIDE DEF g
<1>4. ASSUME NEW j \in 0..N
      PROVE  g[j] = IF j = 0 THEN m ELSE Unit(g[j - 1], dest, src, size, ks[j])
  <2>1. MoveBody(m, dest, src, size, ks, g)[j]
          = IF j = 0 THEN m ELSE Unit(g[j - 1], dest, src, size, ks[j])
    BY <1>0, Zenon DEF MoveBody
  <2> QED  BY <1>2, <2>1, Zenon
<1> DEFINE T == {j \in 0..N : g[j] = w[j]}
<1>5. 0 \in T
  BY <1>0, <1>4
<1>6. ASSUME NEW j \in 1..N, j - 1 \in T PROVE j \in T
  <2>1. j \in 0..N /\ j # 0
    OBVIOUS
  <2>2. g[j - 1] = w[j - 1]
    BY <1>6
  <2>3. g[j] = Unit(g[j - 1], dest, src, size, ks[j])
    BY <1>4, <2>1
  <2>4. w[j] = Unit(w[j - 1], dest, src, size, ks[j])
    BY <1>0
  <2> QED  BY <2>1, <2>2, <2>3, <2>4
<1>7. N \in T
  <2>1. N \in 0..N /\ N \in Nat
    OBVIOUS
  <2> HIDE DEF T
  <2> QED  BY <1>5, <1>6, <2>1, UpInduction
<1> QED  BY <1>3, <1>7

\* The memory after n bytes are moved, from the first one or from the last.
MovedBytes(m, dest, src, from, to) ==
  [a \in DOMAIN m |-> IF a - dest \in from..(to - 1) THEN m[a - dest + src] ELSE m[a]]

\* Of two areas the source is the higher or does not meet the other.
Forward(dest, src, n) == src >= dest \/ src + n <= dest

Areas(top, m, dest, src, n) ==
  /\ top \in Nat /\ DOMAIN m = 0..top
  /\ dest \in Nat /\ src \in Nat /\ n \in Nat
  /\ src + n <= top + 1 /\ Forward(dest, src, n)
UnitAt(j, size, k, c2, n) ==
  /\ j \in Nat /\ size \in {1, 4} /\ k \in Nat
  /\ c2 = j + size * k /\ c2 + size <= n

\* A unit moved after the ones below it.
LEMMA UnitForward ==
  ASSUME NEW top, NEW m, NEW dest, NEW src, NEW n, Areas(top, m, dest, src, n),
         NEW j, NEW size, NEW k, NEW c2, UnitAt(j, size, k, c2, n)
  PROVE  Unit(MovedBytes(m, dest, src, 0, c2), dest + j, src + j, size, k)
           = MovedBytes(m, dest, src, 0, c2 + size)
<1> DEFINE u == size * k
           old == MovedBytes(m, dest, src, 0, c2)
           new == MovedBytes(m, dest, src, 0, c2 + size)
<1> USE DEF Areas, UnitAt
<1>1. u \in Nat /\ c2 = j + u /\ c2 \in Nat
  OBVIOUS
<1>2. /\ DOMAIN old = 0..top
      /\ \A a \in 0..top : old[a] = IF a - dest \in 0..(c2 - 1) THEN m[a - dest + src] ELSE m[a]
  BY DEF MovedBytes
<1>3. new = [a \in 0..top |-> IF a - dest \in 0..(c2 + size - 1) THEN m[a - dest + src] ELSE m[a]]
  BY DEF MovedBytes
<1>4. c2 + size <= n
  OBVIOUS
<1> HIDE DEF u, old, new
<1>5. Unit(old, dest + j, src + j, size, k)
        = [a \in 0..top |-> IF a - (dest + j) \in u..(u + size - 1)
                            THEN old[a - (dest + j) + (src + j)] ELSE old[a]]
  BY <1>2, Zenon DEF Unit, u
<1>6. ASSUME NEW a \in 0..top
      PROVE  (IF a - (dest + j) \in u..(u + size - 1)
              THEN old[a - (dest + j) + (src + j)] ELSE old[a])
             = IF a - dest \in 0..(c2 + size - 1) THEN m[a - dest + src] ELSE m[a]
  <2>1. CASE a - dest \in c2..(c2 + size - 1)
    <3>1. a - (dest + j) \in u..(u + size - 1) /\ a - dest \in 0..(c2 + size - 1)
      BY <1>1, <2>1
    <3>2. a - (dest + j) + (src + j) = a - dest + src
      OBVIOUS
    <3>3. a - dest + src \in 0..top
      BY <1>1, <1>4, <2>1
    <3>4. a - dest + src - dest \notin 0..(c2 - 1)
      BY <1>1, <1>4, <2>1 DEF Forward
    <3>5. old[a - dest + src] = m[a - dest + src]
      BY <1>2, <3>3, <3>4
    <3> QED  BY <3>1, <3>2, <3>5
  <2>2. CASE a - dest \notin c2..(c2 + size - 1)
    <3>1. a - (dest + j) \notin u..(u + size - 1)
      BY <1>1, <2>2
    <3>2. a - dest \in 0..(c2 + size - 1) <=> a - dest \in 0..(c2 - 1)
      BY <1>1, <2>2
    <3> QED  BY <1>2, <3>1, <3>2
  <2> QED  BY <2>1, <2>2
<1>7. Unit(old, dest + j, src + j, size, k) = new
  BY <1>3, <1>5, <1>6
<1> QED  BY <1>7, Zenon DEF old, new

LEMMA UptoFacts ==
  ASSUME NEW n \in Nat
  PROVE  /\ Len(Upto(n)) = n /\ (\A j \in 1..n : Upto(n)[j] = j - 1)
         /\ Len(Reverse(Upto(n))) = n /\ (\A j \in 1..n : Reverse(Upto(n))[j] = n - j)
<1>1. Upto(n) \in Seq(Int) /\ Len(Upto(n)) = n /\ \A j \in 1..n : Upto(n)[j] = j - 1
  BY DEF Upto
<1> DEFINE up == Upto(n)
<1> HIDE DEF up
<1>2. up \in Seq(Int) /\ Len(up) = n /\ \A j \in 1..n : up[j] = j - 1
  BY <1>1 DEF up
<1>3. Reverse(up) = [x \in 1..n |-> up[(n - x) + 1]]
  BY <1>2, Zenon DEF Reverse
<1>4. ASSUME NEW j \in 1..n PROVE up[(n - j) + 1] = n - j
  <2>1. (n - j) + 1 \in 1..n /\ ((n - j) + 1) - 1 = n - j
    OBVIOUS
  <2> QED  BY <1>2, <2>1
<1>5. Reverse(up) = [x \in 1..n |-> n - x]
  BY <1>3, <1>4
<1>6. Len(Reverse(up)) = n /\ \A j \in 1..n : Reverse(up)[j] = n - j
  BY <1>5
<1> QED  BY <1>2, <1>6 DEF up

Units(j, size, units, to, n) ==
  /\ j \in Nat /\ size \in {1, 4} /\ units \in Nat
  /\ to = j + size * units /\ to <= n

LEMMA MoveForward ==
  ASSUME NEW top, NEW m, NEW dest, NEW src, NEW n, Areas(top, m, dest, src, n),
         NEW j, NEW size, NEW units, NEW to, Units(j, size, units, to, n)
  PROVE  Move(MovedBytes(m, dest, src, 0, j), dest + j, src + j, size, Upto(units))
           = MovedBytes(m, dest, src, 0, to)
<1>0. /\ j \in Nat /\ size \in {1, 4} /\ units \in Nat /\ to = j + size * units /\ to <= n
      /\ top \in Nat /\ DOMAIN m = 0..top /\ dest \in Nat /\ src \in Nat /\ n \in Nat
  BY DEF Units, Areas
<1> DEFINE ks == Upto(units)
           w == [x \in 0..units |-> MovedBytes(m, dest, src, 0, j + size * x)]
<1>1. Len(ks) = units /\ \A x \in 1..units : ks[x] = x - 1
  BY <1>0, UptoFacts
<1>2. ASSUME NEW x \in 0..units PROVE w[x] = MovedBytes(m, dest, src, 0, j + size * x)
  BY Zenon
<1>3. w = [x \in 0..units |-> w[x]]
  BY Zenon
<1> HIDE DEF w, ks
<1>4. w[0] = MovedBytes(m, dest, src, 0, j)
  <2>1. 0 \in 0..units /\ j + size * 0 = j
    BY <1>0
  <2> QED  BY <1>2, <2>1, Zenon
<1>5. ASSUME NEW x \in 1..units PROVE w[x] = Unit(w[x - 1], dest + j, src + j, size, ks[x])
  <2> DEFINE k == x - 1
             c2 == j + size * k
  <2>1. /\ k \in Nat /\ k \in 0..units /\ x \in 0..units
        /\ c2 + size <= n /\ c2 + size = j + size * x
    <3>1. CASE size = 1
      BY <1>0, <3>1
    <3>2. CASE size = 4
      BY <1>0, <3>2
    <3> QED  BY <1>0, <3>1, <3>2
  <2>2. ks[x] = k
    BY <1>1
  <2>3. c2 = j + size * k
    OBVIOUS
  <2> HIDE DEF k, c2
  <2>4. k \in Nat /\ c2 + size <= n
    BY <2>1
  <2>5. Unit(MovedBytes(m, dest, src, 0, c2), dest + j, src + j, size, k)
           = MovedBytes(m, dest, src, 0, c2 + size)
    <3>1. UnitAt(j, size, k, c2, n)
      BY <1>0, <2>3, <2>4 DEF UnitAt
    <3> QED  BY <3>1, UnitForward
  <2>6. w[k] = MovedBytes(m, dest, src, 0, c2)
    BY <1>2, <2>1, <2>3, Zenon
  <2>7. w[x] = MovedBytes(m, dest, src, 0, c2 + size)
    BY <1>2, <2>1, Zenon
  <2>8. w[x] = Unit(w[k], dest + j, src + j, size, ks[x])
    BY <2>2, <2>5, <2>6, <2>7, Zenon
  <2> QED  BY <2>8, Zenon DEF k
<1>6. Move(MovedBytes(m, dest, src, 0, j), dest + j, src + j, size, ks) = w[units]
  <2> DEFINE old == MovedBytes(m, dest, src, 0, j)
             d2 == dest + j
             s2 == src + j
  <2> HIDE DEF old, d2, s2
  <2>1. w[0] = old /\ \A x \in 1..units : w[x] = Unit(w[x - 1], d2, s2, size, ks[x])
    BY <1>4, <1>5, Zenon DEF old, d2, s2
  <2>2. Steps(w, units, old, d2, s2, size, ks)
    BY <1>1, <1>3, <2>1, Zenon DEF Steps
  <2>3. Move(old, d2, s2, size, ks) = w[units]
    BY <1>0, <2>2, MoveWitness
  <2> QED  BY <2>3, Zenon DEF old, d2, s2
<1>7. units \in 0..units
  BY <1>0
<1> QED  BY <1>0, <1>2, <1>6, <1>7, Zenon DEF ks

\* A byte moved after the ones above it, to a higher area.
LEMMA UnitBackward ==
  ASSUME NEW top \in Nat, NEW m, DOMAIN m = 0..top, NEW dest \in Nat, NEW src \in Nat,
         NEW n \in Nat, NEW k \in 0..(n - 1), src + n <= top + 1, src < dest
  PROVE  Unit(MovedBytes(m, dest, src, k + 1, n), dest, src, 1, k) = MovedBytes(m, dest, src, k, n)
<1> DEFINE old == MovedBytes(m, dest, src, k + 1, n)
           new == MovedBytes(m, dest, src, k, n)
<1>1. /\ DOMAIN old = 0..top
      /\ \A a \in 0..top : old[a] = IF a - dest \in (k + 1)..(n - 1) THEN m[a - dest + src] ELSE m[a]
  BY DEF MovedBytes
<1>2. new = [a \in 0..top |-> IF a - dest \in k..(n - 1) THEN m[a - dest + src] ELSE m[a]]
  BY DEF MovedBytes
<1> HIDE DEF old, new
<1>3. Unit(old, dest, src, 1, k)
        = [a \in 0..top |-> IF a - dest \in (1 * k)..(1 * k + 1 - 1)
                            THEN old[a - dest + src] ELSE old[a]]
  BY <1>1, Zenon DEF Unit
<1>4. ASSUME NEW a \in 0..top
      PROVE  (IF a - dest \in (1 * k)..(1 * k + 1 - 1) THEN old[a - dest + src] ELSE old[a])
             = IF a - dest \in k..(n - 1) THEN m[a - dest + src] ELSE m[a]
  <2>1. a - dest \in (1 * k)..(1 * k + 1 - 1) <=> a - dest = k
    OBVIOUS
  <2>2. CASE a - dest = k
    <3>1. a - dest + src \in 0..top /\ a - dest + src - dest \notin (k + 1)..(n - 1)
          /\ a - dest \in k..(n - 1)
      BY <2>2
    <3>2. old[a - dest + src] = m[a - dest + src]
      BY <1>1, <3>1
    <3> QED  BY <2>1, <2>2, <3>1, <3>2
  <2>3. CASE a - dest # k
    <3>1. a - dest \in k..(n - 1) <=> a - dest \in (k + 1)..(n - 1)
      BY <2>3
    <3> QED  BY <1>1, <2>1, <2>3, <3>1
  <2> QED  BY <2>2, <2>3
<1>5. Unit(old, dest, src, 1, k) = new
  BY <1>2, <1>3, <1>4
<1> QED  BY <1>5, Zenon DEF old, new

LEMMA MoveBackward ==
  ASSUME NEW top \in Nat, NEW m, m = [a \in 0..top |-> m[a]], NEW dest \in Nat, NEW src \in Nat,
         NEW n \in Nat, src + n <= top + 1, src < dest
  PROVE  Move(m, dest, src, 1, Reverse(Upto(n))) = MovedBytes(m, dest, src, 0, n)
<1> DEFINE ks == Reverse(Upto(n))
           w == [x \in 0..n |-> MovedBytes(m, dest, src, n - x, n)]
<1>1. Len(ks) = n /\ \A x \in 1..n : ks[x] = n - x
  BY UptoFacts
<1>2. ASSUME NEW x \in 0..n PROVE w[x] = MovedBytes(m, dest, src, n - x, n)
  BY Zenon
<1>3. w = [x \in 0..n |-> w[x]]
  BY Zenon
<1>4. DOMAIN m = 0..top
  BY Zenon
<1> HIDE DEF w, ks
<1>5. w[0] = m
  <2>1. 0 \in 0..n /\ n - 0 = n
    OBVIOUS
  <2>2. w[0] = MovedBytes(m, dest, src, n, n)
    BY <1>2, <2>1
  <2>3. MovedBytes(m, dest, src, n, n)
          = [a \in 0..top |-> IF a - dest \in n..(n - 1) THEN m[a - dest + src] ELSE m[a]]
    BY <1>4, Zenon DEF MovedBytes
  <2>4. ASSUME NEW a \in 0..top PROVE a - dest \notin n..(n - 1)
    OBVIOUS
  <2>5. MovedBytes(m, dest, src, n, n) = [a \in 0..top |-> m[a]]
    BY <2>3, <2>4
  <2> QED  BY <2>2, <2>5, Zenon
<1>6. ASSUME NEW x \in 1..n PROVE w[x] = Unit(w[x - 1], dest, src, 1, ks[x])
  <2> DEFINE k == n - x
  <2>1. k \in 0..(n - 1) /\ k + 1 = n - (x - 1) /\ x - 1 \in 0..n /\ x \in 0..n
    OBVIOUS
  <2>2. ks[x] = k
    BY <1>1
  <2>3. w[x] = MovedBytes(m, dest, src, k, n)
    BY <1>2, <2>1, Zenon
  <2>4. w[x - 1] = MovedBytes(m, dest, src, k + 1, n)
    BY <1>2, <2>1, Zenon
  <2> HIDE DEF k
  <2>5. Unit(MovedBytes(m, dest, src, k + 1, n), dest, src, 1, k) = MovedBytes(m, dest, src, k, n)
    BY <1>4, <2>1, UnitBackward
  <2> QED  BY <2>2, <2>3, <2>4, <2>5, Zenon
<1>7. Move(m, dest, src, 1, ks) = w[n]
  <2>1. Steps(w, n, m, dest, src, 1, ks)
    BY <1>1, <1>3, <1>5, <1>6, Zenon DEF Steps
  <2> QED  BY <2>1, MoveWitness
<1>8. n \in 0..n /\ n - n = 0
  OBVIOUS
<1> QED  BY <1>2, <1>7, <1>8, Zenon DEF ks

LEMMA MovedNone ==
  ASSUME NEW top \in Nat, NEW m, m = [a \in 0..top |-> m[a]], NEW dest \in Nat, NEW src \in Nat
  PROVE  MovedBytes(m, dest, src, 0, 0) = m
<1>1. DOMAIN m = 0..top
  BY Zenon
<1>2. MovedBytes(m, dest, src, 0, 0)
        = [a \in 0..top |-> IF a - dest \in 0..(0 - 1) THEN m[a - dest + src] ELSE m[a]]
  BY <1>1, Zenon DEF MovedBytes
<1>3. ASSUME NEW a \in 0..top PROVE a - dest \notin 0..(0 - 1)
  OBVIOUS
<1>4. MovedBytes(m, dest, src, 0, 0) = [a \in 0..top |-> m[a]]
  BY <1>2, <1>3
<1> QED  BY <1>4, Zenon

\* memmove moves n bytes, whichever area is the higher one.
LEMMA MemmoveMoves ==
  ASSUME NEW top \in Nat, NEW m, m = [a \in 0..top |-> m[a]], NEW dest \in Nat, NEW src \in Nat,
         NEW n \in Nat, src + n <= top + 1
  PROVE  memmove(m, dest, src, n) = MovedBytes(m, dest, src, 0, n)
<1>1. CASE src >= dest
  <2>1. memmove(m, dest, src, n) = Move(m, dest, src, 1, Upto(n))
    BY <1>1, Zenon DEF memmove
  <2>2. DOMAIN m = 0..top
    BY Zenon
  <2>3. Forward(dest, src, n)
    BY <1>1 DEF Forward
  <2>4. Units(0, 1, n, n, n) /\ dest + 0 = dest /\ src + 0 = src
    BY DEF Units
  <2>5. Move(MovedBytes(m, dest, src, 0, 0), dest + 0, src + 0, 1, Upto(n))
          = MovedBytes(m, dest, src, 0, n)
    <3>1. Areas(top, m, dest, src, n)
      BY <2>2, <2>3 DEF Areas
    <3> QED  BY <2>4, <3>1, MoveForward
  <2>6. MovedBytes(m, dest, src, 0, 0) = m
    BY MovedNone
  <2> QED  BY <2>1, <2>4, <2>5, <2>6, Zenon
<1>2. CASE ~(src >= dest)
  <2>1. memmove(m, dest, src, n) = Move(m, dest, src, 1, Reverse(Upto(n)))
    BY <1>2, Zenon DEF memmove
  <2>2. src < dest
    BY <1>2
  <2> QED  BY <2>1, <2>2, MoveBackward
<1> QED  BY <1>1, <1>2

\* The three parts that memcpy and memset split an area into.
LEMMA PartsFit ==
  ASSUME NEW dest \in Nat, NEW n \in Nat
  PROVE  /\ Lead(dest, n) \in 0..n
         /\ (n - Lead(dest, n)) \div 4 \in Nat
         /\ Lead(dest, n) + 4 * ((n - Lead(dest, n)) \div 4) \in 0..n
<1> DEFINE b == (-dest) % 4
<1>1. b \in Nat
  OBVIOUS
<1>2. Lead(dest, n) = Min({n, b})
  BY DEF Lead
<1> HIDE DEF b
<1>3. Lead(dest, n) = IF n <= b THEN n ELSE b
  BY <1>1, <1>2, SmallMin
<1> DEFINE l == Lead(dest, n)
<1> HIDE DEF l
<1>4. l \in 0..n
  BY <1>1, <1>3 DEF l
<1>5. (n - l) \div 4 \in Nat /\ l + 4 * ((n - l) \div 4) \in 0..n
  BY <1>4
<1> QED  BY <1>4, <1>5, Zenon DEF l

\* memcpy moves n bytes between areas that do not meet.
LEMMA MemcpyMoves ==
  ASSUME NEW top \in Nat, NEW m, m = [a \in 0..top |-> m[a]], NEW dest \in Nat, NEW src \in Nat,
         NEW n \in Nat, src + n <= top + 1, src + n <= dest \/ dest + n <= src
  PROVE  memcpy(m, dest, src, n) = MovedBytes(m, dest, src, 0, n)
<1> DEFINE l == Lead(dest, n)
           dw == (n - l) \div 4
           dn == l + 4 * dw
<1>1. l \in 0..n /\ dw \in Nat /\ dn \in 0..n
  BY PartsFit
<1>2. memcpy(m, dest, src, n)
        = Move(Move(Move(m, dest, src, 1, Upto(l)), dest + l, src + l, 4, Upto(dw)),
               dest + dn, src + dn, 1, Upto(n - dn))
  BY Zenon DEF memcpy
<1>3. dn = l + 4 * dw
  OBVIOUS
<1> HIDE DEF l, dw, dn
<1>4. l \in Nat /\ dn \in Nat /\ n - dn \in Nat /\ l <= n /\ dn <= n
  BY <1>1
<1>5. DOMAIN m = 0..top
  BY Zenon
<1>6. Areas(top, m, dest, src, n)
  BY <1>5 DEF Areas, Forward
<1>7. Move(m, dest, src, 1, Upto(l)) = MovedBytes(m, dest, src, 0, l)
  <2>1. Units(0, 1, l, l, n) /\ dest + 0 = dest /\ src + 0 = src
    BY <1>4 DEF Units
  <2>2. Move(MovedBytes(m, dest, src, 0, 0), dest + 0, src + 0, 1, Upto(l))
          = MovedBytes(m, dest, src, 0, l)
    BY <1>6, <2>1, MoveForward
  <2>3. MovedBytes(m, dest, src, 0, 0) = m
    BY MovedNone
  <2> QED  BY <2>1, <2>2, <2>3, Zenon
<1>8. Move(MovedBytes(m, dest, src, 0, l), dest + l, src + l, 4, Upto(dw))
        = MovedBytes(m, dest, src, 0, dn)
  <2>1. Units(l, 4, dw, dn, n)
    BY <1>1, <1>3, <1>4 DEF Units
  <2> QED  BY <1>6, <2>1, MoveForward
<1>9. Move(MovedBytes(m, dest, src, 0, dn), dest + dn, src + dn, 1, Upto(n - dn))
        = MovedBytes(m, dest, src, 0, n)
  <2>1. Units(dn, 1, n - dn, n, n)
    BY <1>4 DEF Units
  <2> QED  BY <1>6, <2>1, MoveForward
<1> QED  BY <1>2, <1>7, <1>8, <1>9, Zenon

FilledArea(m, from, to, byte) == [a \in DOMAIN m |-> IF a \in from..to THEN byte ELSE m[a]]

\* An area in three parts.
LEMMA ThreeParts ==
  ASSUME NEW from \in Nat, NEW l \in Nat, NEW dn \in Nat, NEW n \in Nat, NEW a \in Int,
         l <= dn, dn <= n
  PROVE  a \in from..(from + n - 1)
          <=> \/ a \in from..(from + l - 1)
              \/ a \in (from + l)..(from + dn - 1)
              \/ a \in (from + dn)..(from + n - 1)
  OBVIOUS

\* memset fills n bytes.
LEMMA MemsetFills ==
  ASSUME NEW top \in Nat, NEW m, m = [a \in 0..top |-> m[a]], NEW from \in Nat,
         NEW ch, NEW n \in Nat, NEW byte, byte = ch % 256
  PROVE  memset(m, from, ch, n) = FilledArea(m, from, from + n - 1, byte)
<1> DEFINE l == Lead(from, n)
           dw == (n - l) \div 4
           dn == l + 4 * dw
           m1 == FilledArea(m, from, from + 1 * l - 1, byte)
           m2 == FilledArea(m1, from + l, from + l + 4 * dw - 1, byte)
           m3 == FilledArea(m2, from + dn, from + dn + 1 * (n - dn) - 1, byte)
<1>1. l \in 0..n /\ dw \in Nat /\ dn \in 0..n
  BY PartsFit
<1>2. memset(m, from, ch, n) = m3
  BY Zenon DEF memset, FilledArea
<1>3. dn = l + 4 * dw
  OBVIOUS
<1> HIDE DEF l, dw, dn
<1>4. m1 = [a \in 0..top |-> IF a \in from..(from + 1 * l - 1) THEN byte ELSE m[a]]
  BY Zenon DEF FilledArea
<1> HIDE DEF m1
<1>5. m2 = [a \in 0..top |-> IF a \in (from + l)..(from + l + 4 * dw - 1) THEN byte ELSE m1[a]]
  BY <1>4, Zenon DEF FilledArea
<1> HIDE DEF m2
<1>6. m3 = [a \in 0..top |-> IF a \in (from + dn)..(from + dn + 1 * (n - dn) - 1) THEN byte ELSE m2[a]]
  BY <1>5, Zenon DEF FilledArea
<1> HIDE DEF m3
<1>7. ASSUME NEW a \in 0..top
      PROVE  m3[a] = IF a \in from..(from + n - 1) THEN byte ELSE m[a]
  <2>1. /\ m1[a] = IF a \in from..(from + 1 * l - 1) THEN byte ELSE m[a]
        /\ m2[a] = IF a \in (from + l)..(from + l + 4 * dw - 1) THEN byte ELSE m1[a]
        /\ m3[a] = IF a \in (from + dn)..(from + dn + 1 * (n - dn) - 1) THEN byte ELSE m2[a]
    BY <1>4, <1>5, <1>6, Zenon
  <2>2. a \in from..(from + n - 1)
          <=> \/ a \in from..(from + 1 * l - 1)
              \/ a \in (from + l)..(from + l + 4 * dw - 1)
              \/ a \in (from + dn)..(from + dn + 1 * (n - dn) - 1)
    <3>1. /\ from + 1 * l - 1 = from + l - 1
          /\ from + l + 4 * dw - 1 = from + dn - 1
          /\ from + dn + 1 * (n - dn) - 1 = from + n - 1
      <4>1. l \in Int /\ dn \in Int /\ dw \in Int /\ from \in Int /\ n \in Int
        BY <1>1
      <4>2. from + 1 * l - 1 = from + l - 1
        BY <4>1
      <4>3. from + l + 4 * dw - 1 = from + dn - 1
        BY <1>3, <4>1
      <4>4. from + dn + 1 * (n - dn) - 1 = from + n - 1
        BY <4>1
      <4> QED  BY <4>2, <4>3, <4>4
    <3>2. l \in Nat /\ dn \in Nat /\ l <= dn /\ dn <= n
      BY <1>1, <1>3
    <3>3. a \in from..(from + n - 1)
          <=> \/ a \in from..(from + l - 1)
              \/ a \in (from + l)..(from + dn - 1)
              \/ a \in (from + dn)..(from + n - 1)
      <4>1. a \in Int
        OBVIOUS
      <4> QED  BY <3>2, <4>1, ThreeParts, Zenon
    <3> QED  BY <3>1, <3>3, Zenon
  <2>3. CASE a \in (from + dn)..(from + dn + 1 * (n - dn) - 1)
    BY <2>1, <2>2, <2>3, Zenon
  <2>4. CASE /\ a \notin (from + dn)..(from + dn + 1 * (n - dn) - 1)
             /\ a \in (from + l)..(from + l + 4 * dw - 1)
    BY <2>1, <2>2, <2>4, Zenon
  <2>5. CASE /\ a \notin (from + dn)..(from + dn + 1 * (n - dn) - 1)
             /\ a \notin (from + l)..(from + l + 4 * dw - 1)
    <3>1. m3[a] = m1[a]
      BY <2>1, <2>5, Zenon
    <3> QED  BY <2>1, <2>2, <2>5, <3>1, Zenon
  <2> QED  BY <2>3, <2>4, <2>5, Zenon
<1>8. m3 = [a \in 0..top |-> m3[a]]
  BY <1>6, Zenon
<1>9. [a \in 0..top |-> m3[a]] = [a \in 0..top |-> IF a \in from..(from + n - 1) THEN byte ELSE m[a]]
  BY <1>7, Zenon
<1>10. FilledArea(m, from, from + n - 1, byte)
         = [a \in 0..top |-> IF a \in from..(from + n - 1) THEN byte ELSE m[a]]
  BY Zenon DEF FilledArea
<1> QED  BY <1>2, <1>8, <1>9, <1>10, Zenon

\* The positions at which strncmp stops.
StopsAt(s1, s2, n) ==
  {x \in 0..(n - 1) : CharAt(s1, x) # CharAt(s2, x) \/ CharAt(s1, x) = NUL}

LEMMA CharFacts ==
  ASSUME NEW s \in Seq(Characters), NEW x \in Nat
  PROVE  /\ CharAt(s, x) \in Int
         /\ CharAt(s, x) = NUL <=> ~(x < Len(s))
         /\ x < Len(s) => CharAt(s, x) = s[x + 1]
<1>1. \A v \in Characters : v \in Int /\ v # 0
  BY DEF Characters
<1>2. CASE x < Len(s)
  <2>1. x + 1 \in 1..Len(s)
    BY <1>2
  <2>2. s[x + 1] \in Characters
    BY <2>1
  <2>3. CharAt(s, x) = s[x + 1]
    BY <1>2, Zenon DEF CharAt
  <2> QED  BY <1>1, <1>2, <2>2, <2>3, Zenon DEF NUL
<1>3. CASE ~(x < Len(s))
  <2>1. CharAt(s, x) = 0 /\ 0 \in Int
    BY <1>3 DEF CharAt, NUL
  <2> QED  BY <1>3, <2>1, Zenon DEF NUL
<1> QED  BY <1>2, <1>3

\* strncmp is the difference at the first stop, and 0 without one.
LEMMA StrncmpIs ==
  ASSUME NEW s1, NEW s2, NEW n \in Nat
  PROVE  /\ StopsAt(s1, s2, n) = {} => strncmp(s1, s2, n) = 0
         /\ StopsAt(s1, s2, n) # {} =>
              \E x \in StopsAt(s1, s2, n) :
                /\ \A y \in StopsAt(s1, s2, n) : x <= y
                /\ x = Min(StopsAt(s1, s2, n))
                /\ strncmp(s1, s2, n) = CharAt(s1, x) - CharAt(s2, x)
<1> DEFINE S == StopsAt(s1, s2, n)
<1>1. strncmp(s1, s2, n) = IF S = {} THEN 0 ELSE CharAt(s1, Min(S)) - CharAt(s2, Min(S))
  BY Zenon DEF strncmp, StopsAt
<1>2. S \subseteq Nat
  BY DEF StopsAt
<1> HIDE DEF S
<1>3. S # {} => Min(S) \in S /\ \A y \in S : Min(S) <= y
  BY <1>2, MinPicks
<1>4. S = {} => strncmp(s1, s2, n) = 0
  BY <1>1, Zenon
<1>5. S # {} => \E x \in S : /\ \A y \in S : x <= y
                             /\ x = Min(S)
                             /\ strncmp(s1, s2, n) = CharAt(s1, x) - CharAt(s2, x)
  BY <1>1, <1>3, Zenon
<1> QED  BY <1>4, <1>5, Zenon DEF S

FirstOf(t, n) == SubSeq(t, 1, Min({n, Len(t)}))

LEMMA FirstFacts ==
  ASSUME NEW t \in Seq(Characters), NEW n \in Nat
  PROVE  /\ FirstOf(t, n) \in Seq(Characters)
         /\ Len(FirstOf(t, n)) = IF n <= Len(t) THEN n ELSE Len(t)
         /\ \A x \in 1..Len(FirstOf(t, n)) : FirstOf(t, n)[x] = t[x]
<1> DEFINE e == Min({n, Len(t)})
<1>1. e = IF n <= Len(t) THEN n ELSE Len(t)
  <2> DEFINE L == Len(t)
  <2>1. L \in Nat
    OBVIOUS
  <2> HIDE DEF L
  <2>2. Min({n, L}) = IF n <= L THEN n ELSE L
    BY <2>1, SmallMin
  <2> QED  BY <2>2, Zenon DEF L
<1>2. FirstOf(t, n) = SubSeq(t, 1, e)
  BY DEF FirstOf
<1> HIDE DEF e
<1>3. e \in 0..Len(t)
  BY <1>1
<1>4. SubSeq(t, 1, e) \in Seq(Characters) /\ Len(SubSeq(t, 1, e)) = e
      /\ \A x \in 1..e : SubSeq(t, 1, e)[x] = t[x]
  BY <1>3
<1> QED  BY <1>1, <1>2, <1>4

\* Strings with the same first n characters stop strncmp only where both end.
LEMMA SameFirst ==
  ASSUME NEW s1 \in Seq(Characters), NEW s2 \in Seq(Characters), NEW n \in Nat,
         FirstOf(s1, n) = FirstOf(s2, n), NEW x \in StopsAt(s1, s2, n)
  PROVE  CharAt(s1, x) = CharAt(s2, x)
<1> DEFINE L1 == Len(s1)
           L2 == Len(s2)
           f == FirstOf(s1, n)
           l == Len(f)
<1>1. /\ l = (IF n <= L1 THEN n ELSE L1) /\ l = (IF n <= L2 THEN n ELSE L2)
      /\ \A y \in 1..l : f[y] = s1[y]
      /\ \A y \in 1..l : f[y] = s2[y]
  <2>1. /\ Len(FirstOf(s1, n)) = IF n <= Len(s1) THEN n ELSE Len(s1)
        /\ \A y \in 1..Len(FirstOf(s1, n)) : FirstOf(s1, n)[y] = s1[y]
    BY FirstFacts
  <2>2. /\ Len(FirstOf(s2, n)) = IF n <= Len(s2) THEN n ELSE Len(s2)
        /\ \A y \in 1..Len(FirstOf(s2, n)) : FirstOf(s2, n)[y] = s2[y]
    BY FirstFacts
  <2> QED  BY <2>1, <2>2, Zenon
<1>2. L1 \in Nat /\ L2 \in Nat
  OBVIOUS
<1> HIDE DEF l, f, L1, L2
<1>3. x \in 0..(n - 1) /\ x \in Nat
  BY DEF StopsAt
<1>4. CASE x < l
  <2>1. x + 1 \in 1..l /\ x < L1 /\ x < L2
    BY <1>1, <1>2, <1>3, <1>4
  <2>2. CharAt(s1, x) = s1[x + 1] /\ CharAt(s2, x) = s2[x + 1]
    BY <1>3, <2>1, CharFacts DEF L1, L2
  <2>3. s1[x + 1] = s2[x + 1]
    BY <1>1, <2>1, Zenon
  <2> QED  BY <2>2, <2>3, Zenon
<1>5. CASE ~(x < l)
  <2>1. ~(x < L1) /\ ~(x < L2)
    BY <1>1, <1>2, <1>3, <1>5
  <2>2. CharAt(s1, x) = NUL /\ CharAt(s2, x) = NUL
    BY <1>3, <2>1, CharFacts DEF L1, L2
  <2> QED  BY <2>2, Zenon
<1> QED  BY <1>4, <1>5

\* No difference before z, and z is n or the end of both.
LEMMA FirstSame ==
  ASSUME NEW s1 \in Seq(Characters), NEW s2 \in Seq(Characters), NEW n \in Nat, NEW z \in 0..n,
         \A y \in 0..(z - 1) : y \notin StopsAt(s1, s2, n),
         z = n \/ (CharAt(s1, z) = NUL /\ CharAt(s2, z) = NUL)
  PROVE  FirstOf(s1, n) = FirstOf(s2, n)
<1>1. ASSUME NEW y \in 0..(z - 1)
      PROVE  /\ y \in Nat /\ y < Len(s1) /\ y < Len(s2)
             /\ s1[y + 1] = s2[y + 1]
  <2>1. y \in 0..(n - 1) /\ y \in Nat
    OBVIOUS
  <2>2. CharAt(s1, y) = CharAt(s2, y) /\ CharAt(s1, y) # NUL
    BY <2>1, Zenon DEF StopsAt
  <2>3. y < Len(s1) /\ y < Len(s2)
    BY <2>1, <2>2, CharFacts
  <2>4. CharAt(s1, y) = s1[y + 1] /\ CharAt(s2, y) = s2[y + 1]
    BY <2>1, <2>3, CharFacts
  <2> QED  BY <2>1, <2>2, <2>3, <2>4
<1> DEFINE L1 == Len(s1)
           L2 == Len(s2)
<1>2. L1 \in Nat /\ L2 \in Nat
  OBVIOUS
<1>3. z <= L1 /\ z <= L2
  <2>1. CASE z = 0
    BY <2>1
  <2>2. CASE z # 0
    <3>1. z - 1 \in 0..(z - 1)
      BY <2>2
    <3>2. z - 1 < L1 /\ z - 1 < L2
      BY <1>1, <3>1
    <3> QED  BY <1>2, <3>2
  <2> QED  BY <2>1, <2>2
<1>4. z = n \/ (~(z < L1) /\ ~(z < L2))
  <2>1. z \in Nat
    OBVIOUS
  <2> QED  BY <2>1, CharFacts
<1> HIDE DEF L1, L2
<1>5. (IF n <= L1 THEN n ELSE L1) = z /\ (IF n <= L2 THEN n ELSE L2) = z
  BY <1>2, <1>3, <1>4
<1> DEFINE f == FirstOf(s1, n)
           g == FirstOf(s2, n)
<1>6. /\ f \in Seq(Characters) /\ Len(f) = IF n <= L1 THEN n ELSE L1
      /\ \A x \in 1..Len(f) : f[x] = s1[x]
  BY FirstFacts DEF L1
<1>7. /\ g \in Seq(Characters) /\ Len(g) = IF n <= L2 THEN n ELSE L2
      /\ \A x \in 1..Len(g) : g[x] = s2[x]
  BY FirstFacts DEF L2
<1> HIDE DEF f, g
<1>8. Len(f) = z /\ Len(g) = z
  <2> DEFINE a == IF n <= L1 THEN n ELSE L1
             b == IF n <= L2 THEN n ELSE L2
  <2>1. a = z /\ b = z
    BY <1>5
  <2>2. Len(f) = a /\ Len(g) = b
    BY <1>6, <1>7
  <2> HIDE DEF a, b
  <2> QED  BY <2>1, <2>2, Zenon
<1>9. ASSUME NEW x \in 1..z PROVE f[x] = g[x]
  <2>1. x - 1 \in 0..(z - 1) /\ (x - 1) + 1 = x
    OBVIOUS
  <2>2. s1[x] = s2[x]
    BY <1>1, <2>1
  <2>3. f[x] = s1[x] /\ g[x] = s2[x]
    BY <1>6, <1>7, <1>8, Zenon
  <2> QED  BY <2>2, <2>3, Zenon
<1>10. f = g
  BY <1>6, <1>7, <1>8, <1>9
<1> QED  BY <1>10, Zenon DEF f, g

LEMMA StrncmpZero ==
  ASSUME NEW s1 \in Seq(Characters), NEW s2 \in Seq(Characters), NEW n \in Nat
  PROVE  strncmp(s1, s2, n) = 0 <=> FirstOf(s1, n) = FirstOf(s2, n)
<1> DEFINE S == StopsAt(s1, s2, n)
<1>1. \A x \in S : x \in 0..(n - 1) /\ x \in Nat
  BY DEF StopsAt
<1> HIDE DEF S
<1>2. CASE S = {}
  <2>1. strncmp(s1, s2, n) = 0
    BY <1>2, StrncmpIs, Zenon DEF S
  <2>2. n \in 0..n /\ \A y \in 0..(n - 1) : y \notin StopsAt(s1, s2, n)
    BY <1>2 DEF S
  <2>3. FirstOf(s1, n) = FirstOf(s2, n)
    BY <2>2, FirstSame
  <2> QED  BY <2>1, <2>3
<1>3. CASE S # {}
  <2>1. PICK x \in S : (\A y \in S : x <= y) /\ strncmp(s1, s2, n) = CharAt(s1, x) - CharAt(s2, x)
    BY <1>3, StrncmpIs, Zenon DEF S
  <2>2. x \in 0..(n - 1) /\ x \in Nat
    BY <1>1, Zenon
  <2>3. CharAt(s1, x) \in Int /\ CharAt(s2, x) \in Int
    BY <2>2, CharFacts
  <2>4. strncmp(s1, s2, n) = 0 <=> CharAt(s1, x) = CharAt(s2, x)
    BY <2>1, <2>3
  <2>5. ASSUME FirstOf(s1, n) = FirstOf(s2, n) PROVE CharAt(s1, x) = CharAt(s2, x)
    <3>1. x \in StopsAt(s1, s2, n)
      BY Zenon DEF S
    <3> QED  BY <2>5, <3>1, SameFirst
  <2>6. ASSUME CharAt(s1, x) = CharAt(s2, x) PROVE FirstOf(s1, n) = FirstOf(s2, n)
    <3>1. x \in 0..n
      BY <2>2
    <3>2. ASSUME NEW y \in 0..(x - 1) PROVE y \notin StopsAt(s1, s2, n)
      <4>1. ~(x <= y)
        BY <2>2
      <4> QED  BY <2>1, <4>1, Zenon DEF S
    <3>3. CharAt(s1, x) = NUL /\ CharAt(s2, x) = NUL
      BY <2>6, Zenon DEF S, StopsAt
    <3> QED  BY <3>1, <3>2, <3>3, FirstSame
  <2> QED  BY <2>4, <2>5, <2>6
<1> QED  BY <1>2, <1>3

LEMMA StrncmpTurns ==
  ASSUME NEW s1 \in Seq(Characters), NEW s2 \in Seq(Characters), NEW n \in Nat
  PROVE  strncmp(s1, s2, n) = -strncmp(s2, s1, n)
<1> DEFINE S == StopsAt(s1, s2, n)
<1>1. StopsAt(s2, s1, n) = S
  BY Zenon DEF StopsAt
<1>2. \A x \in S : x \in Nat
  BY DEF StopsAt
<1> HIDE DEF S
<1>3. CASE S = {}
  <2>1. strncmp(s1, s2, n) = 0 /\ strncmp(s2, s1, n) = 0
    BY <1>1, <1>3, StrncmpIs, Zenon DEF S
  <2> DEFINE r1 == strncmp(s1, s2, n)
             r2 == strncmp(s2, s1, n)
  <2> HIDE DEF r1, r2
  <2>2. r1 = 0 /\ r2 = 0
    BY <2>1, Zenon DEF r1, r2
  <2>3. (\A a, b \in Int : a + b = 0 => a = -b) /\ 0 + 0 = 0 /\ 0 \in Int
    OBVIOUS
  <2>4. r1 \in Int /\ r2 \in Int /\ r1 + r2 = 0
    BY <2>2, <2>3, Zenon
  <2>5. r1 = -r2
    BY <2>3, <2>4, Zenon
  <2> QED  BY <2>5, Zenon DEF r1, r2
<1>4. CASE S # {}
  <2> DEFINE x == Min(S)
  <2>1. x \in S /\ strncmp(s1, s2, n) = CharAt(s1, x) - CharAt(s2, x)
    BY <1>4, StrncmpIs, Zenon DEF S
  <2>2. strncmp(s2, s1, n) = CharAt(s2, x) - CharAt(s1, x)
    BY <1>1, <1>4, StrncmpIs, Zenon
  <2> HIDE DEF x
  <2>3. CharAt(s1, x) \in Int /\ CharAt(s2, x) \in Int
    BY <1>2, <2>1, CharFacts
  <2> DEFINE a == CharAt(s1, x)
             b == CharAt(s2, x)
             r1 == strncmp(s1, s2, n)
             r2 == strncmp(s2, s1, n)
  <2>4. a \in Int /\ b \in Int /\ r1 = a - b /\ r2 = b - a
    BY <2>1, <2>2, <2>3, Zenon
  <2> HIDE DEF a, b, r1, r2
  <2>5. r1 = -r2
    BY <2>4
  <2> QED  BY <2>5, Zenon DEF r1, r2
<1> QED  BY <1>3, <1>4

Letters(top) == [x \in 0..top |-> 98]
PaddedAt(s, n, k) == IF k >= n THEN 98 ELSE CharAt(s, k)

LEMMA StrncpyPads ==
  ASSUME NEW s \in Seq(Characters), NEW n \in Nat, NEW top \in Nat, NEW k \in 0..top
  PROVE  strncpy(Letters(top), s, n)[k] = PaddedAt(s, n, k)
<1> DEFINE L == Len(s)
           e == Min({n, L})
           d == Letters(top)
<1>1. L \in Nat
  OBVIOUS
<1>2. DOMAIN d = 0..top /\ d[k] = 98
  BY Zenon DEF Letters
<1> HIDE DEF d
<1>3. strncpy(d, s, n)
        = [x \in DOMAIN d |-> IF x < e THEN s[x + 1] ELSE IF x < n THEN NUL ELSE d[x]]
  BY Zenon DEF strncpy
<1>4. strncpy(d, s, n)[k] = IF k < e THEN s[k + 1] ELSE IF k < n THEN NUL ELSE d[k]
  BY <1>2, <1>3, Zenon
<1>5. CharAt(s, k) = IF k < L THEN s[k + 1] ELSE NUL
  BY Zenon DEF CharAt
<1> HIDE DEF L
<1>6. e = IF n <= L THEN n ELSE L
  BY <1>1, SmallMin
<1> HIDE DEF e
<1>7. /\ k >= n => ~(k < e) /\ ~(k < n)
      /\ ~(k >= n) => (k < e <=> k < L) /\ k < n
  BY <1>1, <1>6
<1>8. CASE k >= n
  BY <1>2, <1>4, <1>7, <1>8, Zenon DEF PaddedAt, d
<1>9. CASE ~(k >= n)
  BY <1>4, <1>5, <1>7, <1>9, Zenon DEF PaddedAt, d
<1> QED  BY <1>8, <1>9

\* memcpy, memmove and memset write the bytes they are asked to and no other,
\* strncpy pads with NULs, and strncmp tells strings by their first n
\* characters, for areas and alignments in a memory of every size and for all
\* strings (lib.c:353-567).
THEOREM CopiesAreExact == Memory \in Nat /\ call \in Calls => CopiesExactly
<1> SUFFICES ASSUME Memory \in Nat, call \in Calls PROVE CopiesExactly
  OBVIOUS
<1> DEFINE top == 2 * Memory + 2
           m == [a \in 0..top |-> a + 1]
           d == call.dest
           s == call.src
           n == call.n
           t1 == call.s1
           t2 == call.s2
           wanted == [a \in 0..top |-> IF a \in d..(d + n - 1) THEN m[a - d + s] ELSE m[a]]
           copy == strncpy([k \in 0..9 |-> 98], t1, n)
<1>1. d \in 0..Memory /\ s \in 0..Memory /\ n \in 0..(Memory + 2)
      /\ t1 \in Seq(Characters) /\ t2 \in Seq(Characters)
  <2>1. call \in [v : 0..(Word - 1), dest : 0..Memory, src : 0..Memory, n : 0..(Memory + 2),
                   s1 : Seq(Characters), s2 : Seq(Characters)]
    BY Zenon DEF Calls
  <2>2. d \in 0..Memory
    BY <2>1
  <2>3. s \in 0..Memory
    BY <2>1
  <2>4. n \in 0..(Memory + 2)
    BY <2>1
  <2>5. t1 \in Seq(Characters)
    BY <2>1
  <2>6. t2 \in Seq(Characters)
    BY <2>1
  <2> QED  BY <2>2, <2>3, <2>4, <2>5, <2>6
<1>2. top \in Nat /\ m = [a \in 0..top |-> m[a]] /\ DOMAIN m = 0..top
  <2>1. top \in Nat
    OBVIOUS
  <2> HIDE DEF top
  <2> QED  BY <2>1, Zenon
<1>3. CopiesExactly
        <=> /\ memmove(m, d, s, n) = wanted
            /\ s + n <= d \/ d + n <= s => memcpy(m, d, s, n) = wanted
            /\ memset(m, d, 511, n) = [a \in 0..top |-> IF a \in d..(d + n - 1) THEN 255 ELSE m[a]]
            /\ \A k \in 0..9 : copy[k] = IF k >= n THEN 98 ELSE CharAt(t1, k)
            /\ strncmp(t1, t2, n) = 0 <=> FirstOf(t1, n) = FirstOf(t2, n)
            /\ strncmp(t1, t2, n) = -strncmp(t2, t1, n)
  BY <1>2, Zenon DEF CopiesExactly, FirstOf
<1>4. d \in Nat /\ s \in Nat /\ n \in Nat /\ s + n <= top + 1
  BY <1>1
<1> HIDE DEF m, d, s, n, t1, t2, wanted, copy, top
<1>5. MovedBytes(m, d, s, 0, n) = wanted
  <2>1. MovedBytes(m, d, s, 0, n)
          = [a \in 0..top |-> IF a - d \in 0..(n - 1) THEN m[a - d + s] ELSE m[a]]
    BY <1>2, Zenon DEF MovedBytes
  <2>2. ASSUME NEW a \in 0..top PROVE a - d \in 0..(n - 1) <=> a \in d..(d + n - 1)
    BY <1>2, <1>4
  <2>3. wanted = [a \in 0..top |-> IF a \in d..(d + n - 1) THEN m[a - d + s] ELSE m[a]]
    BY Zenon DEF wanted
  <2> QED  BY <2>1, <2>2, <2>3
<1>6. memmove(m, d, s, n) = wanted
  <2>1. memmove(m, d, s, n) = MovedBytes(m, d, s, 0, n)
    BY <1>2, <1>4, MemmoveMoves
  <2> QED  BY <1>5, <2>1, Zenon
<1>7. ASSUME s + n <= d \/ d + n <= s PROVE memcpy(m, d, s, n) = wanted
  <2>1. memcpy(m, d, s, n) = MovedBytes(m, d, s, 0, n)
    BY <1>2, <1>4, <1>7, MemcpyMoves
  <2> QED  BY <1>5, <2>1, Zenon
<1>8. memset(m, d, 511, n) = [a \in 0..top |-> IF a \in d..(d + n - 1) THEN 255 ELSE m[a]]
  <2>1. 255 = 511 % 256
    OBVIOUS
  <2>2. memset(m, d, 511, n) = FilledArea(m, d, d + n - 1, 255)
    <3> DEFINE ch == 511
               byte == 255
    <3>1. byte = ch % 256
      BY <2>1
    <3> HIDE DEF ch, byte
    <3>2. memset(m, d, ch, n) = FilledArea(m, d, d + n - 1, byte)
      BY <1>2, <1>4, <3>1, MemsetFills
    <3> QED  BY <3>2, Zenon DEF ch, byte
  <2>3. FilledArea(m, d, d + n - 1, 255)
          = [a \in 0..top |-> IF a \in d..(d + n - 1) THEN 255 ELSE m[a]]
    BY <1>2, Zenon DEF FilledArea
  <2> QED  BY <2>2, <2>3, Zenon
<1>9. ASSUME NEW k \in 0..9 PROVE copy[k] = IF k >= n THEN 98 ELSE CharAt(t1, k)
  <2>1. copy = strncpy(Letters(9), t1, n)
    BY Zenon DEF copy, Letters
  <2>2. strncpy(Letters(9), t1, n)[k] = PaddedAt(t1, n, k)
    <3>1. 9 \in Nat
      OBVIOUS
    <3> QED  BY <1>1, <1>4, <3>1, StrncpyPads
  <2> QED  BY <2>1, <2>2, Zenon DEF PaddedAt
<1>10. strncmp(t1, t2, n) = 0 <=> FirstOf(t1, n) = FirstOf(t2, n)
  BY <1>1, <1>4, StrncmpZero
<1>11. strncmp(t1, t2, n) = -strncmp(t2, t1, n)
  BY <1>1, <1>4, StrncmpTurns
<1> QED  BY <1>3, <1>6, <1>7, <1>8, <1>9, <1>10, <1>11, Zenon

-----------------------------------------------------------------------------
(* The numbers that printf prints (Library).                               *)

LEMMA LookupFacts ==
  ASSUME NEW d \in 0..35
  PROVE  lookup(d) \in Int /\ DigitOf(lookup(d)) = d /\ (lookup(d) = lookup(0) => d = 0)
<1>1. ASSUME NEW x \in 0..35
      PROVE  lookup(x) \in Int /\ (lookup(x) = lookup(d) => x = d)
  BY DEF lookup
<1>2. DigitOf(lookup(d)) \in 0..35 /\ lookup(DigitOf(lookup(d))) = lookup(d)
  BY Zenon DEF DigitOf
<1>3. 0 \in 0..35
  OBVIOUS
<1>4. lookup(d) \in Int
  BY <1>1, Zenon
<1>5. DigitOf(lookup(d)) = d
  BY <1>1, <1>2, Zenon
<1>6. lookup(d) = lookup(0) => 0 = d
  BY <1>1, <1>3, Zenon
<1> QED  BY <1>4, <1>5, <1>6, Zenon

Radixes == {2, 10, 16}

LEMMA DivFacts ==
  ASSUME NEW r \in Radixes, NEW n \in Nat
  PROVE  /\ n \div r \in Nat /\ n % r \in 0..(r - 1) /\ n % r \in 0..35
         /\ n = r * (n \div r) + (n % r)
         /\ n # 0 => n \div r < n
         /\ n \div r = 0 => n % r = n
<1>1. CASE r = 2
  BY <1>1
<1>2. CASE r = 10
  BY <1>2
<1>3. CASE r = 16
  BY <1>3
<1> QED  BY <1>1, <1>2, <1>3 DEF Radixes

ValueBody(s, r, f) ==
  [k \in 0..Len(s) |-> IF k = 0 THEN 0 ELSE r * f[k - 1] + DigitOf(s[k])]
Value(s, r) == CHOOSE f : f = ValueBody(s, r, f)

LEMMA ValueIs ==
  ASSUME NEW s, NEW r
  PROVE  ValueOf(s, r) = Value(s, r)[Len(s)]
  BY DEF ValueOf, Value, ValueBody

\* f is the value of the first k digits.
ValuesTo(s, r, n, f) ==
  /\ f = [k \in 0..n |-> f[k]]
  /\ f[0] = 0
  /\ \A k \in 1..n : f[k] = r * f[k - 1] + DigitOf(s[k])

LEMMA ValuesExist ==
  ASSUME NEW s, NEW r, NEW N \in Nat
  PROVE  \E f : ValuesTo(s, r, N, f)
<1> DEFINE T == {n \in 0..N : \E f : ValuesTo(s, r, n, f)}
<1>1. 0 \in T
  <2> DEFINE f == [k \in 0..0 |-> 0]
  <2>1. f[0] = 0 /\ f = [k \in 0..0 |-> f[k]]
    OBVIOUS
  <2> HIDE DEF f
  <2>2. ValuesTo(s, r, 0, f)
    BY <2>1 DEF ValuesTo
  <2> QED  BY <2>2
<1>2. ASSUME NEW x \in 1..N, x - 1 \in T PROVE x \in T
  <2>1. x \in Nat /\ x - 1 \in Nat /\ x # 0
    OBVIOUS
  <2>2. PICK f : ValuesTo(s, r, x - 1, f)
    BY <1>2
  <2> DEFINE e == r * f[x - 1] + DigitOf(s[x])
             g == [k \in 0..x |-> IF k = x THEN e ELSE f[k]]
  <2> HIDE DEF e
  <2>3. g = [k \in 0..x |-> g[k]]
    BY Zenon
  <2>4. g[0] = 0
    <3>1. 0 \in 0..x /\ 0 # x
      BY <2>1
    <3>2. f[0] = 0
      BY <2>2, Zenon DEF ValuesTo
    <3> QED  BY <3>1, <3>2, Zenon
  <2>5. ASSUME NEW k \in 1..x PROVE g[k] = r * g[k - 1] + DigitOf(s[k])
    <3>1. k - 1 \in 0..x /\ k - 1 # x /\ k \in 0..x
      BY <2>1
    <3>2. g[k - 1] = f[k - 1]
      BY <3>1, Zenon
    <3>3. CASE k = x
      <4>1. g[k] = e
        BY <3>1, <3>3, Zenon
      <4> HIDE DEF g
      <4> QED  BY <3>2, <3>3, <4>1, Zenon DEF e
    <3>4. CASE k # x
      <4>1. g[k] = f[k]
        BY <3>1, <3>4, Zenon
      <4>2. k \in 1..(x - 1)
        BY <2>1, <3>4
      <4>3. f[k] = r * f[k - 1] + DigitOf(s[k])
        BY <2>2, <4>2, Zenon DEF ValuesTo
      <4> HIDE DEF g
      <4> QED  BY <3>2, <4>1, <4>3, Zenon
    <3> QED  BY <3>3, <3>4
  <2> HIDE DEF g
  <2>6. ValuesTo(s, r, x, g)
    BY <2>3, <2>4, <2>5, Zenon DEF ValuesTo
  <2> QED  BY <2>6
<1>3. N \in T
  <2>1. N \in 0..N
    OBVIOUS
  <2> HIDE DEF T
  <2> QED  BY <1>1, <1>2, <2>1, UpInduction
<1> QED  BY <1>3

\* The recursion that the value of a string obeys.
LEMMA ValueStep ==
  ASSUME NEW s, NEW r, NEW N \in Nat, Len(s) = N
  PROVE  /\ Value(s, r)[0] = 0
         /\ \A k \in 1..N : Value(s, r)[k] = r * Value(s, r)[k - 1] + DigitOf(s[k])
<1>1. PICK f : ValuesTo(s, r, N, f)
  BY ValuesExist
<1>2. f = ValueBody(s, r, f)
  <2>1. ASSUME NEW k \in 0..N
        PROVE  f[k] = IF k = 0 THEN 0 ELSE r * f[k - 1] + DigitOf(s[k])
    <3>1. k = 0 \/ k \in 1..N
      OBVIOUS
    <3>2. CASE k = 0
      BY <1>1, <3>2, Zenon DEF ValuesTo
    <3>3. CASE k \in 1..N
      <4>1. k # 0
        BY <3>3
      <4> QED  BY <1>1, <3>3, <4>1, Zenon DEF ValuesTo
    <3> QED  BY <3>1, <3>2, <3>3
  <2>2. f = [k \in 0..N |-> f[k]]
    BY <1>1, Zenon DEF ValuesTo
  <2>3. [k \in 0..N |-> f[k]] = [k \in 0..N |-> IF k = 0 THEN 0 ELSE r * f[k - 1] + DigitOf(s[k])]
    BY <2>1, Zenon
  <2> QED  BY <2>2, <2>3, Zenon DEF ValueBody
<1> DEFINE g == Value(s, r)
<1>3. g = ValueBody(s, r, g)
  BY <1>2, Zenon DEF Value
<1> HIDE DEF g
<1>4. ASSUME NEW k \in 0..N
      PROVE  g[k] = IF k = 0 THEN 0 ELSE r * g[k - 1] + DigitOf(s[k])
  <2>1. ValueBody(s, r, g)[k] = IF k = 0 THEN 0 ELSE r * g[k - 1] + DigitOf(s[k])
    BY Zenon DEF ValueBody
  <2> QED  BY <1>3, <2>1, Zenon
<1>5. 0 \in 0..N
  OBVIOUS
<1>6. g[0] = 0
  BY <1>4, <1>5, Zenon
<1>7. ASSUME NEW k \in 1..N PROVE g[k] = r * g[k - 1] + DigitOf(s[k])
  <2>1. k \in 0..N /\ k # 0
    OBVIOUS
  <2> QED  BY <1>4, <2>1, Zenon
<1> QED  BY <1>6, <1>7, Zenon DEF g

\* Strings whose digits agree from some place on, with the same value there.
LEMMA ValueAgrees ==
  ASSUME NEW s, NEW t, NEW r, NEW N \in Nat, NEW M \in Nat, Len(s) = N, Len(t) = M,
         NEW j \in Nat, NEW n \in 0..N, j + n <= M, Value(t, r)[j] = 0,
         \A k \in 1..n : t[j + k] = s[k]
  PROVE  Value(t, r)[j + n] = Value(s, r)[n]
<1> DEFINE T == {k \in 0..n : Value(t, r)[j + k] = Value(s, r)[k]}
           f == Value(s, r)
           g == Value(t, r)
<1>1. f[0] = 0 /\ \A k \in 1..N : f[k] = r * f[k - 1] + DigitOf(s[k])
  BY ValueStep
<1>2. \A k \in 1..M : g[k] = r * g[k - 1] + DigitOf(t[k])
  BY ValueStep
<1>3. n \in Nat
  OBVIOUS
<1>4. g[j] = 0
  OBVIOUS
<1>5. 0 \in T
  <2>1. 0 \in 0..n /\ j + 0 = j
    BY <1>3
  <2>2. g[j + 0] = f[0]
    BY <1>1, <1>4, <2>1, Zenon
  <2> QED  BY <2>1, <2>2
<1>6. ASSUME NEW k \in 1..n, k - 1 \in T PROVE k \in T
  <2>1. k \in 1..N /\ j + k \in 1..M /\ (j + k) - 1 = j + (k - 1) /\ k \in 0..n
    BY <1>3
  <2>2. g[j + (k - 1)] = f[k - 1]
    BY <1>6
  <2>3. g[j + k] = r * g[(j + k) - 1] + DigitOf(t[j + k])
    BY <1>2, <2>1, Zenon
  <2>4. f[k] = r * f[k - 1] + DigitOf(s[k])
    BY <1>1, <2>1, Zenon
  <2>5. t[j + k] = s[k]
    OBVIOUS
  <2>6. g[j + k] = f[k]
    BY <2>1, <2>2, <2>3, <2>4, <2>5, Zenon
  <2> QED  BY <2>1, <2>6
<1>7. n \in T
  <2>1. n \in 0..n
    BY <1>3
  <2> HIDE DEF T
  <2> QED  BY <1>3, <1>5, <1>6, <2>1, UpInduction
<1> QED  BY <1>7

LEMMA ValueAppend ==
  ASSUME NEW s \in Seq(Int), NEW d \in Int, NEW r
  PROVE  ValueOf(Append(s, d), r) = r * ValueOf(s, r) + DigitOf(d)
<1> DEFINE t == Append(s, d)
           N == Len(s)
<1>1. N \in Nat /\ N + 1 \in Nat /\ Len(t) = N + 1 /\ Len(s) = N
  OBVIOUS
<1>2. t[N + 1] = d /\ \A k \in 1..N : t[0 + k] = s[k]
  OBVIOUS
<1>3. N \in 0..N /\ 0 \in Nat /\ 0 + N <= N + 1 /\ 0 + N = N /\ N + 1 \in 1..(N + 1) /\ (N + 1) - 1 = N
  BY <1>1
<1>4. ValueOf(s, r) = Value(s, r)[N] /\ ValueOf(t, r) = Value(t, r)[N + 1]
  BY <1>1, ValueIs, Zenon
<1> HIDE DEF t, N
<1>5. /\ Value(t, r)[0] = 0
      /\ \A k \in 1..(N + 1) : Value(t, r)[k] = r * Value(t, r)[k - 1] + DigitOf(t[k])
  BY <1>1, ValueStep, Zenon
<1>6. Value(t, r)[0 + N] = Value(s, r)[N]
  BY <1>1, <1>2, <1>3, <1>5, ValueAgrees
<1>7. Value(t, r)[N + 1] = r * Value(t, r)[(N + 1) - 1] + DigitOf(t[N + 1])
  BY <1>3, <1>5, Zenon
<1>8. ValueOf(t, r) = r * ValueOf(s, r) + DigitOf(d)
  BY <1>2, <1>3, <1>4, <1>6, <1>7, Zenon
<1> QED  BY <1>8, Zenon DEF t

LEMMA ValueNone ==
  ASSUME NEW r
  PROVE  ValueOf(<<>>, r) = 0
<1>1. Len(<<>>) = 0 /\ 0 \in Nat
  OBVIOUS
<1>2. Value(<<>>, r)[0] = 0
  BY <1>1, ValueStep, Zenon
<1> QED  BY <1>1, <1>2, ValueIs, Zenon

LEMMA ReverseFacts ==
  ASSUME NEW s \in Seq(Int)
  PROVE  /\ Reverse(s) \in Seq(Int) /\ Len(Reverse(s)) = Len(s)
         /\ \A k \in 1..Len(s) : Reverse(s)[k] = s[(Len(s) - k) + 1]
  BY DEF Reverse

LEMMA ReverseCons ==
  ASSUME NEW s \in Seq(Int), NEW d \in Int
  PROVE  Reverse(<<d>> \o s) = Append(Reverse(s), d)
<1> DEFINE t == <<d>> \o s
           N == Len(s)
<1>1. /\ t \in Seq(Int) /\ N \in Nat /\ Len(t) = N + 1
      /\ t[1] = d /\ \A k \in 1..N : t[k + 1] = s[k]
  OBVIOUS
<1> HIDE DEF t
<1>2. /\ Reverse(t) \in Seq(Int) /\ Len(Reverse(t)) = N + 1
      /\ \A k \in 1..(N + 1) : Reverse(t)[k] = t[((N + 1) - k) + 1]
  <2>1. /\ Reverse(t) \in Seq(Int) /\ Len(Reverse(t)) = Len(t)
        /\ \A k \in 1..Len(t) : Reverse(t)[k] = t[(Len(t) - k) + 1]
    BY <1>1, ReverseFacts, Zenon
  <2> QED  BY <1>1, <2>1, Zenon
<1>3. /\ Reverse(s) \in Seq(Int) /\ Len(Reverse(s)) = N
      /\ \A k \in 1..N : Reverse(s)[k] = s[(N - k) + 1]
  BY ReverseFacts
<1> HIDE DEF N
<1>4. ASSUME NEW k \in 1..(N + 1) PROVE Reverse(t)[k] = Append(Reverse(s), d)[k]
  <2>1. CASE k = N + 1
    <3>1. Reverse(t)[k] = t[1]
      BY <1>1, <1>2, <2>1
    <3>2. Append(Reverse(s), d)[k] = d
      BY <1>3, <2>1
    <3> QED  BY <1>1, <3>1, <3>2
  <2>2. CASE k \in 1..N
    <3>1. (N - k) + 1 \in 1..N /\ ((N + 1) - k) + 1 = ((N - k) + 1) + 1
      BY <1>1, <2>2
    <3>2. t[((N - k) + 1) + 1] = s[(N - k) + 1]
      BY <1>1, <3>1
    <3>3. Append(Reverse(s), d)[k] = Reverse(s)[k]
      BY <1>1, <1>3, <2>2
    <3>4. k \in 1..(N + 1)
      OBVIOUS
    <3>5. Reverse(t)[k] = t[((N + 1) - k) + 1]
      BY <1>2, <3>4, Zenon
    <3>6. Reverse(s)[k] = s[(N - k) + 1]
      BY <1>3, <2>2, Zenon
    <3> QED  BY <3>1, <3>2, <3>3, <3>5, <3>6, Zenon
  <2>3. k = N + 1 \/ k \in 1..N
    BY <1>1
  <2> QED  BY <2>1, <2>2, <2>3, Zenon
<1>5. Append(Reverse(s), d) \in Seq(Int) /\ Len(Append(Reverse(s), d)) = N + 1
  BY <1>1, <1>3
<1>6. Reverse(t) = Append(Reverse(s), d)
  <2>1. \A u \in Seq(Int) : u = [k \in 1..Len(u) |-> u[k]]
    OBVIOUS
  <2>2. Reverse(t) = [k \in 1..(N + 1) |-> Reverse(t)[k]]
    BY <1>2, <2>1, Zenon
  <2>3. Append(Reverse(s), d) = [k \in 1..(N + 1) |-> Append(Reverse(s), d)[k]]
    BY <1>5, <2>1, Zenon
  <2>4. [k \in 1..(N + 1) |-> Reverse(t)[k]] = [k \in 1..(N + 1) |-> Append(Reverse(s), d)[k]]
    BY <1>4, Zenon
  <2> QED  BY <2>2, <2>3, <2>4, Zenon
<1> QED  BY <1>6, Zenon DEF t

\* The numbers of n hexadecimal digits, by their recursion.
HexTo(n, f) ==
  /\ f \in [0..n -> Nat] /\ f[0] = 1
  /\ \A k \in 1..n : f[k] = 16 * f[k - 1]

LEMMA HexExists ==
  ASSUME NEW N \in Nat
  PROVE  \E f : HexTo(N, f)
<1> DEFINE T == {n \in 0..N : \E f : HexTo(n, f)}
<1>1. 0 \in T
  <2>1. HexTo(0, [k \in 0..0 |-> 1])
    BY DEF HexTo
  <2> QED  BY <2>1
<1>2. ASSUME NEW x \in 1..N, x - 1 \in T PROVE x \in T
  <2>1. PICK f : HexTo(x - 1, f)
    BY <1>2
  <2> DEFINE g == [k \in 0..x |-> IF k = x THEN 16 * f[x - 1] ELSE f[k]]
  <2>2. /\ f \in [0..(x - 1) -> Nat] /\ f[0] = 1
        /\ \A k \in 1..(x - 1) : f[k] = 16 * f[k - 1]
    BY <2>1, Zenon DEF HexTo
  <2>3. g[x] = 16 * f[x - 1] /\ \A k \in 0..(x - 1) : g[k] = f[k]
    OBVIOUS
  <2>4. g \in [0..x -> Nat]
    <3>1. ASSUME NEW k \in 0..x PROVE (IF k = x THEN 16 * f[x - 1] ELSE f[k]) \in Nat
      <4>1. f[x - 1] \in Nat /\ (k # x => f[k] \in Nat)
        BY <2>2
      <4> QED  BY <4>1
    <3> QED  BY <3>1
  <2> HIDE DEF g
  <2>5. ASSUME NEW k \in 1..x PROVE g[k] = 16 * g[k - 1]
    <3>1. k - 1 \in 0..(x - 1) /\ (k # x => k \in 1..(x - 1) /\ k \in 0..(x - 1))
      OBVIOUS
    <3>2. g[k - 1] = f[k - 1]
      BY <2>3, <3>1
    <3>3. CASE k = x
      BY <2>3, <3>2, <3>3
    <3>4. CASE k # x
      BY <2>2, <2>3, <3>1, <3>2, <3>4
    <3> QED  BY <3>3, <3>4
  <2>6. g[0] = 1
    BY <2>2, <2>3
  <2>7. HexTo(x, g)
    BY <2>4, <2>5, <2>6 DEF HexTo
  <2> QED  BY <2>7
<1>3. N \in T
  <2>1. N \in 0..N
    OBVIOUS
  <2> HIDE DEF T
  <2> QED  BY <1>1, <1>2, <2>1, UpInduction
<1> QED  BY <1>3

HexBody(f) == [k \in 0..WIDTH |-> IF k = 0 THEN 1 ELSE 16 * f[k - 1]]

\* The powers of 16 up to the size of a word.
LEMMA HexStep ==
  /\ Hex[0] = 1
  /\ \A k \in 0..WIDTH : Hex[k] \in Nat /\ Hex[k] > 0
  /\ \A k \in 1..WIDTH : Hex[k] = 16 * Hex[k - 1]
<1>1. Hex = CHOOSE f : f = HexBody(f)
  BY DEF Hex, HexBody
<1>2. PICK f : HexTo(WIDTH, f)
  BY WidthAssumption, HexExists
<1>3. f = HexBody(f)
  BY <1>2, WidthAssumption DEF HexTo, HexBody
<1>4. Hex = HexBody(Hex)
  BY <1>1, <1>3, Zenon
<1>5. ASSUME NEW k \in 0..WIDTH PROVE Hex[k] = IF k = 0 THEN 1 ELSE 16 * Hex[k - 1]
  <2>1. HexBody(Hex)[k] = IF k = 0 THEN 1 ELSE 16 * Hex[k - 1]
    BY DEF HexBody
  <2> QED  BY <1>4, <2>1, Zenon
<1>6. Hex[0] = 1 /\ \A k \in 1..WIDTH : Hex[k] = 16 * Hex[k - 1]
  BY <1>5, WidthAssumption
<1> DEFINE T == {k \in 0..WIDTH : Hex[k] \in Nat /\ Hex[k] > 0}
<1>7. 0 \in T
  BY <1>6, WidthAssumption
<1>8. ASSUME NEW k \in 1..WIDTH, k - 1 \in T PROVE k \in T
  BY <1>6, <1>8, WidthAssumption
<1>9. \A k \in 0..WIDTH : k \in T
  <2> HIDE DEF T
  <2> QED  BY <1>7, <1>8, WidthAssumption, UpInduction
<1> QED  BY <1>6, <1>9

\* s holds the digits of n from the lowest place up: none for 0, and no
\* leading zero; in hexadecimal, no more than n needs.
LowDigits(s, r, n) ==
  /\ s \in Seq(Int)
  /\ ValueOf(Reverse(s), r) = n
  /\ n = 0 => s = <<>>
  /\ n # 0 => Len(s) > 0 /\ s[Len(s)] # lookup(0)
  /\ r = 16 => \A j \in 0..WIDTH : n < Hex[j] => Len(s) <= j

LEMMA DigitsNone ==
  ASSUME NEW r
  PROVE  LowDigits(<<>>, r, 0)
<1>1. Reverse(<<>>) = <<>>
  BY DEF Reverse
<1>2. ValueOf(Reverse(<<>>), r) = 0
  BY <1>1, ValueNone, Zenon
<1>3. <<>> \in Seq(Int) /\ Len(<<>>) = 0
  OBVIOUS
<1>4. \A j \in 0..WIDTH : Len(<<>>) <= j
  BY <1>3, WidthAssumption
<1> QED  BY <1>2, <1>3, <1>4, Zenon DEF LowDigits

LEMMA DigitsMore ==
  ASSUME NEW r \in Radixes, NEW n \in Nat \ {0}, NEW s, LowDigits(s, r, n \div r)
  PROVE  LowDigits(<<lookup(n % r)>> \o s, r, n)
<1> DEFINE q == n \div r
           d == n % r
           t == <<lookup(d)>> \o s
<1>1. /\ q \in Nat /\ d \in 0..(r - 1) /\ d \in 0..35 /\ n = r * q + d /\ q < n
      /\ q = 0 => d = n
  BY DivFacts
<1>2. /\ s \in Seq(Int) /\ ValueOf(Reverse(s), r) = q
      /\ q = 0 => s = <<>>
      /\ q # 0 => Len(s) > 0 /\ s[Len(s)] # lookup(0)
      /\ r = 16 => \A j \in 0..WIDTH : q < Hex[j] => Len(s) <= j
  BY Zenon DEF LowDigits
<1> HIDE DEF q, d
<1>3. lookup(d) \in Int /\ DigitOf(lookup(d)) = d /\ (lookup(d) = lookup(0) => d = 0)
  BY <1>1, LookupFacts
<1>4. /\ t \in Seq(Int) /\ Len(t) = Len(s) + 1 /\ t[1] = lookup(d)
      /\ Len(s) > 0 => t[Len(t)] = s[Len(s)]
  BY <1>2, <1>3
<1>5. ValueOf(Reverse(t), r) = n
  <2>1. Reverse(t) = Append(Reverse(s), lookup(d))
    BY <1>2, <1>3, ReverseCons
  <2>2. Reverse(s) \in Seq(Int)
    BY <1>2, ReverseFacts
  <2> HIDE DEF t
  <2>3. ValueOf(Reverse(t), r) = r * ValueOf(Reverse(s), r) + DigitOf(lookup(d))
    BY <1>3, <2>1, <2>2, ValueAppend
  <2>4. ValueOf(Reverse(t), r) = r * q + d
    BY <1>2, <1>3, <2>3, Zenon
  <2> QED  BY <1>1, <2>4, Zenon
<1>6. t[Len(t)] # lookup(0)
  <2>1. CASE q = 0
    <3>1. s = <<>> /\ Len(s) = 0
      BY <1>2, <2>1
    <3>2. Len(t) = 1
      BY <1>4, <3>1
    <3>3. d # 0
      BY <1>1, <2>1
    <3> QED  BY <1>3, <1>4, <3>2, <3>3
  <2>2. CASE q # 0
    BY <1>2, <1>4, <2>2, Zenon
  <2> QED  BY <2>1, <2>2
<1>7. ASSUME r = 16, NEW j \in 0..WIDTH, n < Hex[j] PROVE Len(t) <= j
  <2>1. Len(t) = Len(s) + 1 /\ Len(s) \in Nat /\ Len(t) \in Nat
    BY <1>2, <1>4
  <2>2. j \in 1..WIDTH /\ j - 1 \in 0..WIDTH /\ Hex[j] = 16 * Hex[j - 1] /\ Hex[j - 1] \in Nat
    BY <1>7, HexStep, WidthAssumption
  <2> DEFINE h == Hex[j - 1]
  <2>3. n < 16 * h /\ h \in Nat
    BY <1>7, <2>2
  <2> HIDE DEF h
  <2>4. q < h
    BY <1>1, <1>7, <2>3
  <2>5. Len(s) <= j - 1
    BY <1>2, <1>7, <2>2, <2>4, Zenon DEF h
  <2> HIDE DEF t
  <2> QED  BY <2>1, <2>2, <2>5
<1>8. n # 0 /\ Len(t) > 0
  BY <1>2, <1>4
<1> HIDE DEF t
<1>9. LowDigits(t, r, n)
  BY <1>4, <1>5, <1>6, <1>7, <1>8, Zenon DEF LowDigits
<1> QED  BY <1>9, Zenon DEF t, d

LowBody(v, r, f) ==
  [n \in 0..v |-> IF n = 0 THEN <<>> ELSE <<lookup(n % r)>> \o f[n \div r]]
Low(v, r) == CHOOSE f : f = LowBody(v, r, f)

LEMMA ItoaIs ==
  ASSUME NEW v, NEW r
  PROVE  itoa(v, r) = IF v = 0 THEN <<lookup(0)>> ELSE strrev(Low(v, r)[v])
  BY DEF itoa, Low, LowBody

\* f gives the digits of every number up to n.
LowTo(r, n, f) ==
  /\ f = [k \in 0..n |-> f[k]]
  /\ f[0] = <<>>
  /\ \A k \in 1..n : f[k] = <<lookup(k % r)>> \o f[k \div r]

LEMMA LowExists ==
  ASSUME NEW r \in Radixes, NEW N \in Nat
  PROVE  \E f : LowTo(r, N, f)
<1> DEFINE T == {n \in 0..N : \E f : LowTo(r, n, f)}
<1>1. 0 \in T
  <2> DEFINE f == [k \in 0..0 |-> <<>>]
  <2>1. f[0] = <<>> /\ f = [k \in 0..0 |-> f[k]]
    OBVIOUS
  <2> HIDE DEF f
  <2>2. LowTo(r, 0, f)
    BY <2>1 DEF LowTo
  <2> QED  BY <2>2
<1>2. ASSUME NEW x \in 1..N, x - 1 \in T PROVE x \in T
  <2>1. x \in Nat /\ x - 1 \in Nat /\ x # 0
    OBVIOUS
  <2>2. PICK f : LowTo(r, x - 1, f)
    BY <1>2
  <2> DEFINE e == <<lookup(x % r)>> \o f[x \div r]
             g == [k \in 0..x |-> IF k = x THEN e ELSE f[k]]
  <2> HIDE DEF e
  <2>3. g = [k \in 0..x |-> g[k]]
    BY Zenon
  <2>4. g[0] = <<>>
    <3>1. 0 \in 0..x /\ 0 # x
      BY <2>1
    <3>2. f[0] = <<>>
      BY <2>2, Zenon DEF LowTo
    <3> QED  BY <3>1, <3>2, Zenon
  <2>5. ASSUME NEW k \in 1..x PROVE g[k] = <<lookup(k % r)>> \o g[k \div r]
    <3>1. k \div r \in 0..x /\ k \div r # x /\ k \in 0..x
      <4>1. k \in Nat /\ k # 0 /\ k <= x
        BY <2>1
      <4>2. k \div r \in Nat /\ k \div r < k
        BY <4>1, DivFacts
      <4> QED  BY <2>1, <4>1, <4>2
    <3>2. g[k \div r] = f[k \div r]
      BY <3>1, Zenon
    <3>3. CASE k = x
      <4>1. g[k] = e
        BY <3>1, <3>3, Zenon
      <4> HIDE DEF g
      <4> QED  BY <3>2, <3>3, <4>1, Zenon DEF e
    <3>4. CASE k # x
      <4>1. g[k] = f[k]
        BY <3>1, <3>4, Zenon
      <4>2. k \in 1..(x - 1)
        BY <2>1, <3>4
      <4>3. f[k] = <<lookup(k % r)>> \o f[k \div r]
        BY <2>2, <4>2, Zenon DEF LowTo
      <4> HIDE DEF g
      <4> QED  BY <3>2, <4>1, <4>3, Zenon
    <3> QED  BY <3>3, <3>4
  <2> HIDE DEF g
  <2>6. LowTo(r, x, g)
    BY <2>3, <2>4, <2>5, Zenon DEF LowTo
  <2> QED  BY <2>6
<1>3. N \in T
  <2>1. N \in 0..N
    OBVIOUS
  <2> HIDE DEF T
  <2> QED  BY <1>1, <1>2, <2>1, UpInduction
<1> QED  BY <1>3

\* The recursion that itoa's digits obey.
LEMMA LowStep ==
  ASSUME NEW r \in Radixes, NEW N \in Nat
  PROVE  /\ Low(N, r)[0] = <<>>
         /\ \A k \in 1..N : Low(N, r)[k] = <<lookup(k % r)>> \o Low(N, r)[k \div r]
<1>1. PICK f : LowTo(r, N, f)
  BY LowExists
<1>2. f = LowBody(N, r, f)
  <2>1. ASSUME NEW k \in 0..N
        PROVE  f[k] = IF k = 0 THEN <<>> ELSE <<lookup(k % r)>> \o f[k \div r]
    <3>1. k = 0 \/ k \in 1..N
      OBVIOUS
    <3>2. CASE k = 0
      BY <1>1, <3>2, Zenon DEF LowTo
    <3>3. CASE k \in 1..N
      <4>1. k # 0
        BY <3>3
      <4> QED  BY <1>1, <3>3, <4>1, Zenon DEF LowTo
    <3> QED  BY <3>1, <3>2, <3>3
  <2>2. f = [k \in 0..N |-> f[k]]
    BY <1>1, Zenon DEF LowTo
  <2>3. [k \in 0..N |-> f[k]] = [k \in 0..N |-> IF k = 0 THEN <<>> ELSE <<lookup(k % r)>> \o f[k \div r]]
    BY <2>1, Zenon
  <2> QED  BY <2>2, <2>3, Zenon DEF LowBody
<1> DEFINE g == Low(N, r)
<1>3. g = LowBody(N, r, g)
  BY <1>2, Zenon DEF Low
<1> HIDE DEF g
<1>4. ASSUME NEW k \in 0..N
      PROVE  g[k] = IF k = 0 THEN <<>> ELSE <<lookup(k % r)>> \o g[k \div r]
  <2>1. LowBody(N, r, g)[k] = IF k = 0 THEN <<>> ELSE <<lookup(k % r)>> \o g[k \div r]
    BY Zenon DEF LowBody
  <2> QED  BY <1>3, <2>1, Zenon
<1>5. 0 \in 0..N
  OBVIOUS
<1>6. g[0] = <<>>
  BY <1>4, <1>5, Zenon
<1>7. ASSUME NEW k \in 1..N PROVE g[k] = <<lookup(k % r)>> \o g[k \div r]
  <2>1. k \in 0..N /\ k # 0
    OBVIOUS
  <2> QED  BY <1>4, <2>1, Zenon
<1> QED  BY <1>6, <1>7, Zenon DEF g

LEMMA LowHolds ==
  ASSUME NEW r \in Radixes, NEW N \in Nat
  PROVE  LowDigits(Low(N, r)[N], r, N)
<1> DEFINE g == Low(N, r)
           T == {n \in 0..N : \A k \in 0..n : LowDigits(g[k], r, k)}
<1>1. g[0] = <<>> /\ \A k \in 1..N : g[k] = <<lookup(k % r)>> \o g[k \div r]
  BY LowStep
<1> HIDE DEF g
<1>2. 0 \in T
  <2>1. LowDigits(g[0], r, 0)
    BY <1>1, DigitsNone, Zenon
  <2>2. 0 \in 0..N /\ \A k \in 0..0 : k = 0
    OBVIOUS
  <2> QED  BY <2>1, <2>2, Zenon
<1>3. ASSUME NEW x \in 1..N, x - 1 \in T PROVE x \in T
  <2>1. x \in Nat \ {0} /\ x \in 0..N /\ \A k \in 0..x : k = x \/ k \in 0..(x - 1)
    OBVIOUS
  <2>2. \A k \in 0..(x - 1) : LowDigits(g[k], r, k)
    BY <1>3
  <2>3. x \div r \in 0..(x - 1)
    <3>1. x \div r \in Nat /\ x \div r < x
      BY <2>1, DivFacts
    <3> QED  BY <2>1, <3>1
  <2>4. LowDigits(g[x \div r], r, x \div r)
    BY <2>2, <2>3, Zenon
  <2>5. LowDigits(<<lookup(x % r)>> \o g[x \div r], r, x)
    BY <2>1, <2>4, DigitsMore, Zenon
  <2>6. LowDigits(g[x], r, x)
    BY <1>1, <2>5, Zenon
  <2> QED  BY <2>1, <2>2, <2>6, Zenon
<1>4. N \in T
  <2>1. N \in 0..N
    OBVIOUS
  <2> HIDE DEF T
  <2> QED  BY <1>2, <1>3, <2>1, UpInduction
<1>5. N \in 0..N
  OBVIOUS
<1> QED  BY <1>4, <1>5, Zenon DEF g

\* A string after the swaps of its b outermost pairs.
Turned(s, N, b) ==
  [k \in 1..N |-> IF k <= b \/ k > N - b THEN s[(N - k) + 1] ELSE s[k]]

TurnBody(s, f) ==
  [b \in 0..(Len(s) \div 2) |-> IF b = 0 THEN s ELSE Swap(f[b - 1], b, Len(s) + 1 - b)]
Turn(s) == CHOOSE f : f = TurnBody(s, f)

LEMMA StrrevIs ==
  ASSUME NEW s
  PROVE  strrev(s) = Turn(s)[Len(s) \div 2]
  BY DEF strrev, Turn, TurnBody

LEMMA TurnedSwap ==
  ASSUME NEW s, NEW N \in Nat, NEW b \in 1..(N \div 2)
  PROVE  Swap(Turned(s, N, b - 1), b, N + 1 - b) = Turned(s, N, b)
<1> DEFINE t == Turned(s, N, b - 1)
           e == N + 1 - b
<1>1. b \in 1..N /\ e \in 1..N /\ b < e /\ e = (N - b) + 1 /\ b = (N - e) + 1
  OBVIOUS
<1>2. t = [k \in 1..N |-> IF k <= b - 1 \/ k > N - (b - 1) THEN s[(N - k) + 1] ELSE s[k]]
  BY DEF Turned
<1>3. ~(b <= b - 1) /\ ~(b > N - (b - 1)) /\ ~(e <= b - 1) /\ ~(e > N - (b - 1))
  BY <1>1
<1>4. t[b] = s[b] /\ t[e] = s[e] /\ DOMAIN t = 1..N
  BY <1>1, <1>2, <1>3, Zenon
<1> HIDE DEF t
<1>5. Swap(t, b, e) = [k \in 1..N |-> IF k = e THEN s[b] ELSE IF k = b THEN s[e] ELSE t[k]]
  <2>1. Swap(t, b, e) = [k \in DOMAIN t |-> IF k = e THEN t[b] ELSE IF k = b THEN t[e] ELSE t[k]]
    <3> HIDE DEF e
    <3>1. b \in DOMAIN t /\ e \in DOMAIN t /\ b # e
      BY <1>1, <1>4
    <3> QED  BY <3>1 DEF Swap
  <2> QED  BY <1>4, <2>1, Zenon
<1>6. ASSUME NEW k \in 1..N
      PROVE  (IF k = e THEN s[b] ELSE IF k = b THEN s[e] ELSE t[k])
                = IF k <= b \/ k > N - b THEN s[(N - k) + 1] ELSE s[k]
  <2>1. t[k] = IF k <= b - 1 \/ k > N - (b - 1) THEN s[(N - k) + 1] ELSE s[k]
    BY <1>2, Zenon
  <2>2. CASE k = e
    <3>1. k > N - b
      BY <1>1, <2>2
    <3> QED  BY <1>1, <2>2, <3>1, Zenon
  <2>3. CASE k = b
    <3>1. k <= b /\ k # e
      BY <1>1, <2>3
    <3> QED  BY <1>1, <2>3, <3>1, Zenon
  <2>4. CASE k # e /\ k # b
    <3>1. (k <= b <=> k <= b - 1) /\ (k > N - b <=> k > N - (b - 1))
      BY <1>1, <2>4
    <3> QED  BY <2>1, <2>4, <3>1, Zenon
  <2> QED  BY <2>2, <2>3, <2>4, Zenon
<1>7. [k \in 1..N |-> IF k = e THEN s[b] ELSE IF k = b THEN s[e] ELSE t[k]]
        = [k \in 1..N |-> IF k <= b \/ k > N - b THEN s[(N - k) + 1] ELSE s[k]]
  BY <1>6, Zenon
<1> QED  BY <1>5, <1>7, Zenon DEF Turned, t, e

\* strrev reverses.
LEMMA StrrevReverses ==
  ASSUME NEW s \in Seq(Int)
  PROVE  strrev(s) = Reverse(s)
<1> DEFINE N == Len(s)
           H == N \div 2
           w == [b \in 0..H |-> Turned(s, N, b)]
           g == Turn(s)
<1>1. N \in Nat /\ s = [k \in 1..N |-> s[k]]
  OBVIOUS
<1>2. H \in Nat /\ Len(s) = N /\ Len(s) \div 2 = H
  BY <1>1
<1>3. Turned(s, N, 0) = s
  <2>1. ASSUME NEW k \in 1..N PROVE ~(k <= 0 \/ k > N - 0)
    BY <1>1
  <2> HIDE DEF N
  <2>2. [k \in 1..N |-> IF k <= 0 \/ k > N - 0 THEN s[(N - k) + 1] ELSE s[k]] = [k \in 1..N |-> s[k]]
    BY <2>1, Zenon
  <2> QED  BY <1>1, <2>2, Zenon DEF Turned
<1> HIDE DEF N
<1>4. ASSUME NEW b \in 1..H PROVE Swap(Turned(s, N, b - 1), b, N + 1 - b) = Turned(s, N, b)
  BY <1>1, TurnedSwap
<1> HIDE DEF H
<1>5. w = TurnBody(s, w)
  <2>1. ASSUME NEW b \in 0..H
        PROVE  Turned(s, N, b) = IF b = 0 THEN s ELSE Swap(w[b - 1], b, N + 1 - b)
    <3>1. CASE b = 0
      BY <1>3, <3>1, Zenon
    <3>2. CASE b # 0
      <4>1. b \in 1..H /\ b - 1 \in 0..H
        BY <1>2, <3>2
      <4>2. w[b - 1] = Turned(s, N, b - 1)
        BY <4>1, Zenon
      <4> HIDE DEF w
      <4> QED  BY <1>4, <3>2, <4>1, <4>2, Zenon
    <3> QED  BY <3>1, <3>2
  <2>2. w = [b \in 0..H |-> IF b = 0 THEN s ELSE Swap(w[b - 1], b, N + 1 - b)]
    BY <2>1, Zenon
  <2> HIDE DEF w
  <2> QED  BY <1>2, <2>2, Zenon DEF TurnBody
<1>6. g = TurnBody(s, g)
  <2> HIDE DEF w
  <2> QED  BY <1>5, Zenon DEF Turn
<1> HIDE DEF g
<1>7. ASSUME NEW b \in 0..H
      PROVE  g[b] = IF b = 0 THEN s ELSE Swap(g[b - 1], b, N + 1 - b)
  <2>1. TurnBody(s, g)[b] = IF b = 0 THEN s ELSE Swap(g[b - 1], b, N + 1 - b)
    BY <1>2, Zenon DEF TurnBody
  <2> QED  BY <1>6, <2>1, Zenon
<1> DEFINE T == {b \in 0..H : g[b] = Turned(s, N, b)}
<1>8. 0 \in T
  <2>1. 0 \in 0..H
    BY <1>2
  <2> QED  BY <1>3, <1>7, <2>1, Zenon
<1>9. ASSUME NEW b \in 1..H, b - 1 \in T PROVE b \in T
  <2>1. b \in 0..H /\ b # 0
    BY <1>2
  <2>2. g[b - 1] = Turned(s, N, b - 1)
    BY <1>9
  <2>3. g[b] = Turned(s, N, b)
    BY <1>4, <1>7, <2>1, <2>2, Zenon
  <2> QED  BY <2>1, <2>3
<1>10. H \in T
  <2>1. H \in 0..H
    BY <1>2
  <2> HIDE DEF T
  <2> QED  BY <1>2, <1>8, <1>9, <2>1, UpInduction
<1>11. Turned(s, N, H) = [k \in 1..N |-> s[(N - k) + 1]]
  <2>1. ASSUME NEW k \in 1..N
        PROVE  (IF k <= H \/ k > N - H THEN s[(N - k) + 1] ELSE s[k]) = s[(N - k) + 1]
    <3>1. k <= H \/ k > N - H \/ k = (N - k) + 1
      BY <1>1 DEF H
    <3> QED  BY <3>1, Zenon
  <2>2. [k \in 1..N |-> IF k <= H \/ k > N - H THEN s[(N - k) + 1] ELSE s[k]]
          = [k \in 1..N |-> s[(N - k) + 1]]
    BY <2>1, Zenon
  <2> QED  BY <2>2, Zenon DEF Turned
<1>12. Reverse(s) = [k \in 1..N |-> s[(N - k) + 1]]
  BY <1>2, Zenon DEF Reverse
<1>13. strrev(s) = g[H]
  BY <1>2, StrrevIs, Zenon DEF g
<1> QED  BY <1>10, <1>11, <1>12, <1>13, Zenon

\* What itoa's digits show.
Shows(s, r, v) ==
  /\ s \in Seq(Int)
  /\ ValueOf(s, r) = v
  /\ Len(s) > 0
  /\ s[1] = lookup(0) => Len(s) = 1
  /\ r = 16 /\ v < Word => Len(s) <= WIDTH

LEMMA ItoaShows ==
  ASSUME NEW r \in Radixes, NEW v \in Nat
  PROVE  Shows(itoa(v, r), r, v)
<1>1. CASE v = 0
  <2>1. 0 \in 0..35
    OBVIOUS
  <2>2. lookup(0) \in Int /\ DigitOf(lookup(0)) = 0
    BY <2>1, LookupFacts
  <2> DEFINE z == lookup(0)
             s == <<z>>
  <2>3. itoa(v, r) = s
    BY <1>1, ItoaIs
  <2> HIDE DEF z
  <2>4. s \in Seq(Int) /\ Len(s) = 1 /\ <<>> \in Seq(Int) /\ s = Append(<<>>, z)
    BY <2>2 DEF z
  <2>5. r * 0 + 0 = 0
    BY DEF Radixes
  <2>6. ValueOf(s, r) = 0
    <3> HIDE DEF s
    <3>1. ValueOf(s, r) = r * ValueOf(<<>>, r) + DigitOf(z)
      BY <2>2, <2>4, ValueAppend DEF z
    <3>2. ValueOf(s, r) = r * 0 + 0
      BY <2>2, <3>1, ValueNone, Zenon DEF z
    <3> QED  BY <2>5, <3>2, Zenon
  <2> HIDE DEF s
  <2>7. Len(s) > 0 /\ Len(s) <= WIDTH
    BY <2>4, WidthAssumption
  <2> QED  BY <1>1, <2>3, <2>4, <2>6, <2>7, Zenon DEF Shows
<1>2. CASE v # 0
  <2> DEFINE s == Low(v, r)[v]
  <2>1. LowDigits(s, r, v)
    BY LowHolds
  <2>2. itoa(v, r) = strrev(s)
    BY <1>2, ItoaIs, Zenon
  <2> HIDE DEF s
  <2>3. /\ s \in Seq(Int) /\ ValueOf(Reverse(s), r) = v
        /\ Len(s) > 0 /\ s[Len(s)] # lookup(0)
        /\ r = 16 /\ v < Word => Len(s) <= WIDTH
    <3>1. WIDTH \in 0..WIDTH
      BY WidthAssumption
    <3> QED  BY <1>2, <2>1, <3>1, Zenon DEF LowDigits, Word
  <2>4. itoa(v, r) = Reverse(s)
    BY <2>2, <2>3, StrrevReverses, Zenon
  <2>5. Reverse(s) \in Seq(Int) /\ Len(Reverse(s)) = Len(s) /\ Reverse(s)[1] = s[Len(s)]
    <3>1. 1 \in 1..Len(s) /\ (Len(s) - 1) + 1 = Len(s)
      BY <2>3
    <3>2. /\ Reverse(s) \in Seq(Int) /\ Len(Reverse(s)) = Len(s)
          /\ \A k \in 1..Len(s) : Reverse(s)[k] = s[(Len(s) - k) + 1]
      BY <2>3, ReverseFacts, Zenon
    <3> QED  BY <3>1, <3>2, Zenon
  <2> QED  BY <2>3, <2>4, <2>5, Zenon DEF Shows
<1> QED  BY <1>1, <1>2

\* W characters that end in the L digits of s.
WithZeros(s, L, W) ==
  [k \in 1..W |-> IF k <= W - L THEN lookup(0) ELSE s[k - (W - L)]]

Padded(s, L, W) ==
  [k \in 1..W |->
     [x \in L..(W + L - 1) |-> IF x < W THEN lookup(0) ELSE s[x - W + 1]][L + k - 1]]

LEMMA PaddedIs ==
  ASSUME NEW v, NEW W \in Nat, NEW L \in 1..W, Len(itoa(v, 16)) = L
  PROVE  PrintPadded(v, W) = WithZeros(itoa(v, 16), L, W)
<1> DEFINE s == itoa(v, 16)
           buf == [x \in L..(W + L - 1) |-> IF x < W THEN lookup(0) ELSE s[x - W + 1]]
<1>1. PrintPadded(v, W) = [k \in 1..W |-> buf[L + k - 1]]
  <2>1. PrintPadded(v, W) = Padded(s, Len(s), W)
    BY DEF PrintPadded, Padded
  <2>2. Len(s) = L
    OBVIOUS
  <2>3. PrintPadded(v, W) = Padded(s, L, W)
    BY <2>1, <2>2, Zenon
  <2> QED  BY <2>3 DEF Padded
<1>2. ASSUME NEW k \in 1..W
      PROVE  buf[L + k - 1] = IF k <= W - L THEN lookup(0) ELSE s[k - (W - L)]
  <2> DEFINE x == L + k - 1
  <2>1. x \in L..(W + L - 1) /\ (x < W <=> k <= W - L) /\ x - W + 1 = k - (W - L)
    OBVIOUS
  <2> HIDE DEF x, s
  <2>2. buf[x] = IF x < W THEN lookup(0) ELSE s[x - W + 1]
    BY <2>1, Zenon
  <2>3. buf[x] = IF k <= W - L THEN lookup(0) ELSE s[k - (W - L)]
    <3> HIDE DEF buf
    <3> QED  BY <2>1, <2>2, Zenon
  <2> QED  BY <2>3, Zenon DEF x
<1> HIDE DEF buf, s
<1>3. [k \in 1..W |-> buf[L + k - 1]]
        = [k \in 1..W |-> IF k <= W - L THEN lookup(0) ELSE s[k - (W - L)]]
  BY <1>2, Zenon
<1> QED  BY <1>1, <1>3, Zenon DEF WithZeros, s

\* Zeros in front leave the value alone.
LEMMA ZerosKeepValue ==
  ASSUME NEW r \in Radixes, NEW W \in Nat, NEW L \in 1..W, NEW s, Len(s) = L
  PROVE  Len(WithZeros(s, L, W)) = W /\ ValueOf(WithZeros(s, L, W), r) = ValueOf(s, r)
<1> DEFINE t == WithZeros(s, L, W)
           j == W - L
           g == Value(t, r)
           T == {k \in 0..j : g[k] = 0}
<1>1. /\ j \in Nat /\ j + L = W /\ L \in Nat /\ L \in 0..L /\ j + L <= W
      /\ \A k \in 1..j : k \in 1..W /\ k <= W - L
      /\ \A k \in 1..L : j + k \in 1..W /\ ~(j + k <= W - L) /\ (j + k) - (W - L) = k
  OBVIOUS
<1>2. Len(t) = W
  BY DEF WithZeros
<1>3. /\ \A k \in 1..j : t[k] = lookup(0)
      /\ \A k \in 1..L : t[j + k] = s[k]
  <2>1. ASSUME NEW k \in 1..W
        PROVE  t[k] = IF k <= W - L THEN lookup(0) ELSE s[k - (W - L)]
    BY Zenon DEF WithZeros
  <2> HIDE DEF t
  <2>2. ASSUME NEW k \in 1..j PROVE t[k] = lookup(0)
    BY <1>1, <2>1, Zenon
  <2>3. ASSUME NEW k \in 1..L PROVE t[j + k] = s[k]
    <3>1. t[j + k] = s[(j + k) - (W - L)]
      BY <1>1, <2>1, Zenon
    <3> QED  BY <1>1, <3>1, Zenon
  <2> QED  BY <2>2, <2>3, Zenon
<1> HIDE DEF t, j
<1>4. g[0] = 0 /\ \A k \in 1..W : g[k] = r * g[k - 1] + DigitOf(t[k])
  BY <1>2, ValueStep, Zenon
<1>5. DigitOf(lookup(0)) = 0
  <2>1. 0 \in 0..35
    OBVIOUS
  <2> QED  BY <2>1, LookupFacts
<1>6. r * 0 + 0 = 0
  BY DEF Radixes
<1> HIDE DEF g
<1>7. 0 \in T
  BY <1>1, <1>4
<1>8. ASSUME NEW k \in 1..j, k - 1 \in T PROVE k \in T
  <2>1. k \in 0..j
    BY <1>1
  <2>2. g[k - 1] = 0
    BY <1>8
  <2>3. g[k] = 0
    <3>1. k \in 1..W /\ t[k] = lookup(0)
      BY <1>1, <1>3, Zenon
    <3>2. DigitOf(t[k]) = 0
      BY <1>5, <3>1, Zenon
    <3>3. g[k] = r * g[k - 1] + DigitOf(t[k])
      BY <1>4, <3>1, Zenon
    <3> QED  BY <1>6, <2>2, <3>2, <3>3, Zenon
  <2> QED  BY <2>1, <2>3
<1>9. g[j] = 0
  <2>1. j \in 0..j
    BY <1>1
  <2>2. j \in T
    <3> HIDE DEF T
    <3> QED  BY <1>1, <1>7, <1>8, <2>1, UpInduction
  <2> QED  BY <2>2
<1>10. Value(t, r)[j] = 0
  BY <1>9, Zenon DEF g
<1>11. Value(t, r)[j + L] = Value(s, r)[L]
  BY <1>1, <1>2, <1>3, <1>10, ValueAgrees
<1>12. ValueOf(t, r) = Value(t, r)[W] /\ ValueOf(s, r) = Value(s, r)[L]
  BY <1>2, ValueIs, Zenon
<1>13. Len(t) = W /\ ValueOf(t, r) = ValueOf(s, r)
  BY <1>1, <1>2, <1>11, <1>12, Zenon
<1> QED  BY <1>13, Zenon DEF t

\* printf's numbers read back, for every word of every width, the least signed
\* number included, in every radix that printf uses (lib.c:142-186, 285-340):
\* itoa's digits are those of the recursion on value / radix, strrev turns
\* them, and a word below 16^WIDTH has at most WIDTH of them.
THEOREM NumbersAlwaysReadBack == call \in Calls => NumbersReadBack
<1> SUFFICES ASSUME call \in Calls PROVE NumbersReadBack
  OBVIOUS
<1> DEFINE v == call.v
           half == Word \div 2
           out == PrintSigned(v, Word)
<1>1. WIDTH \in Nat \ {0}
  BY WidthAssumption
<1>w. /\ Word \in Nat /\ half \in Nat /\ half > 0 /\ half + half = Word
      /\ \A u \in 0..(Word - 1) : u % Word = u
  <2>1. PICK h \in Nat : h > 0 /\ Word = 16 * h
    BY <1>1, HexStep DEF Word
  <2>2. half = 8 * h
    BY <2>1
  <2>3. Word \in Nat /\ half \in Nat /\ half > 0 /\ half + half = Word
    BY <2>1, <2>2
  <2> HIDE DEF half
  <2> DEFINE w == Word
  <2>4. w \in Nat /\ w > 0
    BY <2>3
  <2> HIDE DEF w
  <2>5. \A u \in 0..(w - 1) : u % w = u
    BY <2>4
  <2> QED  BY <2>3, <2>5 DEF w
<1>a. v \in Nat /\ v < Word
  <2>1. v \in 0..(Word - 1)
    BY Zenon DEF Calls
  <2> HIDE DEF v
  <2> QED  BY <1>w, <2>1
<1> HIDE DEF v, half
<1>2. ASSUME NEW r \in {2, 10, 16}
      PROVE  ValueOf(itoa(v, r), r) = v /\ (itoa(v, r)[1] = lookup(0) => Len(itoa(v, r)) = 1)
  <2>1. Shows(itoa(v, r), r, v)
    BY <1>a, ItoaShows DEF Radixes
  <2> QED  BY <2>1, Zenon DEF Shows
<1>3. Len(PrintPadded(v, WIDTH)) = WIDTH /\ ValueOf(PrintPadded(v, WIDTH), 16) = v
  <2> DEFINE s == itoa(v, 16)
             L == Len(s)
  <2>1. 16 \in Radixes
    BY DEF Radixes
  <2>2. Shows(s, 16, v)
    BY <1>a, <2>1, ItoaShows
  <2> HIDE DEF s
  <2>3. s \in Seq(Int) /\ ValueOf(s, 16) = v /\ Len(s) > 0 /\ Len(s) <= WIDTH
    BY <1>a, <2>2, Zenon DEF Shows
  <2>4. L \in 1..WIDTH /\ Len(s) = L
    <3>1. L \in Nat /\ L > 0 /\ L <= WIDTH
      BY <2>3
    <3> HIDE DEF L
    <3>2. L \in 1..WIDTH
      BY <1>1, <3>1
    <3> QED  BY <3>2, Zenon DEF L
  <2> HIDE DEF L
  <2>5. PrintPadded(v, WIDTH) = WithZeros(s, L, WIDTH)
    BY <1>1, <2>4, PaddedIs DEF s
  <2>6. Len(WithZeros(s, L, WIDTH)) = WIDTH /\ ValueOf(WithZeros(s, L, WIDTH), 16) = ValueOf(s, 16)
    BY <1>1, <2>1, <2>4, ZerosKeepValue
  <2> QED  BY <2>3, <2>5, <2>6, Zenon
<1>4. ASSUME v < half PROVE ValueOf(out, 10) = v
  <2>1. ~(v >= half)
    BY <1>a, <1>w, <1>4
  <2>2. out = itoa(v, 10)
    BY <2>1 DEF PrintSigned, half
  <2>3. 10 \in {2, 10, 16}
    OBVIOUS
  <2> QED  BY <1>2, <2>2, <2>3
<1>5. ASSUME ~(v < half) PROVE out[1] = 45 /\ ValueOf(Tail(out), 10) = Word - v
  <2> DEFINE u == Word - v
             s == itoa(u, 10)
  <2>1. v >= half /\ u \in Nat /\ u \in 0..(Word - 1)
    BY <1>a, <1>w, <1>5
  <2>a. (Word - v) % Word = u
    BY <1>w, <2>1
  <2>2. out = <<45>> \o s
    BY <2>1, <2>a DEF PrintSigned, half
  <2>3. 10 \in Radixes
    BY DEF Radixes
  <2> HIDE DEF u, out
  <2>4. Shows(s, 10, u)
    BY <2>1, <2>3, ItoaShows
  <2> HIDE DEF s
  <2>5. s \in Seq(Int) /\ ValueOf(s, 10) = u
    BY <2>4, Zenon DEF Shows
  <2>6. (<<45>> \o s)[1] = 45 /\ Tail(<<45>> \o s) = s
    BY <2>5
  <2> QED  BY <2>2, <2>5, <2>6 DEF u
<1>6. NumbersReadBack
  BY <1>2, <1>3, <1>4, <1>5, Zenon DEF NumbersReadBack, v, half
<1> QED  BY <1>6
=============================================================================
