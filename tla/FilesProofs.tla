----------------------------- MODULE FilesProofs -----------------------------
(***************************************************************************)
(* Proofs about Files, for every image, every number of descriptors and    *)
(* every size and name asked for.                                          *)
(***************************************************************************)
EXTENDS Files, WellFoundedInduction, TLAPS

-----------------------------------------------------------------------------
(***************************************************************************)
(* Induction, by a least counterexample                                    *)
(***************************************************************************)
LEMMA LeastElement ==
  ASSUME NEW T, T \subseteq Nat, T # {}
  PROVE  \E x \in T : \A y \in T : x <= y
<1> DEFINE R == OpToRel(<, Nat)
<1>1. IsWellFoundedOn(R, Nat)
  BY NatLessThanWellFounded
<1>2. PICK x \in T : \A y \in T : ~(<<y, x>> \in R)
  <2> HIDE DEF R
  <2> QED  BY <1>1, WFMin
<1>3. \A y \in Nat : y < x => <<y, x>> \in R
  BY DEF OpToRel
<1> HIDE DEF R
<1>4. \A y \in T : ~(y < x)
  BY <1>2, <1>3
<1>5. ASSUME NEW a \in Nat, NEW b \in Nat, ~(b < a) PROVE a <= b
  BY <1>5
<1> QED  BY <1>2, <1>4, <1>5

-----------------------------------------------------------------------------
(***************************************************************************)
(* What a file holds                                                       *)
(***************************************************************************)
\* n bytes of a file from an offset on, each where read_data finds it.
Slice(inode, offset, n) == [k \in 1..n |-> Byte(inode, offset + k - 1)]

BlockOf(inode, k) == Blocks[Inodes[inode].data_block_nums[k]]
NumBlocks(inode) == Len(Inodes[inode].data_block_nums)
Room(inode) == NumBlocks(inode) * DATA_BLOCK_SIZE
Within(inode, offset, n) == offset + n <= Room(inode)

LEMMA DivMod ==
  ASSUME NEW D \in Nat \ {0}, NEW b \in Nat, NEW r \in Nat, r < D
  PROVE  (b * D + r) \div D = b /\ (b * D + r) % D = r
OBVIOUS

LEMMA ImageTypes ==
  ASSUME NEW inode \in DOMAIN Inodes
  PROVE  /\ DATA_BLOCK_SIZE \in Nat \ {0}
         /\ NumBlocks(inode) \in Nat
         /\ Room(inode) \in Nat
         /\ Inodes[inode].length \in Nat /\ Inodes[inode].length <= Room(inode)
         /\ \A k \in 1..NumBlocks(inode) :
              BlockOf(inode, k) \in Seq(Bytes) /\ Len(BlockOf(inode, k)) = DATA_BLOCK_SIZE
<1>1. DATA_BLOCK_SIZE \in Nat \ {0}
  BY FilesAssumption
<1>2. NumBlocks(inode) \in Nat
  BY ImageAssumption DEF NumBlocks
<1>3. ASSUME NEW x \in Nat, NEW y \in Nat PROVE x * y \in Nat /\ x * y = y * x
  OBVIOUS
<1>4. Room(inode) \in Nat /\ Room(inode) = DATA_BLOCK_SIZE * NumBlocks(inode)
  BY <1>1, <1>2, <1>3 DEF Room
<1>5. Inodes[inode].length \in Nat /\ Inodes[inode].length <= Room(inode)
  BY <1>4, ImageAssumption DEF NumBlocks
<1>6. ASSUME NEW k \in 1..NumBlocks(inode)
      PROVE  BlockOf(inode, k) \in Seq(Bytes) /\ Len(BlockOf(inode, k)) = DATA_BLOCK_SIZE
  <2>1. Inodes[inode].data_block_nums[k] \in DOMAIN Blocks
    BY ImageAssumption DEF NumBlocks
  <2> QED  BY <2>1, ImageAssumption DEF BlockOf
<1> QED  BY <1>1, <1>2, <1>4, <1>5, <1>6

\* A byte in block b + 1 of a file.
LEMMA ByteInBlock ==
  ASSUME NEW inode \in DOMAIN Inodes, NEW b \in Nat, NEW r \in Nat, r < DATA_BLOCK_SIZE
  PROVE  Byte(inode, b * DATA_BLOCK_SIZE + r) = BlockOf(inode, b + 1)[r + 1]
BY ImageTypes, DivMod DEF Byte, BlockOf

LEMMA ByteType ==
  ASSUME NEW inode \in DOMAIN Inodes, NEW offset \in Nat, offset < Room(inode)
  PROVE  Byte(inode, offset) \in Bytes
<1>1. ASSUME NEW D \in Nat \ {0}, NEW o \in Nat, NEW n \in Nat, o < n * D
      PROVE  /\ o \div D \in Nat /\ o \div D < n
             /\ o % D \in Nat /\ o % D < D
  BY <1>1
<1>2. /\ (offset \div DATA_BLOCK_SIZE) + 1 \in 1..NumBlocks(inode)
      /\ (offset % DATA_BLOCK_SIZE) + 1 \in 1..DATA_BLOCK_SIZE
  <2>1. /\ DATA_BLOCK_SIZE \in Nat \ {0} /\ NumBlocks(inode) \in Nat
        /\ offset < NumBlocks(inode) * DATA_BLOCK_SIZE
    BY ImageTypes DEF Room
  <2>2. /\ offset \div DATA_BLOCK_SIZE \in Nat /\ offset \div DATA_BLOCK_SIZE < NumBlocks(inode)
        /\ offset % DATA_BLOCK_SIZE \in Nat /\ offset % DATA_BLOCK_SIZE < DATA_BLOCK_SIZE
    BY <1>1, <2>1, Zenon
  <2>3. ASSUME NEW x \in Nat, NEW y \in Nat, x < y PROVE x + 1 \in 1..y
    BY <2>3
  <2> QED  BY <2>1, <2>2, <2>3, Zenon
<1>3. ASSUME NEW q \in Seq(Bytes), NEW j \in 1..Len(q) PROVE q[j] \in Bytes
  OBVIOUS
<1> QED  BY <1>2, <1>3, ImageTypes DEF Byte, BlockOf

-----------------------------------------------------------------------------
(***************************************************************************)
(* Slices                                                                  *)
(***************************************************************************)
LEMMA SliceType ==
  ASSUME NEW inode \in DOMAIN Inodes, NEW offset \in Nat, NEW n \in Nat,
         Within(inode, offset, n)
  PROVE  /\ Slice(inode, offset, n) \in Seq(Bytes)
         /\ Len(Slice(inode, offset, n)) = n
         /\ \A k \in 1..n : Slice(inode, offset, n)[k] = Byte(inode, offset + k - 1)
<1>1. Room(inode) \in Nat
  BY ImageTypes
<1>2. ASSUME NEW k \in 1..n PROVE Byte(inode, offset + k - 1) \in Bytes
  BY <1>1, ByteType DEF Within
<1> QED  BY <1>2 DEF Slice

\* Two sequences of the same length that agree everywhere.
LEMMA SameSeq ==
  ASSUME NEW S, NEW x \in Seq(S), NEW y \in Seq(S), Len(x) = Len(y),
         \A k \in 1..Len(x) : x[k] = y[k]
  PROVE  x = y
OBVIOUS

LEMMA JoinSeq ==
  ASSUME NEW S, NEW x \in Seq(S), NEW y \in Seq(S), NEW z \in Seq(S),
         Len(z) = Len(x) + Len(y),
         \A k \in 1..Len(x) : z[k] = x[k],
         \A k \in 1..Len(y) : z[Len(x) + k] = y[k]
  PROVE  x \o y = z
<1>1. x \o y \in Seq(S) /\ Len(x \o y) = Len(z)
  OBVIOUS
<1>2. ASSUME NEW k \in 1..Len(z) PROVE (x \o y)[k] = z[k]
  <2>1. CASE k <= Len(x)
    BY <2>1
  <2>2. CASE k > Len(x)
    <3>1. k - Len(x) \in 1..Len(y) /\ Len(x) + (k - Len(x)) = k
      BY <2>2
    <3>2. (x \o y)[k] = y[k - Len(x)]
      BY <2>2
    <3> QED  BY <3>1, <3>2
  <2> QED  BY <2>1, <2>2
<1>3. \A k \in 1..Len(x \o y) : (x \o y)[k] = z[k]
  BY <1>1, <1>2
<1> QED  BY <1>1, <1>3, SameSeq, Zenon

LEMMA SliceJoin ==
  ASSUME NEW inode \in DOMAIN Inodes, NEW o \in Nat, NEW m \in Nat, NEW n \in Nat,
         Within(inode, o, m + n)
  PROVE  Slice(inode, o, m) \o Slice(inode, o + m, n) = Slice(inode, o, m + n)
<1> DEFINE x == Slice(inode, o, m)  y == Slice(inode, o + m, n)  z == Slice(inode, o, m + n)
<1>1. /\ Within(inode, o, m) /\ Within(inode, o + m, n)
      /\ o + m \in Nat /\ m + n \in Nat
  BY ImageTypes DEF Within
<1>2. /\ x \in Seq(Bytes) /\ Len(x) = m
      /\ \A k \in 1..m : x[k] = Byte(inode, o + k - 1)
  BY <1>1, SliceType
<1>3. /\ y \in Seq(Bytes) /\ Len(y) = n
      /\ \A k \in 1..n : y[k] = Byte(inode, o + m + k - 1)
  BY <1>1, SliceType
<1>4. /\ z \in Seq(Bytes) /\ Len(z) = m + n
      /\ \A k \in 1..(m + n) : z[k] = Byte(inode, o + k - 1)
  BY <1>1, SliceType
<1> HIDE DEF x, y, z
<1>5. \A k \in 1..m : z[k] = x[k]
  BY <1>2, <1>4
<1>6. ASSUME NEW k \in 1..n PROVE z[m + k] = y[k]
  <2>1. m + k \in 1..(m + n) /\ o + (m + k) - 1 = o + m + k - 1
    OBVIOUS
  <2> QED  BY <1>3, <1>4, <2>1
<1>7. x \o y = z
  BY <1>2, <1>3, <1>4, <1>5, <1>6, JoinSeq
<1> QED  BY <1>7 DEF x, y, z

LEMMA SlicePrefix ==
  ASSUME NEW inode \in DOMAIN Inodes, NEW n \in Nat, NEW m \in Nat, n <= m,
         Within(inode, 0, m)
  PROVE  SubSeq(Slice(inode, 0, m), 1, n) = Slice(inode, 0, n)
<1> DEFINE x == Slice(inode, 0, m)  y == Slice(inode, 0, n)
<1>1. Within(inode, 0, n)
  BY ImageTypes DEF Within
<1>2. /\ x \in Seq(Bytes) /\ Len(x) = m
      /\ \A k \in 1..m : x[k] = Byte(inode, 0 + k - 1)
  BY <1>1, SliceType
<1>3. /\ y \in Seq(Bytes) /\ Len(y) = n
      /\ \A k \in 1..n : y[k] = Byte(inode, 0 + k - 1)
  BY <1>1, SliceType
<1> HIDE DEF x, y
<1>4. SubSeq(x, 1, n) = y
  BY <1>2, <1>3
<1> QED  BY <1>4 DEF x, y

\* A block is a slice of its file.
LEMMA BlockSlice ==
  ASSUME NEW inode \in DOMAIN Inodes, NEW b \in Nat, b < NumBlocks(inode)
  PROVE  /\ b * DATA_BLOCK_SIZE + DATA_BLOCK_SIZE = (b + 1) * DATA_BLOCK_SIZE
         /\ (b + 1) * DATA_BLOCK_SIZE <= Room(inode)
         /\ BlockOf(inode, b + 1) = Slice(inode, b * DATA_BLOCK_SIZE, DATA_BLOCK_SIZE)
<1> DEFINE o == b * DATA_BLOCK_SIZE
<1>1. /\ DATA_BLOCK_SIZE \in Nat \ {0} /\ NumBlocks(inode) \in Nat /\ Room(inode) \in Nat
      /\ BlockOf(inode, b + 1) \in Seq(Bytes)
      /\ Len(BlockOf(inode, b + 1)) = DATA_BLOCK_SIZE
  BY ImageTypes
<1>2. ASSUME NEW D \in Nat, NEW n \in Nat, b < n
      PROVE  b * D \in Nat /\ b * D + D = (b + 1) * D /\ (b + 1) * D <= n * D
  BY <1>2
<1>3. o \in Nat /\ o + DATA_BLOCK_SIZE = (b + 1) * DATA_BLOCK_SIZE
      /\ (b + 1) * DATA_BLOCK_SIZE <= Room(inode)
  BY <1>1, <1>2 DEF Room
<1>4. ASSUME NEW k \in 1..DATA_BLOCK_SIZE
      PROVE  Byte(inode, o + k - 1) = BlockOf(inode, b + 1)[k]
  <2>1. k - 1 \in Nat /\ k - 1 < DATA_BLOCK_SIZE /\ (k - 1) + 1 = k /\ o + (k - 1) = o + k - 1
    BY <1>1, <1>3
  <2> QED  BY <2>1, ByteInBlock
<1> HIDE DEF o
<1>5. Within(inode, o, DATA_BLOCK_SIZE)
  BY <1>3 DEF Within
<1>6. /\ Slice(inode, o, DATA_BLOCK_SIZE) \in Seq(Bytes)
      /\ Len(Slice(inode, o, DATA_BLOCK_SIZE)) = DATA_BLOCK_SIZE
      /\ \A k \in 1..DATA_BLOCK_SIZE :
           Slice(inode, o, DATA_BLOCK_SIZE)[k] = Byte(inode, o + k - 1)
  BY <1>1, <1>3, <1>5, SliceType
<1>7. BlockOf(inode, b + 1) = Slice(inode, o, DATA_BLOCK_SIZE)
  BY <1>1, <1>4, <1>6, SameSeq
<1> QED  BY <1>3, <1>7 DEF o

-----------------------------------------------------------------------------
(***************************************************************************)
(* The recursive functions of Content and load_file: a function that       *)
(* satisfies the recursion exists, and there is no other.                  *)
(***************************************************************************)
\* f is the function Content joins the blocks with.
Joins(f, inode) ==
  f = [k \in 0..NumBlocks(inode) |-> IF k = 0 THEN <<>> ELSE f[k - 1] \o BlockOf(inode, k)]

Joined(inode) == [k \in 0..NumBlocks(inode) |-> Slice(inode, 0, k * DATA_BLOCK_SIZE)]

LEMMA SliceEmpty == \A inode, offset : Slice(inode, offset, 0) = <<>>
BY DEF Slice

LEMMA JoinStep ==
  ASSUME NEW inode \in DOMAIN Inodes, NEW k \in 1..NumBlocks(inode)
  PROVE  Joined(inode)[k - 1] \o BlockOf(inode, k) = Joined(inode)[k]
<1>1. PICK b \in Nat : b < NumBlocks(inode) /\ k = b + 1 /\ k - 1 = b
  BY ImageTypes
<1> DEFINE o == b * DATA_BLOCK_SIZE
<1>2. /\ o + DATA_BLOCK_SIZE = k * DATA_BLOCK_SIZE
      /\ k * DATA_BLOCK_SIZE <= Room(inode)
      /\ BlockOf(inode, k) = Slice(inode, o, DATA_BLOCK_SIZE)
  BY <1>1, BlockSlice
<1>3. Joined(inode)[k - 1] = Slice(inode, 0, o) /\ Joined(inode)[k] = Slice(inode, 0, k * DATA_BLOCK_SIZE)
  BY <1>1, ImageTypes DEF Joined
<1>4. o \in Nat /\ DATA_BLOCK_SIZE \in Nat
  BY <1>1, ImageTypes
<1> HIDE DEF o
<1>5. Within(inode, 0, o + DATA_BLOCK_SIZE) /\ 0 + o = o
  BY <1>2, <1>4 DEF Within
<1>6. Slice(inode, 0, o) \o Slice(inode, 0 + o, DATA_BLOCK_SIZE) = Slice(inode, 0, o + DATA_BLOCK_SIZE)
  BY <1>4, <1>5, SliceJoin
<1> QED  BY <1>2, <1>3, <1>5, <1>6

LEMMA JoinedJoins ==
  ASSUME NEW inode \in DOMAIN Inodes
  PROVE  Joins(Joined(inode), inode)
<1> DEFINE J == Joined(inode)
<1>1. J[0] = <<>> /\ DOMAIN J = 0..NumBlocks(inode)
  BY ImageTypes, SliceEmpty DEF Joined
<1>2. \A k \in 0..NumBlocks(inode) : J[k] = IF k = 0 THEN <<>> ELSE J[k - 1] \o BlockOf(inode, k)
  <2>1. NumBlocks(inode) \in Nat
    BY ImageTypes
  <2>2. \A k \in 0..NumBlocks(inode) : k # 0 => k \in 1..NumBlocks(inode)
    BY <2>1
  <2> HIDE DEF J
  <2>3. \A k \in 1..NumBlocks(inode) : J[k] = J[k - 1] \o BlockOf(inode, k)
    BY JoinStep, Zenon DEF J
  <2> QED  BY <1>1, <2>2, <2>3, Zenon
<1>3. J = [k \in 0..NumBlocks(inode) |-> J[k]]
  BY DEF Joined
<1> HIDE DEF J
<1>4. J = [k \in 0..NumBlocks(inode) |-> IF k = 0 THEN <<>> ELSE J[k - 1] \o BlockOf(inode, k)]
  BY <1>2, <1>3, Zenon
<1> QED  BY <1>4 DEF Joins, J

LEMMA JoinsUnique ==
  ASSUME NEW inode \in DOMAIN Inodes, NEW f, Joins(f, inode)
  PROVE  f[NumBlocks(inode)] = Slice(inode, 0, Room(inode))
<1> DEFINE N == NumBlocks(inode)
           T == {k \in 0..N : f[k] # Joined(inode)[k]}
<1>1. N \in Nat
  BY ImageTypes
<1>2. f[0] = <<>> /\ \A k \in 1..N : f[k] = f[k - 1] \o BlockOf(inode, k)
  <2>1. \A k \in 0..N : f[k] = IF k = 0 THEN <<>> ELSE f[k - 1] \o BlockOf(inode, k)
    BY Zenon DEF Joins
  <2>2. 0 \in 0..N /\ \A k \in 1..N : k \in 0..N /\ k # 0
    BY <1>1
  <2> QED  BY <2>1, <2>2, Zenon
<1>3. T = {}
  <2> SUFFICES ASSUME T # {} PROVE FALSE
    OBVIOUS
  <2>1. T \subseteq Nat
    BY <1>1
  <2>2. PICK x \in T : \A y \in T : x <= y
    BY <2>1, LeastElement
  <2>3. Joined(inode)[0] = <<>>
    BY <1>1, ImageTypes, SliceEmpty DEF Joined
  <2>4. x \in 1..N /\ x - 1 \in 0..N /\ ~(x <= x - 1)
    BY <1>1, <1>2, <2>2, <2>3
  <2>5. f[x - 1] = Joined(inode)[x - 1]
    BY <2>2, <2>4
  <2>6. f[x] = Joined(inode)[x]
    BY <1>2, <2>4, <2>5, JoinStep
  <2> QED  BY <2>2, <2>6
<1>4. f[N] = Joined(inode)[N]
  BY <1>1, <1>3
<1> QED  BY <1>1, <1>4 DEF Joined, Room

\* What a file holds, block after block, is what read_data finds byte by byte.
LEMMA ContentIs ==
  ASSUME NEW inode \in DOMAIN Inodes
  PROVE  Content(inode) = Slice(inode, 0, Inodes[inode].length)
<1> DEFINE all == CHOOSE f : Joins(f, inode)
<1>1. Joins(all, inode)
  BY JoinedJoins, Zenon
<1>2. Content(inode) = SubSeq(all[NumBlocks(inode)], 1, Inodes[inode].length)
  BY DEF Content, Joins, NumBlocks, BlockOf
<1> HIDE DEF all
<1>3. all[NumBlocks(inode)] = Slice(inode, 0, Room(inode))
  BY <1>1, JoinsUnique
<1>4. Within(inode, 0, Room(inode)) /\ Room(inode) \in Nat
  BY ImageTypes DEF Within
<1>5. Inodes[inode].length \in Nat /\ Inodes[inode].length <= Room(inode)
  BY ImageTypes
<1>6. ASSUME NEW n \in Nat, n = Room(inode)
      PROVE  SubSeq(Slice(inode, 0, n), 1, Inodes[inode].length)
               = Slice(inode, 0, Inodes[inode].length)
  BY <1>4, <1>5, <1>6, SlicePrefix, Zenon
<1> QED  BY <1>2, <1>3, <1>4, <1>6

\* How many bytes read_data stores.
Count(inode, offset, length) ==
  LET left == Greatest(0, Inodes[inode].length - offset)
  IN  IF length < 0 THEN left ELSE Least(left, length)

\* read_data stays inside the file.
LEMMA ReadIs ==
  ASSUME NEW inode \in DOMAIN Inodes, NEW offset \in Nat, offset <= Inodes[inode].length,
         NEW length \in Int, NEW n, n = Count(inode, offset, length)
  PROVE  /\ read_data(inode, offset, length) = Slice(inode, offset, n)
         /\ n \in Nat /\ offset + n <= Inodes[inode].length
         /\ length > 0 /\ offset < Inodes[inode].length => n > 0
         /\ Within(inode, offset, n)
<1>1. Inodes[inode].length \in Nat /\ Room(inode) \in Nat /\ Inodes[inode].length <= Room(inode)
  BY ImageTypes
<1>2. /\ n \in Nat /\ offset + n <= Inodes[inode].length
      /\ length > 0 /\ offset < Inodes[inode].length => n > 0
  BY <1>1 DEF Count, Greatest, Least
<1>3. Within(inode, offset, n)
  BY <1>1, <1>2 DEF Within
<1>4. read_data(inode, offset, length) = Slice(inode, offset, n)
  BY Zenon DEF read_data, Slice, Count
<1> QED  BY <1>2, <1>3, <1>4

\* f is the function of load_file's loop.
Loads(f, inode) ==
  f = [sofar \in 0..Inodes[inode].length |->
         IF sofar = Inodes[inode].length THEN <<>>
         ELSE read_data(inode, sofar, CHUNK)
              \o f[sofar + Len(read_data(inode, sofar, CHUNK))]]

Rest(inode) ==
  [sofar \in 0..Inodes[inode].length |-> Slice(inode, sofar, Inodes[inode].length - sofar)]

\* One turn of the loop reads some bytes and leaves the rest of the file.
LEMMA LoadStep ==
  ASSUME NEW inode \in DOMAIN Inodes, NEW sofar \in 0..Inodes[inode].length,
         sofar # Inodes[inode].length
  PROVE  \E next \in 0..Inodes[inode].length :
           /\ next = sofar + Len(read_data(inode, sofar, CHUNK)) /\ next > sofar
           /\ read_data(inode, sofar, CHUNK) \o Rest(inode)[next] = Rest(inode)[sofar]
<1> DEFINE L == Inodes[inode].length
           n == Count(inode, sofar, CHUNK)
           m == L - sofar - n
           bytes == read_data(inode, sofar, CHUNK)
<1>1. L \in Nat /\ Room(inode) \in Nat /\ L <= Room(inode)
  BY ImageTypes
<1>2. CHUNK \in Int /\ CHUNK > 0 /\ sofar \in Nat /\ sofar <= L /\ sofar < L
  BY <1>1, FilesAssumption
<1>3. bytes = Slice(inode, sofar, n) /\ n \in Nat /\ sofar + n <= L /\ n > 0
      /\ Within(inode, sofar, n)
  BY <1>2, ReadIs
<1>4. Len(bytes) = n
  BY <1>2, <1>3, SliceType
<1> HIDE DEF n, bytes
<1>5. m \in Nat /\ n + m = L - sofar /\ L - (sofar + n) = m /\ Within(inode, sofar, n + m)
      /\ sofar + n \in 0..L /\ sofar + n > sofar
  BY <1>1, <1>2, <1>3 DEF Within
<1>6. Rest(inode)[sofar + n] = Slice(inode, sofar + n, m)
  BY <1>5 DEF Rest
<1>7. Rest(inode)[sofar] = Slice(inode, sofar, n + m)
  BY <1>5 DEF Rest
<1>8. Slice(inode, sofar, n) \o Slice(inode, sofar + n, m) = Slice(inode, sofar, n + m)
  BY <1>2, <1>3, <1>5, SliceJoin
<1>9. bytes \o Rest(inode)[sofar + n] = Rest(inode)[sofar]
  BY <1>3, <1>6, <1>7, <1>8
<1> QED  BY <1>4, <1>5, <1>9 DEF bytes

LEMMA RestLoads ==
  ASSUME NEW inode \in DOMAIN Inodes
  PROVE  Loads(Rest(inode), inode)
<1> DEFINE L == Inodes[inode].length  R == Rest(inode)
<1>1. L \in Nat /\ L - L = 0
  BY ImageTypes
<1>2. R[L] = <<>> /\ R = [sofar \in 0..L |-> R[sofar]]
  BY <1>1, SliceEmpty DEF Rest
<1>3. \A sofar \in 0..L : R[sofar] = IF sofar = L THEN <<>>
        ELSE read_data(inode, sofar, CHUNK) \o R[sofar + Len(read_data(inode, sofar, CHUNK))]
  BY <1>2, LoadStep
<1> HIDE DEF R
<1>4. R = [sofar \in 0..L |-> IF sofar = L THEN <<>>
        ELSE read_data(inode, sofar, CHUNK) \o R[sofar + Len(read_data(inode, sofar, CHUNK))]]
  BY <1>2, <1>3, Zenon
<1> QED  BY <1>4 DEF Loads, R

LEMMA LoadsUnique ==
  ASSUME NEW inode \in DOMAIN Inodes, NEW f, Loads(f, inode)
  PROVE  f[0] = Slice(inode, 0, Inodes[inode].length)
<1> DEFINE L == Inodes[inode].length
           T == {k \in 0..L : f[L - k] # Rest(inode)[L - k]}
<1>1. L \in Nat /\ L - L = 0 /\ L - 0 = L
  BY ImageTypes
<1>2. \A sofar \in 0..L : f[sofar] = IF sofar = L THEN <<>>
        ELSE read_data(inode, sofar, CHUNK) \o f[sofar + Len(read_data(inode, sofar, CHUNK))]
  BY Zenon DEF Loads
<1>3. Rest(inode)[L] = <<>> /\ f[L] = <<>>
  <2>1. Rest(inode)[L] = <<>>
    BY <1>1, SliceEmpty DEF Rest
  <2>2. L \in 0..L
    BY <1>1
  <2> QED  BY <1>2, <2>1, <2>2, Zenon
<1>4. T = {}
  <2> SUFFICES ASSUME T # {} PROVE FALSE
    OBVIOUS
  <2>1. T \subseteq Nat
    BY <1>1
  <2>2. PICK x \in T : \A y \in T : x <= y
    BY <2>1, LeastElement
  <2>3. PICK sofar \in 0..L : sofar = L - x
    BY <1>1
  <2>4. sofar # L
    BY <1>3, <2>2, <2>3
  <2> DEFINE bytes == read_data(inode, sofar, CHUNK)
  <2>5. PICK next \in 0..L :
           /\ next = sofar + Len(bytes) /\ next > sofar
           /\ bytes \o Rest(inode)[next] = Rest(inode)[sofar]
    BY <2>4, LoadStep
  <2>6. L - next \in 0..L /\ L - (L - next) = next /\ ~(x <= L - next)
    BY <1>1, <2>3, <2>5
  <2>7. f[next] = Rest(inode)[next]
    BY <2>2, <2>6
  <2>8. f[sofar] = bytes \o f[next]
    BY <1>2, <2>4, <2>5, Zenon
  <2>9. f[sofar] = Rest(inode)[sofar]
    BY <2>5, <2>7, <2>8
  <2> QED  BY <2>2, <2>3, <2>9
<1>5. L \in 0..L
  BY <1>1
<1>6. f[0] = Rest(inode)[0]
  BY <1>1, <1>4, <1>5
<1> QED  BY <1>1, <1>6 DEF Rest

\* load_file's loop leaves the whole file in memory.
LEMMA LoadIs ==
  ASSUME NEW inode \in DOMAIN Inodes
  PROVE  load_file(inode) = Content(inode)
<1> DEFINE rest == CHOOSE f : Loads(f, inode)
<1>1. Loads(rest, inode)
  BY RestLoads, Zenon
<1>2. load_file(inode) = rest[0]
  BY DEF load_file, Loads
<1> HIDE DEF rest
<1> QED  BY <1>1, <1>2, LoadsUnique, ContentIs

-----------------------------------------------------------------------------
(***************************************************************************)
(* Names and words                                                         *)
(***************************************************************************)
\* A comparison over the longer of two names tells any two names apart.
LEMMA SameNameIs ==
  ASSUME NEW x \in Strings, NEW y \in Strings,
         Len(x) <= FILE_NAME_SIZE, Len(y) <= FILE_NAME_SIZE, SameName(x, y)
  PROVE  x = y
<1>1. x \in Seq(STRING) /\ y \in Seq(STRING) /\ FILE_NAME_SIZE \in Nat
  BY FilesAssumption DEF Strings
<1>2. /\ \A k \in 1..Len(x) : x[k] # Nul
      /\ \A k \in 1..Len(y) : y[k] # Nul
  BY <1>1 DEF Strings
<1>3. ASSUME NEW k \in Nat \ {0}, k <= Len(x) \/ k <= Len(y)
      PROVE  CharAt(x, k) = CharAt(y, k)
  <2>1. k \in 1..Least(FILE_NAME_SIZE, Greatest(Len(x), Len(y)))
    BY <1>1, <1>3 DEF Least, Greatest
  <2> QED  BY <2>1 DEF SameName
<1>4. ~(Len(x) < Len(y))
  <2> SUFFICES ASSUME Len(x) < Len(y) PROVE FALSE
    OBVIOUS
  <2>1. Len(y) \in Nat \ {0} /\ Len(y) \in 1..Len(y) /\ ~(Len(y) <= Len(x))
    BY <1>1
  <2> QED  BY <1>1, <1>2, <1>3, <2>1 DEF CharAt
<1>5. ~(Len(y) < Len(x))
  <2> SUFFICES ASSUME Len(y) < Len(x) PROVE FALSE
    OBVIOUS
  <2>1. Len(x) \in Nat \ {0} /\ Len(x) \in 1..Len(x) /\ ~(Len(x) <= Len(y))
    BY <1>1
  <2> QED  BY <1>1, <1>2, <1>3, <2>1 DEF CharAt
<1>6. Len(x) = Len(y)
  BY <1>1, <1>4, <1>5
<1>7. ASSUME NEW k \in 1..Len(x) PROVE x[k] = y[k]
  BY <1>1, <1>3, <1>6 DEF CharAt
<1> QED  BY <1>1, <1>6, <1>7, SameSeq

\* The search finds an entry of that very name.
LEMMA FindsNamed ==
  ASSUME NEW fname \in Strings, NEW k, Finds(fname, k)
  PROVE  k \in DOMAIN Directory /\ Directory[k].file_name = fname
<1>1. k \in DOMAIN Directory /\ Len(fname) <= FILE_NAME_SIZE
      /\ SameName(fname, Directory[k].file_name)
  BY DEF Finds
<1>2. Directory[k].file_name \in Strings /\ Len(Directory[k].file_name) <= FILE_NAME_SIZE
  <2>1. ASSUME NEW S, NEW q \in Seq(S), NEW j \in DOMAIN q PROVE q[j] \in S
    OBVIOUS
  <2>2. Directory[k] \in [file_name : Strings, file_type : {RTC, DIR, FILE}, inode_num : Nat]
    BY <1>1, <2>1, ImageAssumption
  <2> QED  BY <1>1, <2>2, ImageAssumption
<1> QED  BY <1>1, <1>2, SameNameIs

\* e is where a word that starts at k ends.
Ends(buffer, k, stops, e) ==
  /\ e \in k..Greatest(k, Len(buffer) + 1)
  /\ \A j \in k..(e - 1) : j <= Len(buffer) /\ buffer[j] \notin stops
  /\ e > Len(buffer) \/ buffer[e] \in stops

LEMMA UntilEnds ==
  ASSUME NEW buffer \in Seq(STRING), NEW k \in Nat \ {0}, NEW stops
  PROVE  Ends(buffer, k, stops, Until(buffer, k, stops))
<1> DEFINE T == {e \in k..Greatest(k, Len(buffer) + 1) : e > Len(buffer) \/ buffer[e] \in stops}
<1>1. T \subseteq Nat /\ Greatest(k, Len(buffer) + 1) \in T
  BY DEF Greatest
<1>2. PICK x \in T : \A y \in T : x <= y
  BY <1>1, LeastElement
<1>3. Ends(buffer, k, stops, x)
  BY <1>2 DEF Ends, Greatest
<1>4. Until(buffer, k, stops) = CHOOSE e \in k..Greatest(k, Len(buffer) + 1) : Ends(buffer, k, stops, e)
  BY DEF Until, Ends
<1>5. \E e \in k..Greatest(k, Len(buffer) + 1) : Ends(buffer, k, stops, e)
  BY <1>3 DEF Ends
<1> QED  BY <1>4, <1>5, Zenon

LEMMA EndsOnce ==
  ASSUME NEW buffer \in Seq(STRING), NEW k \in Nat \ {0}, NEW stops, NEW d, NEW e,
         Ends(buffer, k, stops, d), Ends(buffer, k, stops, e)
  PROVE  d = e
<1>1. d \in Nat /\ e \in Nat /\ d >= k /\ e >= k
  BY DEF Ends, Greatest
<1>2. ASSUME NEW a \in Nat, NEW b \in Nat, a >= k, b >= k,
             Ends(buffer, k, stops, a), Ends(buffer, k, stops, b), a < b
      PROVE  FALSE
  <2>1. a \in k..(b - 1)
    BY <1>2
  <2> QED  BY <1>2, <2>1 DEF Ends
<1> QED  BY <1>1, <1>2

LEMMA WordType ==
  ASSUME NEW buffer \in Seq(STRING), NEW a \in Nat \ {0}, NEW b \in Nat,
         \A j \in a..b : j <= Len(buffer) /\ buffer[j] # Nul
  PROVE  SubSeq(buffer, a, b) \in Strings
<1>1. CASE a > b
  <2>1. SubSeq(buffer, a, b) = <<>>
    BY <1>1
  <2> QED  BY <2>1 DEF Strings
<1>2. CASE a <= b
  <2>1. b <= Len(buffer)
    BY <1>2
  <2>2. /\ SubSeq(buffer, a, b) \in Seq(STRING)
        /\ \A j \in 1..Len(SubSeq(buffer, a, b)) :
             a + j - 1 \in a..b /\ SubSeq(buffer, a, b)[j] = buffer[a + j - 1]
    BY <1>2, <2>1
  <2>3. ASSUME NEW q \in Seq(STRING), \A j \in 1..Len(q) : q[j] # Nul PROVE q \in Strings
    BY <2>3 DEF Strings
  <2>4. \A j \in 1..Len(SubSeq(buffer, a, b)) : SubSeq(buffer, a, b)[j] # Nul
    BY <2>2
  <2> QED  BY <2>2, <2>3, <2>4
<1> QED  BY <1>1, <1>2

LEMMA WordTypes ==
  ASSUME NEW buffer \in Seq(STRING)
  PROVE  ProgramName(buffer) \in Strings /\ Arguments(buffer) \in Strings
<1> DEFINE u == Until(buffer, 1, {Space, Nul})
           v == Until(buffer, u + 1, {Nul})
<1>1. Ends(buffer, 1, {Space, Nul}, u)
  BY UntilEnds
<1>2. u \in Nat \ {0}
  BY <1>1 DEF Ends, Greatest
<1>3. Ends(buffer, u + 1, {Nul}, v)
  BY <1>2, UntilEnds
<1> HIDE DEF u, v
<1>4. v \in Nat /\ v >= u + 1
  BY <1>2, <1>3 DEF Ends, Greatest
<1>5. \A j \in 1..(u - 1) : j <= Len(buffer) /\ buffer[j] # Nul
  BY <1>1 DEF Ends
<1>6. \A j \in (u + 1)..(v - 1) : j <= Len(buffer) /\ buffer[j] # Nul
  BY <1>3 DEF Ends
<1>7. u - 1 \in Nat /\ u + 1 \in Nat \ {0} /\ v - 1 \in Nat
  BY <1>2, <1>4
<1>8. SubSeq(buffer, 1, u - 1) \in Strings
  BY <1>5, <1>7, WordType
<1>9. SubSeq(buffer, u + 1, v - 1) \in Strings
  BY <1>6, <1>7, WordType
<1> QED  BY <1>8, <1>9 DEF ProgramName, Arguments, u, v

\* Of a command with a space the arguments are what follows the first one.
LEMMA ArgumentsAre ==
  ASSUME NEW buffer \in Seq(STRING),
         NEW space \in 1..Len(buffer), NEW end \in 1..(Len(buffer) + 1),
         buffer[space] = Space, \A j \in 1..(space - 1) : buffer[j] \notin {Space, Nul},
         end = Len(buffer) + 1 \/ buffer[end] = Nul,
         \A j \in 1..(end - 1) : buffer[j] # Nul,
         space < end
  PROVE  Arguments(buffer) = SubSeq(buffer, space + 1, end - 1)
<1>1. Ends(buffer, 1, {Space, Nul}, space)
  BY DEF Ends, Greatest
<1>2. Until(buffer, 1, {Space, Nul}) = space
  BY <1>1, UntilEnds, EndsOnce
<1>3. Ends(buffer, space + 1, {Nul}, end)
  BY DEF Ends, Greatest
<1>4. Until(buffer, space + 1, {Nul}) = end
  <2>1. space + 1 \in Nat \ {0}
    OBVIOUS
  <2> QED  BY <1>3, <2>1, UntilEnds, EndsOnce
<1> QED  BY <1>2, <1>4 DEF Arguments

LEMMA SubSeqPrefix ==
  ASSUME NEW S, NEW s \in Seq(S), NEW n \in Int, n <= Len(s)
  PROVE  IsPrefixOf(SubSeq(s, 1, n), s)
<1>1. CASE n >= 0
  BY <1>1 DEF IsPrefixOf
<1>2. CASE n < 0
  <2>1. SubSeq(s, 1, n) = <<>> /\ SubSeq(s, 1, 0) = <<>>
    BY <1>2
  <2> QED  BY <2>1 DEF IsPrefixOf
<1> QED  BY <1>1, <1>2

-----------------------------------------------------------------------------
(***************************************************************************)
(* The inductive invariant                                                 *)
(***************************************************************************)
Operators == {"none", "stdin", "stdout", "rtc", "dir", "file"}
Records == [file_operations : Operators, inode_num : DOMAIN Inodes \cup {0},
            file_pos : Nat, flags : {0, 1}]

IsEntry(k, fname, inode) == Directory[k].file_name = fname /\ Directory[k].inode_num = inode

\* What a descriptor d holds for the file or the directory it was last opened
\* for, with its name and what was read: also while it is closed.
FileOK(d, fname, bytes) ==
  /\ d.inode_num \in DOMAIN Inodes
  /\ d.file_pos <= Inodes[d.inode_num].length
  /\ bytes = Slice(d.inode_num, 0, d.file_pos)
  /\ \E k \in DOMAIN Directory : IsEntry(k, fname, d.inode_num)

DirOK(d, bytes) ==
  d.file_pos \in 1..NUM_DIR =>
    IsPrefixOf(bytes, IF d.file_pos <= Len(Directory)
                      THEN Directory[d.file_pos].file_name ELSE <<>>)

DescriptorOK(d, fname, bytes) ==
  /\ d.file_operations = "file" => FileOK(d, fname, bytes)
  /\ d.file_operations = "dir" => DirOK(d, bytes)

\* The descriptors 0 and 1 stay what create_pcb made them, so that the
\* arguments, which got[0] stands for, are no file's bytes.
StdOK ==
  /\ 0 \in Fds /\ fd_array[0].file_operations = "stdin"
  /\ 1 \in Fds /\ fd_array[1].file_operations = "stdout"

ArgsOK ==
  /\ command = <<>> \/ args = Arguments(command)
  /\ IsPrefixOf(got[0], args)

Inv ==
  /\ TypeOK
  /\ StdOK
  /\ \A fd \in Fds : DescriptorOK(fd_array[fd], name[fd], got[fd])
  /\ ArgsOK
  /\ LoadsWhole

LEMMA FdsAre ==
  /\ FD_ARRAY_SIZE \in Nat /\ FD_ARRAY_SIZE > 2
  /\ 0 \in Fds /\ 1 \in Fds /\ Fds \subseteq Nat
  /\ 2..(FD_ARRAY_SIZE - 1) \subseteq Fds
BY FilesAssumption DEF Fds

LEMMA TypeIs == TypeOK <=>
  /\ fd_array \in [Fds -> Records]
  /\ args \in Strings
  /\ command \in Commands \cup {<<>>}
  /\ rval \in Int
  /\ name \in [Fds -> Strings]
  /\ got = [g \in Fds |-> got[g]]
BY DEF TypeOK, Records, Operators

\* The descriptors, the name and the bytes that create_pcb starts with.
LEMMA FreshTypes ==
  /\ create_pcb \in [Fds -> Records]
  /\ \A fd \in Fds : create_pcb[fd].file_operations \notin {"file", "dir"}
  /\ create_pcb[0].file_operations = "stdin" /\ create_pcb[1].file_operations = "stdout"
<1>1. Closed \in Records /\ Closed.file_operations = "none"
  BY DEF Closed, Records, Operators
<1>2. ASSUME NEW op \in {"stdin", "stdout"}
      PROVE  /\ [Closed EXCEPT !.file_operations = op, !.flags = 1] \in Records
             /\ [Closed EXCEPT !.file_operations = op, !.flags = 1].file_operations = op
  BY DEF Closed, Records, Operators
<1>3. ASSUME NEW fd \in Fds
      PROVE  create_pcb[fd] \in Records /\ create_pcb[fd].file_operations \notin {"file", "dir"}
  <2>1. CASE fd = 0
    BY <1>2, <2>1 DEF create_pcb
  <2>2. CASE fd = 1
    BY <1>2, <2>2 DEF create_pcb
  <2>3. CASE fd # 0 /\ fd # 1
    BY <1>1, <2>3 DEF create_pcb
  <2> QED  BY <2>1, <2>2, <2>3
<1>4. create_pcb[0].file_operations = "stdin" /\ create_pcb[1].file_operations = "stdout"
  <2>1. /\ create_pcb[0] = [Closed EXCEPT !.file_operations = "stdin", !.flags = 1]
        /\ create_pcb[1] = [Closed EXCEPT !.file_operations = "stdout", !.flags = 1]
    BY FdsAre DEF create_pcb
  <2> QED  BY <1>2, <2>1
<1>5. create_pcb = [fd \in Fds |-> create_pcb[fd]]
  BY DEF create_pcb
<1> QED  BY <1>3, <1>4, <1>5

LEMMA EmptyString == <<>> \in Strings /\ IsPrefixOf(<<>>, <<>>)
BY DEF Strings, IsPrefixOf

\* A descriptor that is for no file and no directory holds nothing.
LEMMA Unopened ==
  ASSUME NEW d, NEW fname, NEW bytes, d.file_operations \notin {"file", "dir"}
  PROVE  DescriptorOK(d, fname, bytes)
BY DEF DescriptorOK

LEMMA InitInv == Init => Inv
<1> SUFFICES ASSUME Init PROVE Inv
  OBVIOUS
<1>1. TypeOK
  BY FreshTypes, TypeIs, EmptyString DEF Init, NoHistory
<1>2. StdOK
  BY FdsAre, FreshTypes DEF Init, StdOK
<1>3. \A fd \in Fds : DescriptorOK(fd_array[fd], name[fd], got[fd])
  BY FreshTypes, Unopened DEF Init
<1>4. ArgsOK
  BY FdsAre, EmptyString DEF Init, ArgsOK, NoHistory
<1>5. LoadsWhole
  BY FdsAre DEF Init, LoadsWhole, NoHistory
<1> QED  BY <1>1, <1>2, <1>3, <1>4, <1>5 DEF Inv

\* A call that fails, or only returns something.
LEMMA ReturnsInv ==
  ASSUME Inv, UNCHANGED <<fd_array, programVars, history>>, rval' \in Int
  PROVE  Inv'
BY DEF Inv, TypeOK, StdOK, ArgsOK, LoadsWhole, programVars, history

LEMMA FailsInv ==
  ASSUME Inv, Fails
  PROVE  Inv'
BY ReturnsInv DEF Fails

\* g is f with v at x.
Sets(f, g, x, v) == g = [f EXCEPT ![x] = v]

\* Only descriptor fd changes.
LEMMA OneChanges ==
  ASSUME Inv, NEW fd \in Fds, fd # 0, fd # 1,
         NEW d \in Records, NEW fname \in Strings, NEW bytes,
         DescriptorOK(d, fname, bytes),
         Sets(fd_array, fd_array', fd, d), Sets(name, name', fd, fname),
         Sets(got, got', fd, bytes),
         UNCHANGED programVars, rval' \in Int
  PROVE  Inv'
<1>1. /\ fd_array \in [Fds -> Records] /\ name \in [Fds -> Strings] /\ got = [g \in Fds |-> got[g]]
      /\ 0 \in Fds /\ 1 \in Fds
  BY TypeIs, FdsAre DEF Inv
<1>2. /\ fd_array' \in [Fds -> Records] /\ name' \in [Fds -> Strings] /\ got' = [g \in Fds |-> got'[g]]
      /\ fd_array'[fd] = d /\ name'[fd] = fname
      /\ \A g \in Fds : g # fd => fd_array'[g] = fd_array[g] /\ name'[g] = name[g]
  BY <1>1 DEF Sets
<1>3. got'[fd] = bytes /\ \A g \in Fds : g # fd => got'[g] = got[g]
  BY <1>1 DEF Sets
<1>4. TypeOK'
  BY <1>2, TypeIs DEF Inv, TypeOK, Records, Operators, programVars
<1>5. StdOK'
  BY <1>1, <1>2 DEF Inv, StdOK
<1>6. ASSUME NEW g \in Fds PROVE DescriptorOK(fd_array'[g], name'[g], got'[g])
  <2>1. CASE g = fd
    BY <1>2, <1>3, <2>1
  <2>2. CASE g # fd
    BY <1>2, <1>3, <2>2 DEF Inv
  <2> QED  BY <2>1, <2>2
<1>7. ArgsOK'
  BY <1>1, <1>3 DEF Inv, ArgsOK, programVars
<1>8. LoadsWhole'
  BY <1>1, <1>2 DEF Inv, LoadsWhole, programVars
<1> QED  BY <1>4, <1>5, <1>6, <1>7, <1>8 DEF Inv

LEMMA SetsSame ==
  ASSUME NEW S, NEW f, f = [x \in S |-> f[x]], NEW x \in S
  PROVE  Sets(f, f, x, f[x])
BY DEF Sets

-----------------------------------------------------------------------------
(***************************************************************************)
(* The steps                                                               *)
(***************************************************************************)
LEMMA EntryTypes ==
  ASSUME NEW k \in DOMAIN Directory
  PROVE  /\ Directory[k].file_type \in {RTC, DIR, FILE}
         /\ Operations(Directory[k].file_type) \in Operators
         /\ Operations(Directory[k].file_type) = "file" => Directory[k].file_type = FILE
         /\ Directory[k].file_type = FILE => Directory[k].inode_num \in DOMAIN Inodes
<1>1. Directory[k].file_type \in {RTC, DIR, FILE}
  <2>1. ASSUME NEW S, NEW q \in Seq(S), NEW j \in DOMAIN q PROVE q[j] \in S
    OBVIOUS
  <2>2. Directory[k] \in [file_name : Strings, file_type : {RTC, DIR, FILE}, inode_num : Nat]
    BY <2>1, ImageAssumption
  <2> QED  BY <2>2
<1>2. ASSUME NEW type \in {RTC, DIR, FILE}
      PROVE  Operations(type) \in Operators /\ (Operations(type) = "file" => type = FILE)
  BY DEF Operations, Operators, RTC, DIR, FILE
<1>3. Directory[k].file_type = FILE => Directory[k].inode_num \in DOMAIN Inodes
  BY ImageAssumption
<1> QED  BY <1>1, <1>2, <1>3

LEMMA OpenInv ==
  ASSUME Inv, NEW fname \in Names, open(fname)
  PROVE  Inv'
<1>1. CASE Fails
  BY <1>1, FailsInv
<1>2. ASSUME NEW k \in DOMAIN Directory, NEW fd \in Fds, NEW d, Finds(fname, k), Free(fd),
             d = [file_operations |-> Operations(Directory[k].file_type),
                  inode_num |-> IF Directory[k].file_type = FILE
                                THEN Directory[k].inode_num ELSE 0,
                  file_pos |-> 0, flags |-> 1],
             Sets(fd_array, fd_array', fd, d), Sets(name, name', fd, fname),
             Sets(got, got', fd, <<>>), rval' = fd, UNCHANGED programVars
      PROVE  Inv'
  <2>1. fname \in Strings
    BY InputAssumption
  <2>2. Directory[k].file_name = fname
    BY <1>2, <2>1, FindsNamed
  <2>3. /\ d.file_operations = Operations(Directory[k].file_type) /\ d.file_pos = 0
        /\ d.inode_num = IF Directory[k].file_type = FILE
                         THEN Directory[k].inode_num ELSE 0
        /\ d \in Records
    BY <1>2, EntryTypes DEF Records
  <2>4. DescriptorOK(d, fname, <<>>)
    <3>1. CASE d.file_operations = "file"
      <4>1. Directory[k].file_type = FILE /\ d.inode_num = Directory[k].inode_num
            /\ d.inode_num \in DOMAIN Inodes
        BY <2>3, <3>1, EntryTypes
      <4>2. d.file_pos <= Inodes[d.inode_num].length
        BY <2>3, <4>1, ImageTypes
      <4>3. <<>> = Slice(d.inode_num, 0, d.file_pos)
        BY <2>3, SliceEmpty
      <4> QED  BY <2>2, <3>1, <4>1, <4>2, <4>3 DEF DescriptorOK, FileOK, IsEntry
    <3>2. CASE d.file_operations = "dir"
      BY <2>3, <3>2 DEF DescriptorOK, DirOK
    <3>3. CASE d.file_operations \notin {"file", "dir"}
      BY <3>3, Unopened
    <3> QED  BY <3>1, <3>2, <3>3
  <2>5. fd # 0 /\ fd # 1 /\ fd \in Int
    BY <1>2, FdsAre DEF Free
  <2> QED  BY <1>2, <2>1, <2>3, <2>4, <2>5, OneChanges
<1> QED  BY <1>1, <1>2 DEF open, Sets

LEMMA CloseInv ==
  ASSUME Inv, NEW fd \in -1..FD_ARRAY_SIZE, close(fd)
  PROVE  Inv'
<1>1. CASE Fails
  BY <1>1, FailsInv
<1>2. CASE /\ fd \in 2..(FD_ARRAY_SIZE - 1)
           /\ fd_array' = [fd_array EXCEPT ![fd].flags = 0]
           /\ rval' = 0
           /\ UNCHANGED <<programVars, history>>
  <2> DEFINE d == [fd_array[fd] EXCEPT !.flags = 0]
  <2>1. /\ fd_array \in [Fds -> Records] /\ name \in [Fds -> Strings] /\ got = [g \in Fds |-> got[g]]
        /\ fd \in Fds /\ fd # 0 /\ fd # 1
    BY <1>2, TypeIs, FdsAre DEF Inv
  <2>2. /\ d \in Records /\ d.file_operations = fd_array[fd].file_operations
        /\ d.inode_num = fd_array[fd].inode_num /\ d.file_pos = fd_array[fd].file_pos
        /\ name[fd] \in Strings
    BY <2>1 DEF Records
  <2>3. Sets(fd_array, fd_array', fd, d)
    BY <1>2 DEF Sets
  <2>4. DescriptorOK(fd_array[fd], name[fd], got[fd])
    BY <2>1 DEF Inv
  <2> HIDE DEF d
  <2>5. DescriptorOK(d, name[fd], got[fd])
    BY <2>2, <2>4 DEF DescriptorOK, FileOK, DirOK
  <2>6. Sets(name, name', fd, name[fd]) /\ Sets(got, got', fd, got[fd])
    BY <1>2, <2>1, SetsSame DEF history
  <2>7. UNCHANGED programVars /\ rval' \in Int
    BY <1>2
  <2> QED  BY <2>1, <2>2, <2>3, <2>5, <2>6, <2>7, OneChanges
<1> QED  BY <1>1, <1>2 DEF close

LEMMA FileReadInv ==
  ASSUME Inv, NEW fd \in -1..FD_ARRAY_SIZE, NEW nbytes \in Sizes, file_read(fd, nbytes)
  PROVE  Inv'
<1> DEFINE f == fd_array[fd]
           i == f.inode_num
           pos == f.file_pos
           n == Count(i, pos, nbytes)
           bytes == read_data(i, pos, nbytes)
           d == [f EXCEPT !.file_pos = @ + Len(bytes)]
<1>1. fd \in Fds /\ f.file_operations = "file"
  BY DEF file_read, IsOpen
<1>2. /\ fd_array' = [fd_array EXCEPT ![fd].file_pos = @ + Len(bytes)] /\ rval' = Len(bytes)
      /\ got' = [got EXCEPT ![fd] = @ \o bytes]
      /\ UNCHANGED programVars /\ name' = name
  BY DEF file_read
<1>3. /\ fd_array \in [Fds -> Records] /\ name \in [Fds -> Strings]
      /\ got = [g \in Fds |-> got[g]] /\ fd # 0 /\ fd # 1
  BY <1>1, TypeIs DEF Inv, StdOK
<1>4. f \in Records /\ pos \in Nat /\ name[fd] \in Strings
  BY <1>1, <1>3 DEF Records
<1>5. FileOK(f, name[fd], got[fd])
  BY <1>1 DEF Inv, DescriptorOK
<1>6. nbytes \in Int
  BY FilesAssumption
<1>7. i \in DOMAIN Inodes /\ pos <= Inodes[i].length /\ got[fd] = Slice(i, 0, pos)
  BY <1>5 DEF FileOK
<1>8. /\ bytes = Slice(i, pos, n) /\ n \in Nat /\ pos + n <= Inodes[i].length
      /\ Within(i, pos, n)
  <2> HIDE DEF n, bytes, i, pos
  <2> QED  BY <1>4, <1>6, <1>7, ReadIs DEF n, bytes
<1>9. Len(bytes) = n
  <2> HIDE DEF n, bytes, i, pos
  <2> QED  BY <1>4, <1>7, <1>8, SliceType
<1>10. /\ d \in Records /\ d.file_operations = "file" /\ d.inode_num = i
       /\ d.file_pos = pos + n
  <2>1. pos + n \in Nat
    BY <1>4, <1>8
  <2>2. ASSUME NEW r \in Records, NEW p \in Nat
        PROVE  /\ [r EXCEPT !.file_pos = p] \in Records
               /\ [r EXCEPT !.file_pos = p].file_operations = r.file_operations
               /\ [r EXCEPT !.file_pos = p].inode_num = r.inode_num
               /\ [r EXCEPT !.file_pos = p].file_pos = p
    BY DEF Records
  <2>3. d = [f EXCEPT !.file_pos = pos + n]
    <3> HIDE DEF n, bytes, f
    <3> QED  BY <1>9
  <2> HIDE DEF n, bytes, f, d
  <2> QED  BY <1>1, <1>4, <2>1, <2>2, <2>3
<1>11. got[fd] \o bytes = Slice(i, 0, pos + n)
  <2>1. Within(i, 0, pos + n) /\ 0 + pos = pos
    BY <1>4, <1>8, <1>7, ImageTypes DEF Within
  <2>2. Slice(i, 0, pos) \o Slice(i, 0 + pos, n) = Slice(i, 0, pos + n)
    <3> HIDE DEF n, i, pos
    <3> QED  BY <1>4, <1>7, <1>8, <2>1, SliceJoin
  <2> QED  BY <1>7, <1>8, <2>1, <2>2
<1>12. Sets(fd_array, fd_array', fd, d) /\ Sets(got, got', fd, got[fd] \o bytes)
  BY <1>1, <1>2, <1>3 DEF Sets
<1>13. Sets(name, name', fd, name[fd])
  BY <1>1, <1>2, <1>3, SetsSame
<1>14. rval' \in Int
  BY <1>2, <1>8, <1>9
<1> HIDE DEF d, n, bytes
<1>15. DescriptorOK(d, name[fd], got[fd] \o bytes)
  BY <1>5, <1>7, <1>8, <1>10, <1>11 DEF DescriptorOK, FileOK
<1> QED  BY <1>1, <1>2, <1>3, <1>4, <1>10, <1>12, <1>13, <1>14, <1>15, OneChanges

\* The names a directory's entries hold.
LEMMA NameTypes ==
  ASSUME NEW index \in Nat
  PROVE  /\ NameAt(index) \in Strings /\ NameAt(index) \in Seq(STRING)
         /\ index + 1 \in 1..NUM_DIR =>
              NameAt(index) = IF index + 1 <= Len(Directory)
                              THEN Directory[index + 1].file_name ELSE <<>>
<1>1. ASSUME NEW k \in DOMAIN Directory PROVE Directory[k].file_name \in Strings
  <2>1. ASSUME NEW S, NEW q \in Seq(S), NEW j \in DOMAIN q PROVE q[j] \in S
    OBVIOUS
  <2>2. Directory[k] \in [file_name : Strings, file_type : {RTC, DIR, FILE}, inode_num : Nat]
    BY <2>1, ImageAssumption
  <2> QED  BY <2>2
<1>2. Len(Directory) \in Nat /\ DOMAIN Directory = 1..Len(Directory)
  <2>1. ASSUME NEW S, NEW q \in Seq(S) PROVE Len(q) \in Nat /\ DOMAIN q = 1..Len(q)
    OBVIOUS
  <2> QED  BY <2>1, ImageAssumption
<1>3. index < Len(Directory) => index + 1 \in DOMAIN Directory
  BY <1>2
<1>4. NameAt(index) \in Strings
  BY <1>1, <1>3, InputAssumption, EmptyString DEF NameAt
<1>5. index + 1 \in 1..NUM_DIR =>
        NameAt(index) = IF index + 1 <= Len(Directory)
                        THEN Directory[index + 1].file_name ELSE <<>>
  BY <1>2, FilesAssumption DEF NameAt
<1> QED  BY <1>4, <1>5 DEF Strings

LEMMA DirReadInv ==
  ASSUME Inv, NEW fd \in -1..FD_ARRAY_SIZE, NEW nbytes \in Sizes, dir_read(fd, nbytes)
  PROVE  Inv'
<1> DEFINE f == fd_array[fd]
           pos == f.file_pos
           entry == NameAt(pos)
           count == Greatest(0, Least(nbytes, Len(entry)))
           d == [f EXCEPT !.file_pos = @ + 1]
           bytes == SubSeq(entry, 1, count)
<1>1. fd \in Fds /\ f.file_operations = "dir" /\ UNCHANGED programVars /\ name' = name
  BY DEF dir_read, IsOpen
<1>2. CASE rval' = -1 /\ UNCHANGED <<fd_array, got>>
  BY <1>1, <1>2, ReturnsInv DEF history
<1>3. CASE /\ fd_array' = [fd_array EXCEPT ![fd].file_pos = @ + 1]
           /\ rval' = count
           /\ got' = [got EXCEPT ![fd] = bytes]
  <2>1. /\ fd_array \in [Fds -> Records] /\ name \in [Fds -> Strings]
        /\ got = [g \in Fds |-> got[g]] /\ fd # 0 /\ fd # 1
    BY <1>1, TypeIs DEF Inv, StdOK
  <2>2. f \in Records /\ pos \in Nat /\ name[fd] \in Strings
    BY <1>1, <2>1 DEF Records
  <2>3. entry \in Seq(STRING) /\ nbytes \in Int
    BY <2>2, NameTypes, FilesAssumption
  <2>4. count \in Nat /\ count <= Len(entry)
    <3> HIDE DEF entry
    <3> QED  BY <2>3 DEF Greatest, Least
  <2>5. IsPrefixOf(bytes, entry)
    <3> HIDE DEF entry, count
    <3> QED  BY <2>3, <2>4, SubSeqPrefix
  <2>6. d \in Records /\ d.file_operations = "dir" /\ d.file_pos = pos + 1
    BY <1>1, <2>2 DEF Records
  <2>7. Sets(fd_array, fd_array', fd, d) /\ Sets(got, got', fd, bytes)
    BY <1>1, <1>3, <2>1 DEF Sets
  <2>8. Sets(name, name', fd, name[fd])
    BY <1>1, <2>1, SetsSame
  <2>9. rval' \in Int
    BY <1>3, <2>4
  <2> HIDE DEF d, bytes, count
  <2>10. DescriptorOK(d, name[fd], bytes)
    <3>1. d.file_pos \in 1..NUM_DIR =>
            entry = IF d.file_pos <= Len(Directory)
                    THEN Directory[d.file_pos].file_name ELSE <<>>
      BY <2>2, <2>6, NameTypes
    <3> HIDE DEF entry
    <3> QED  BY <2>5, <2>6, <3>1 DEF DescriptorOK, DirOK
  <2> QED  BY <1>1, <2>1, <2>2, <2>6, <2>7, <2>8, <2>9, <2>10, OneChanges
<1> QED  BY <1>2, <1>3 DEF dir_read

LEMMA ReadInv ==
  ASSUME Inv, NEW fd \in -1..FD_ARRAY_SIZE, NEW nbytes \in Sizes, read(fd, nbytes)
  PROVE  Inv'
<1>1. CASE file_read(fd, nbytes)
  BY <1>1, FileReadInv
<1>2. CASE dir_read(fd, nbytes)
  BY <1>2, DirReadInv
<1>3. CASE rval' = 0 /\ UNCHANGED <<fd_array, programVars, history>>
  BY <1>3, ReturnsInv
<1>4. CASE rval' \in Least(0, nbytes)..Greatest(0, nbytes) /\ UNCHANGED <<fd_array, programVars, history>>
  BY <1>4, ReturnsInv
<1>5. CASE Fails
  BY <1>5, FailsInv
<1> QED  BY <1>1, <1>2, <1>3, <1>4, <1>5 DEF read

LEMMA WriteInv ==
  ASSUME Inv, NEW fd \in -1..FD_ARRAY_SIZE, NEW nbytes \in Sizes, write(fd, nbytes)
  PROVE  Inv'
<1>1. CASE rval' = nbytes /\ UNCHANGED <<fd_array, programVars, history>>
  <2>1. rval' \in Int
    BY <1>1, FilesAssumption
  <2> QED  BY <1>1, <2>1, ReturnsInv
<1>2. CASE Fails
  BY <1>2, FailsInv
<1> QED  BY <1>1, <1>2 DEF write

LEMMA ExecuteInv ==
  ASSUME Inv, NEW buffer \in Commands, execute(buffer)
  PROVE  Inv'
<1> DEFINE fname == ProgramName(buffer)
<1>1. CASE Fails
  BY <1>1, FailsInv
<1>2. ASSUME NEW k \in DOMAIN Directory, Finds(fname, k), Executable(k),
             args' = Arguments(buffer), program' = load_file(Directory[k].inode_num),
             command' = buffer, fd_array' = create_pcb, rval' = 0,
             name' = [NoHistory EXCEPT ![0] = fname], got' = NoHistory
      PROVE  Inv'
  <2>1. buffer \in Seq(STRING)
    BY InputAssumption
  <2>2. fname \in Strings /\ Arguments(buffer) \in Strings
    BY <2>1, WordTypes
  <2>3. Directory[k].file_name = fname
    <3> HIDE DEF fname
    <3> QED  BY <1>2, <2>2, FindsNamed
  <2>4. Directory[k].inode_num \in DOMAIN Inodes
    BY <1>2, EntryTypes DEF Executable
  <2>5. program' = Content(Directory[k].inode_num)
    BY <1>2, <2>4, LoadIs
  <2> HIDE DEF fname
  <2>6. name' \in [Fds -> Strings] /\ name'[0] = fname
    BY <1>2, <2>2, EmptyString, FdsAre DEF NoHistory
  <2>7. got' = [g \in Fds |-> got'[g]] /\ got'[0] = <<>>
    BY <1>2, FdsAre DEF NoHistory
  <2>8. TypeOK'
    BY <1>2, <2>2, <2>6, <2>7, FreshTypes DEF TypeOK, Records, Operators
  <2>9. StdOK'
    BY <1>2, FdsAre, FreshTypes DEF StdOK
  <2>10. \A g \in Fds : DescriptorOK(fd_array'[g], name'[g], got'[g])
    BY <1>2, FreshTypes, Unopened
  <2>11. ArgsOK'
    <3>1. ASSUME NEW s \in Seq(STRING) PROVE IsPrefixOf(<<>>, s)
      BY DEF IsPrefixOf
    <3> QED  BY <1>2, <2>2, <2>7, <3>1 DEF ArgsOK, Strings
  <2>12. LoadsWhole'
    BY <2>3, <2>5, <2>6 DEF LoadsWhole
  <2> QED  BY <2>8, <2>9, <2>10, <2>11, <2>12 DEF Inv
<1> QED  BY <1>1, <1>2 DEF execute

LEMMA GetargsInv ==
  ASSUME Inv, NEW nbytes \in Sizes, getargs(nbytes)
  PROVE  Inv'
<1> DEFINE n == Least(Least(nbytes, ARGS_ARR_SIZE), Len(args))
<1>1. /\ rval' = 0 /\ got' = [got EXCEPT ![0] = SubSeq(args, 1, n)]
      /\ UNCHANGED <<fd_array, programVars, name>>
  BY DEF getargs
<1>2. /\ args \in Strings /\ args \in Seq(STRING) /\ 0 \in Fds
      /\ got = [g \in Fds |-> got[g]]
  BY TypeIs, FdsAre DEF Inv, Strings
<1>3. n \in Int /\ n <= Len(args)
  BY <1>2, FilesAssumption DEF Least
<1> HIDE DEF n
<1>4. IsPrefixOf(SubSeq(args, 1, n), args)
  BY <1>2, <1>3, SubSeqPrefix
<1>5. /\ got' = [g \in Fds |-> got'[g]] /\ got'[0] = SubSeq(args, 1, n)
      /\ \A g \in Fds : g # 0 => got'[g] = got[g]
  BY <1>1, <1>2
<1>6. TypeOK'
  BY <1>1, <1>5 DEF Inv, TypeOK, programVars
<1>7. StdOK'
  BY <1>1 DEF Inv, StdOK
<1>8. ASSUME NEW g \in Fds PROVE DescriptorOK(fd_array'[g], name'[g], got'[g])
  <2>1. CASE g = 0
    BY <1>7, <2>1, Unopened DEF StdOK
  <2>2. CASE g # 0
    BY <1>1, <1>5, <2>2 DEF Inv
  <2> QED  BY <2>1, <2>2
<1>9. ArgsOK'
  BY <1>1, <1>4, <1>5 DEF Inv, ArgsOK, programVars
<1>10. LoadsWhole'
  BY <1>1 DEF Inv, LoadsWhole, programVars
<1> QED  BY <1>6, <1>7, <1>8, <1>9, <1>10 DEF Inv

LEMMA NextInv == Inv /\ [Next]_vars => Inv'
<1>1. ASSUME Inv, UNCHANGED vars PROVE Inv'
  BY <1>1 DEF Inv, TypeOK, StdOK, ArgsOK, LoadsWhole, vars, programVars, history
<1> QED  BY <1>1, OpenInv, CloseInv, ReadInv, WriteInv, ExecuteInv, GetargsInv DEF Next

-----------------------------------------------------------------------------
(***************************************************************************)
(* The theorems                                                            *)
(***************************************************************************)
LEMMA Invariant == Spec => []Inv
BY InitInv, NextInv, PTL DEF Spec

\* The descriptors, the arguments and what system calls return keep their
\* types, whatever a program opens, reads, closes and executes.
THEOREM TypeCorrect == Spec => []TypeOK
<1>1. Inv => TypeOK
  BY DEF Inv
<1> QED  BY <1>1, Invariant, PTL

\* Reads of any sizes return a file's bytes in order, each once: for every
\* length, block size and order of blocks (filesys.c:82-147).
THEOREM FileReadInOrder == Spec => []ReadsInOrder
<1>1. ASSUME Inv PROVE ReadsInOrder
  <2> SUFFICES ASSUME NEW fd \in Fds, IsOpen(fd, "file")
               PROVE  got[fd] = SubSeq(Content(fd_array[fd].inode_num), 1, fd_array[fd].file_pos)
    BY DEF ReadsInOrder
  <2> DEFINE f == fd_array[fd]
             L == Inodes[f.inode_num].length
  <2>1. FileOK(f, name[fd], got[fd])
    BY <1>1 DEF Inv, DescriptorOK, IsOpen
  <2>2. /\ f.inode_num \in DOMAIN Inodes /\ f.file_pos <= L
        /\ got[fd] = Slice(f.inode_num, 0, f.file_pos)
    BY <2>1 DEF FileOK
  <2>3. f.file_pos \in Nat
    BY <1>1, TypeIs DEF Inv, Records
  <2>4. Content(f.inode_num) = Slice(f.inode_num, 0, L)
    BY <2>2, ContentIs
  <2>5. L \in Nat /\ Within(f.inode_num, 0, L)
    BY <2>2, ImageTypes DEF Within
  <2> HIDE DEF f, L
  <2>6. SubSeq(Slice(f.inode_num, 0, L), 1, f.file_pos) = Slice(f.inode_num, 0, f.file_pos)
    BY <2>2, <2>3, <2>5, SlicePrefix
  <2> QED  BY <2>2, <2>4, <2>6 DEF f
<1> QED  BY <1>1, Invariant, PTL

\* Reads of a directory go through its names in order, for every directory and
\* every size of read (filesys.c:190-227).
THEOREM DirReadInOrder == Spec => []ListsInOrder
<1>1. Inv => ListsInOrder
  BY DEF Inv, ListsInOrder, DescriptorOK, DirOK, IsOpen
<1> QED  BY <1>1, Invariant, PTL

\* A descriptor open for a file is on the file of exactly the name asked for,
\* for all names of up to FILE_NAME_SIZE characters (filesys.c:14-51).
THEOREM OpenFindsName == Spec => []OpensNamed
<1>1. Inv => OpensNamed
  BY DEF Inv, OpensNamed, DescriptorOK, FileOK, IsEntry, IsOpen
<1> QED  BY <1>1, Invariant, PTL

\* What execute loads is the whole file, for every length and every size of
\* the chunks (system.c:337-360).
THEOREM ExecuteLoadsFile == Spec => []LoadsWhole
<1>1. Inv => LoadsWhole
  BY DEF Inv
<1> QED  BY <1>1, Invariant, PTL

\* Of a command with a space, getargs returns what follows it and nothing of
\* the bytes after the command (system.c:276-301, 536-548).
THEOREM GetargsReturnsArguments == Spec => []ArgumentsReach
<1>1. ASSUME Inv PROVE ArgumentsReach
  <2> SUFFICES ASSUME NEW space \in DOMAIN command, NEW end \in 1..(Len(command) + 1),
                      command[space] = Space,
                      \A j \in 1..(space - 1) : command[j] \notin {Space, Nul},
                      end = Len(command) + 1 \/ command[end] = Nul,
                      \A j \in 1..(end - 1) : command[j] # Nul,
                      space < end
               PROVE  IsPrefixOf(got[0], SubSeq(command, space + 1, end - 1))
    BY DEF ArgumentsReach
  <2>1. command \in Seq(STRING)
    BY <1>1, TypeIs, InputAssumption DEF Inv
  <2>2. space \in 1..Len(command) /\ command # <<>>
    BY <2>1
  <2>3. args = Arguments(command) /\ IsPrefixOf(got[0], args)
    BY <1>1, <2>2 DEF Inv, ArgsOK
  <2>4. Arguments(command) = SubSeq(command, space + 1, end - 1)
    BY <2>1, <2>2, ArgumentsAre
  <2> QED  BY <2>3, <2>4
<1> QED  BY <1>1, Invariant, PTL

=============================================================================
