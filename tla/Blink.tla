------------------------------- MODULE Blink -------------------------------
(***************************************************************************)
(* The blinking characters of fish: the list that blink.S keeps in the     *)
(* array blink_array of fish.c, the four ioctls on it, and the routine     *)
(* that every RTC tick runs over it. A slot of the array is free when its  *)
(* location is 0. The program is one thread, so each call is one step.     *)
(***************************************************************************)
EXTENDS Integers, Sequences, FiniteSets, FiniteSetsExt

CONSTANTS
  CELLS,     \* 80*25: the cells of the screen, and the slots of blink_array
  WORD,      \* 2^16: a length is an unsigned word, compared as a signed one
  Requests   \* the blinkers that a program adds

Bytes == 0..255
Words == 0..(WORD - 1)

\* What struct mp1_blink_struct holds when a program fills it in.
Filled == [location : Words, on_char : Bytes, off_char : Bytes,
           on_length : Words, off_length : Words]

ASSUME BlinkAssumption ==
  /\ CELLS \in Nat \ {0} /\ WORD \in Nat \ {0} /\ WORD % 2 = 0
  /\ Requests \subseteq Filled /\ \A r \in Requests : r.location # 0

VARIABLES
  blink_array,   \* the slots
  mp1_list_head, \* the first slot of the list, or NULL
  vmem,          \* the characters on the screen
  drawn,         \* history: the slot that last wrote each cell, or NULL
  synced         \* history: the cells that mp1_ioctl_sync was the last to write

blinkVars == <<blink_array, mp1_list_head, vmem, drawn, synced>>

NULL == 0
Slots == 1..CELLS
Free == [location |-> 0, on_char |-> 0, off_char |-> 0, on_length |-> 0,
         off_length |-> 0, countdown |-> 0, status |-> 0, next |-> NULL]

BlinkInit ==
  /\ blink_array = [s \in Slots |-> Free]
  /\ mp1_list_head = NULL
  /\ vmem = [l \in 0..(CELLS - 1) |-> 32]
  /\ drawn = [l \in 0..(CELLS - 1) |-> NULL]
  /\ synced = {}

\* The list, as far as the array is long.
Chain[n \in 0..CELLS] ==
  IF n = 0 THEN mp1_list_head
  ELSE IF Chain[n - 1] = NULL THEN NULL ELSE blink_array[Chain[n - 1]].next

Linked == {Chain[n] : n \in 0..(CELLS - 1)} \ {NULL}

Char(b) == IF b.status = 1 THEN b.on_char ELSE b.off_char

At(l) == {s \in Slots : blink_array[s].location = l}

-----------------------------------------------------------------------------
mp1_find_helper(l) ==
  LET places == {n \in 0..(CELLS - 1) : Chain[n] # NULL /\ blink_array[Chain[n]].location = l}
  IN  IF places = {} THEN NULL ELSE Chain[Min(places)]

mp1_malloc == IF At(0) = {} THEN NULL ELSE Min(At(0))

\* Mutant: the old head is forgotten.
AddUnlinked(r) ==
  /\ blink_array' = [blink_array EXCEPT ![mp1_malloc] =
       [location |-> r.location, on_char |-> r.on_char, off_char |-> r.off_char,
        on_length |-> r.on_length, off_length |-> r.off_length,
        countdown |-> r.on_length, status |-> 1, next |-> NULL]]
  /\ mp1_list_head' = mp1_malloc
  /\ vmem' = [vmem EXCEPT ![r.location] = r.on_char]
  /\ drawn' = [drawn EXCEPT ![r.location] = mp1_malloc]
  /\ synced' = synced \ {r.location}

\* A new blinker is on, at the front of the list, and drawn.
Added(r) ==
  /\ blink_array' = [blink_array EXCEPT ![mp1_malloc] =
       [location |-> r.location, on_char |-> r.on_char, off_char |-> r.off_char,
        on_length |-> r.on_length, off_length |-> r.off_length,
        countdown |-> r.on_length, status |-> 1, next |-> mp1_list_head]]
  /\ mp1_list_head' = mp1_malloc
  /\ vmem' = [vmem EXCEPT ![r.location] = r.on_char]
  /\ drawn' = [drawn EXCEPT ![r.location] = mp1_malloc]
  /\ synced' = synced \ {r.location}

mp1_ioctl_add(r) ==
  \/ r.location < CELLS /\ mp1_malloc # NULL /\ Added(r)
  \/ (r.location >= CELLS \/ mp1_malloc = NULL) /\ UNCHANGED blinkVars

\* Unlinks the slot and clears it; the character stays on the screen.
Removed(s) ==
  /\ mp1_list_head' = IF mp1_list_head = s THEN blink_array[s].next ELSE mp1_list_head
  /\ blink_array' = [t \in Slots |->
       IF t = s THEN Free
       ELSE IF blink_array[t].next = s THEN [blink_array[t] EXCEPT !.next = blink_array[s].next]
       ELSE blink_array[t]]
  /\ UNCHANGED <<vmem, drawn, synced>>

mp1_ioctl_remove(l) ==
  \/ mp1_find_helper(l) # NULL /\ Removed(mp1_find_helper(l))
  \/ mp1_find_helper(l) = NULL /\ UNCHANGED blinkVars

\* Copies the timing of one blinker to another. The move of the on character
\* is conditional on "less", which the test before it never sets: the off
\* character is drawn whatever the status is.
Synced(from, to) ==
  LET f == blink_array[from]
      b == [blink_array[to] EXCEPT !.on_length = f.on_length, !.off_length = f.off_length,
                                   !.countdown = f.countdown, !.status = f.status]
  IN  /\ blink_array' = [blink_array EXCEPT ![to] = b]
      /\ vmem' = [vmem EXCEPT ![b.location] = b.off_char]
      /\ drawn' = [drawn EXCEPT ![b.location] = to]
      /\ synced' = synced \cup {b.location}
      /\ UNCHANGED mp1_list_head

mp1_ioctl_sync(l, m) ==
  LET from == mp1_find_helper(l)
      to == mp1_find_helper(m)
  IN  \/ from # NULL /\ to # NULL /\ Synced(from, to)
      \/ (from = NULL \/ to = NULL) /\ UNCHANGED blinkVars

\* The countdown of the tick has passed: zero or, as a signed word, below it.
Expired(b) ==
  LET left == (b.countdown - 1) % WORD IN left = 0 \/ left >= WORD \div 2

Ticked(b) ==
  IF ~Expired(b) THEN [b EXCEPT !.countdown = (b.countdown - 1) % WORD]
  ELSE [b EXCEPT !.status = 1 - b.status,
                 !.countdown = IF b.status = 1 THEN b.off_length ELSE b.on_length]

\* Mutant: the character of the status that ends is drawn again.
PokedAgain(b) == IF b.status = 1 THEN b.on_char ELSE b.off_char

\* The character drawn when a countdown ends: the other one.
Poked(b) == IF b.status = 1 THEN b.off_char ELSE b.on_char

\* mp1_rtc_tasklet goes down the list: in one cell the last to write shows.
mp1_rtc_tasklet ==
  LET places(l) == {n \in 0..(CELLS - 1) : /\ Chain[n] # NULL
                                           /\ blink_array[Chain[n]].location = l
                                           /\ Expired(blink_array[Chain[n]])}
      writer(l) == Chain[Max(places(l))]
      written == {l \in DOMAIN vmem : places(l) # {}}
  IN  /\ blink_array' = [s \in Slots |-> IF s \in Linked THEN Ticked(blink_array[s])
                                         ELSE blink_array[s]]
      /\ vmem' = [l \in DOMAIN vmem |-> IF l \in written THEN Poked(blink_array[writer(l)])
                                        ELSE vmem[l]]
      /\ drawn' = [l \in DOMAIN drawn |-> IF l \in written THEN writer(l) ELSE drawn[l]]
      /\ synced' = synced \ written
      /\ UNCHANGED mp1_list_head

\* Any program's calls; mp1_ioctl_find copies a blinker out and changes nothing.
BlinkNext ==
  \/ \E r \in Requests : mp1_ioctl_add(r)
  \/ \E l \in DOMAIN vmem \ {0} : mp1_ioctl_remove(l)
  \/ \E l, m \in DOMAIN vmem \ {0} : mp1_ioctl_sync(l, m)
  \/ mp1_rtc_tasklet

BlinkSpec == BlinkInit /\ [][BlinkNext]_blinkVars

-----------------------------------------------------------------------------
\* The list is sound: it ends, and it holds each slot in use and no free one,
\* over every sequence of adds, also to an array that is full, and removes,
\* also of one of two blinkers in a cell. It takes locations other than 0: a
\* blinker added there passes the check of blink.S, and its slot still looks
\* free to mp1_malloc.
ListSound ==
  /\ Chain[CELLS] = NULL
  /\ Linked = {s \in Slots : blink_array[s].location # 0}
  /\ \A m, n \in 0..(CELLS - 1) : Chain[m] = Chain[n] /\ Chain[m] # NULL => m = n

\* A cell that was last written by a blinker still in it shows that blinker's
\* character: the one of its status, so that the next tick turns it into the
\* other one, if an add or a tick wrote it; and the off character, also when
\* the blinker is on, if a sync did (blink.S:78-83, 279-285). Removes and adds
\* of other blinkers in the cell do not get in between.
ShowsStatus ==
  \A l \in DOMAIN vmem \ {0} :
    LET s == drawn[l]
        b == blink_array[s]
    IN  s # NULL /\ b.location = l =>
          s \in Linked /\ vmem[l] = IF l \in synced THEN b.off_char ELSE Char(b)
=============================================================================
