-------------------------- MODULE SpscMailboxProof --------------------------
(* Proofs about SpscMailbox, for every capacity, every cursor width and    *)
(* any number of threads in each role.                                     *)
EXTENDS SpscMailbox, SequenceTheorems, TLAPS

-----------------------------------------------------------------------------
(* Arithmetic of wrapping cursors *)

(* The quotient and remainder of x by n, and that they are unique. *)
LEMMA DivMod ==
    ASSUME NEW n \in Nat \ {0}, NEW x \in Int
    PROVE  /\ x \div n \in Int
           /\ x % n \in 0..(n - 1)
           /\ x = n * (x \div n) + (x % n)
  OBVIOUS

(* Division with remainder is unique. *)
LEMMA ModUnique ==
    ASSUME NEW n \in Nat \ {0}, NEW x \in Int, NEW q \in Int, NEW r \in 0..(n - 1),
           x = n * q + r
    PROVE  x % n = r
<1>1. PICK e \in Int, s \in 0..(n - 1) : /\ e = x \div n
                                          /\ s = x % n
                                          /\ x = n * e + s
  BY DivMod
<1>2. n * (q - e) = s - r
  BY <1>1
<1>3. q - e >= 1 => n * (q - e) >= n
  BY <1>1
<1>4. q - e <= -1 => n * (q - e) <= -n
  BY <1>1
<1>5. q = e
  BY <1>1, <1>2, <1>3, <1>4
<1> QED
  BY <1>1, <1>5

(* A number below the modulus is its own remainder. *)
LEMMA ModSmall ==
    ASSUME NEW n \in Nat \ {0}, NEW x \in 0..(n - 1)
    PROVE  x % n = x
<1>1. x = n * 0 + x
  OBVIOUS
<1> QED
  BY <1>1, ModUnique

(* Adding or removing a multiple of the modulus keeps the remainder. *)
LEMMA ModMultiple ==
    ASSUME NEW n \in Nat \ {0}, NEW w \in Nat, w % n = 0, NEW x \in Int
    PROVE  /\ (x + w) % n = x % n
           /\ (x - w) % n = x % n
<1> DEFINE k == w \div n
           d == x \div n
           r == x % n
<1>1. w = n * k /\ k \in Int
  BY DivMod
<1>2. x = n * d + r /\ d \in Int /\ r \in 0..(n - 1)
  BY DivMod
<1>3. x + w = n * (d + k) + r /\ x - w = n * (d - k) + r
  BY <1>1, <1>2
<1> HIDE DEF k, d, r
<1>4. d + k \in Int /\ d - k \in Int /\ x + w \in Int /\ x - w \in Int
  BY <1>1, <1>2
<1>5. (x + w) % n = r
  BY <1>2, <1>3, <1>4, ModUnique
<1>6. (x - w) % n = r
  BY <1>2, <1>3, <1>4, ModUnique
<1> QED
  BY <1>5, <1>6 DEF r

(* Two numbers less than the modulus apart have different remainders. *)
LEMMA ModDistinct ==
    ASSUME NEW n \in Nat \ {0}, NEW x \in Int, NEW y \in Int, x < y, y < x + n
    PROVE  x % n # y % n
<1> SUFFICES ASSUME x % n = y % n PROVE FALSE
  OBVIOUS
<1>1. PICK d \in Int, e \in Int, r \in 0..(n - 1) : /\ x = n * d + r
                                                  /\ y = n * e + r
  BY DivMod
<1>2. n * (e - d) = y - x
  BY <1>1
<1>3. e - d >= 1 => n * (e - d) >= n
  BY <1>1
<1>4. e - d <= 0 => n * (e - d) <= 0
  BY <1>1
<1> QED
  BY <1>1, <1>2, <1>3, <1>4

(* What wrapping_sub and wrapping_add compute on cursors. *)
LEMMA SubValue ==
    ASSUME NEW a \in Cursor, NEW b \in Cursor
    PROVE  /\ WrappingSub(a, b) = IF a >= b THEN a - b ELSE a - b + Wrap
           /\ WrappingSub(a, b) \in 0..(Wrap - 1)
<1> USE CapacityAssumption, WrapAssumption DEF Cursor
<1>1. CASE a >= b
  <2>1. a - b \in 0..(Wrap - 1)
    BY <1>1
  <2> QED
    BY <1>1, <2>1, ModSmall DEF WrappingSub
<1>2. CASE a < b
  <2>1. a - b + Wrap \in 0..(Wrap - 1)
    BY <1>2
  <2>2. a - b = Wrap * (-1) + (a - b + Wrap)
    BY <1>2
  <2>3. (a - b) % Wrap = a - b + Wrap
    BY <2>1, <2>2, ModUnique
  <2> QED
    BY <1>2, <2>1, <2>3 DEF WrappingSub
<1> QED
  BY <1>1, <1>2

(* What wrapping_add computes on a cursor. *)
LEMMA AddValue ==
    ASSUME NEW a \in Cursor, NEW n \in 0..Wrap
    PROVE  /\ WrappingAdd(a, n) = IF a + n < Wrap THEN a + n ELSE a + n - Wrap
           /\ WrappingAdd(a, n) \in Cursor
<1> USE CapacityAssumption, WrapAssumption DEF Cursor
<1>1. CASE a + n < Wrap
  <2>1. a + n \in 0..(Wrap - 1)
    BY <1>1
  <2> QED
    BY <1>1, <2>1, ModSmall DEF WrappingAdd
<1>2. CASE a + n >= Wrap
  <2>1. a + n - Wrap \in 0..(Wrap - 1)
    BY <1>2
  <2>2. a + n = Wrap * 1 + (a + n - Wrap)
    BY <1>2
  <2>3. (a + n) % Wrap = a + n - Wrap
    BY <2>1, <2>2, ModUnique
  <2> QED
    BY <1>2, <2>1, <2>3 DEF WrappingAdd
<1> QED
  BY <1>1, <1>2

(* Capacity divides Wrap, so a slot index survives the wrap-around. *)
LEMMA SlotOfAdd ==
    ASSUME NEW a \in Cursor, NEW n \in 0..Wrap
    PROVE  /\ SlotOf(WrappingAdd(a, n)) = (a + n) % Capacity
           /\ SlotOf(WrappingAdd(a, n)) \in SlotIx
<1> DEFINE x == a + n
<1>1. x \in Int
  BY WrapAssumption DEF Cursor
<1>2. WrappingAdd(a, n) = x \/ WrappingAdd(a, n) = x - Wrap
  BY AddValue, CapacityAssumption, WrapAssumption DEF Cursor
<1> HIDE DEF x
<1>3. (x - Wrap) % Capacity = x % Capacity
  BY <1>1, ModMultiple, CapacityAssumption, WrapAssumption
<1>4. x % Capacity \in SlotIx
  BY <1>1, DivMod, CapacityAssumption DEF SlotIx
<1>5. SlotOf(WrappingAdd(a, n)) = x % Capacity
  BY <1>2, <1>3 DEF SlotOf
<1> QED
  BY <1>4, <1>5 DEF x

(* Cursors less than Capacity apart use different slots. *)
LEMMA SlotsApart ==
    ASSUME NEW a \in Cursor, NEW m \in 0..Wrap, NEW n \in 0..Wrap,
           m < n, n < m + Capacity
    PROVE  SlotOf(WrappingAdd(a, m)) # SlotOf(WrappingAdd(a, n))
<1> USE CapacityAssumption, WrapAssumption
<1>1. /\ a + m \in Int /\ a + n \in Int
      /\ a + m < a + n /\ a + n < (a + m) + Capacity
  BY DEF Cursor
<1>2. (a + m) % Capacity # (a + n) % Capacity
  BY <1>1, ModDistinct
<1> QED
  BY <1>2, SlotOfAdd

(* The slot of a cursor is a slot of the ring. *)
LEMMA SlotOfCursor ==
    ASSUME NEW a \in Cursor
    PROVE  SlotOf(a) \in SlotIx /\ WrappingAdd(a, 0) = a
<1>1. WrappingAdd(a, 0) = a
  BY AddValue, WrapAssumption, CapacityAssumption DEF Cursor
<1> QED
  BY <1>1, SlotOfAdd, WrapAssumption

(* Where a span of slots ends, and how it grows and shrinks by one. *)
LEMMA CursorSteps ==
    ASSUME NEW h \in Cursor, NEW t \in Cursor
    PROVE  /\ WrappingAdd(h, WrappingSub(t, h)) = t
           /\ WrappingSub(t, h) = 0 <=> t = h
           /\ WrappingAdd(h, 1) \in Cursor
           /\ WrappingSub(t, h) + 1 < Wrap =>
                WrappingSub(WrappingAdd(t, 1), h) = WrappingSub(t, h) + 1
           /\ WrappingSub(t, h) > 0 =>
                WrappingSub(t, WrappingAdd(h, 1)) = WrappingSub(t, h) - 1
<1> USE CapacityAssumption, WrapAssumption
<1> DEFINE l == WrappingSub(t, h)
<1>1. /\ h \in 0..(Wrap - 1) /\ t \in 0..(Wrap - 1)
      /\ l = IF t >= h THEN t - h ELSE t - h + Wrap
      /\ l \in 0..(Wrap - 1)
  BY SubValue DEF Cursor
<1> HIDE DEF l
<1>2. WrappingAdd(h, l) = t
  <2>1. WrappingAdd(h, l) = IF h + l < Wrap THEN h + l ELSE h + l - Wrap
    BY <1>1, AddValue
  <2> QED
    BY <1>1, <2>1
<1>3. l = 0 <=> t = h
  BY <1>1
<1>4. /\ WrappingAdd(h, 1) = IF h + 1 < Wrap THEN h + 1 ELSE h + 1 - Wrap
      /\ WrappingAdd(h, 1) \in Cursor
      /\ WrappingAdd(t, 1) = IF t + 1 < Wrap THEN t + 1 ELSE t + 1 - Wrap
      /\ WrappingAdd(t, 1) \in Cursor
  BY AddValue
<1>5. ASSUME l + 1 < Wrap
      PROVE  WrappingSub(WrappingAdd(t, 1), h) = l + 1
  <2> DEFINE s == WrappingAdd(t, 1)
  <2>1. WrappingSub(s, h) = IF s >= h THEN s - h ELSE s - h + Wrap
    BY <1>4, SubValue
  <2> QED
    BY <1>1, <1>4, <1>5, <2>1
<1>6. ASSUME l > 0
      PROVE  WrappingSub(t, WrappingAdd(h, 1)) = l - 1
  <2> DEFINE g == WrappingAdd(h, 1)
  <2>1. WrappingSub(t, g) = IF t >= g THEN t - g ELSE t - g + Wrap
    BY <1>4, SubValue
  <2> QED
    BY <1>1, <1>4, <1>6, <2>1
<1> QED
  BY <1>2, <1>3, <1>4, <1>5, <1>6 DEF l

(* A cursor k + 1 steps on is one step on from the cursor k steps on. *)
LEMMA AddOne ==
    ASSUME NEW h \in Cursor, NEW k \in 0..(Wrap - 1)
    PROVE  WrappingAdd(WrappingAdd(h, 1), k) = WrappingAdd(h, k + 1)
<1> USE CapacityAssumption, WrapAssumption
<1> DEFINE g == WrappingAdd(h, 1)
<1>1. /\ g = IF h + 1 < Wrap THEN h + 1 ELSE h + 1 - Wrap
      /\ g \in Cursor
  BY AddValue
<1>2. k \in 0..Wrap /\ k + 1 \in 0..Wrap
  OBVIOUS
<1>3. WrappingAdd(g, k) = IF g + k < Wrap THEN g + k ELSE g + k - Wrap
  BY <1>1, <1>2, AddValue
<1>4. WrappingAdd(h, k + 1) = IF h + (k + 1) < Wrap THEN h + (k + 1) ELSE h + (k + 1) - Wrap
  BY <1>2, AddValue
<1> HIDE DEF g
<1>5. WrappingAdd(g, k) = WrappingAdd(h, k + 1)
  BY <1>1, <1>3, <1>4 DEF Cursor
<1> QED
  BY <1>5 DEF g

(* One more cursor adds the slot at the end of the span. *)
LEMMA SpanGrows ==
    ASSUME NEW h \in Cursor, NEW l \in 0..(Capacity - 1)
    PROVE  /\ Span(h, l + 1) = Span(h, l) \cup {SlotOf(WrappingAdd(h, l))}
           /\ SlotOf(WrappingAdd(h, l)) \notin Span(h, l)
<1> USE CapacityAssumption, WrapAssumption
<1>1. 0..(l + 1 - 1) = 0..(l - 1) \cup {l}
  OBVIOUS
<1>2. Span(h, l + 1) = Span(h, l) \cup {SlotOf(WrappingAdd(h, l))}
  BY <1>1 DEF Span
<1>3. ASSUME NEW k \in 0..(l - 1)
      PROVE  SlotOf(WrappingAdd(h, k)) # SlotOf(WrappingAdd(h, l))
  BY <1>3, SlotsApart
<1> QED
  BY <1>2, <1>3 DEF Span

(* One cursor less removes the slot at the start of the span. *)
LEMMA SpanShrinks ==
    ASSUME NEW h \in Cursor, NEW l \in 1..Capacity
    PROVE  /\ Span(WrappingAdd(h, 1), l - 1) = Span(h, l) \ {SlotOf(h)}
           /\ SlotOf(h) \in Span(h, l)
<1> USE CapacityAssumption, WrapAssumption
<1>1. WrappingAdd(h, 0) = h
  BY SlotOfCursor
<1>2. ASSUME NEW k \in 0..(l - 2)
      PROVE  WrappingAdd(WrappingAdd(h, 1), k) = WrappingAdd(h, k + 1)
  <2>1. k \in 0..(Wrap - 1)
    OBVIOUS
  <2> QED
    BY <2>1, AddOne
<1>3. ASSUME NEW k \in 1..(l - 1)
      PROVE  SlotOf(WrappingAdd(h, k)) # SlotOf(h)
  BY <1>1, <1>3, SlotsApart
<1>4. Span(WrappingAdd(h, 1), l - 1) \subseteq Span(h, l) \ {SlotOf(h)}
  <2> SUFFICES ASSUME NEW k \in 0..(l - 2)
               PROVE  SlotOf(WrappingAdd(WrappingAdd(h, 1), k)) \in Span(h, l) \ {SlotOf(h)}
    BY DEF Span
  <2>1. k + 1 \in 1..(l - 1) /\ k + 1 \in 0..(l - 1)
    OBVIOUS
  <2> QED
    BY <1>2, <1>3, <2>1 DEF Span
<1>5. Span(h, l) \ {SlotOf(h)} \subseteq Span(WrappingAdd(h, 1), l - 1)
  <2> SUFFICES ASSUME NEW k \in 0..(l - 1), SlotOf(WrappingAdd(h, k)) # SlotOf(h)
               PROVE  SlotOf(WrappingAdd(h, k)) \in Span(WrappingAdd(h, 1), l - 1)
    BY DEF Span
  <2>1. k # 0
    BY <1>1
  <2>2. k - 1 \in 0..(l - 2) /\ (k - 1) + 1 = k
    BY <2>1
  <2>3. WrappingAdd(WrappingAdd(h, 1), k - 1) = WrappingAdd(h, k)
    BY <1>2, <2>2
  <2> QED
    BY <2>2, <2>3 DEF Span
<1>6. SlotOf(h) \in Span(h, l)
  BY <1>1 DEF Span
<1> QED
  BY <1>4, <1>5, <1>6

(* Distances between cursors add up and split, as long as they stay below *)
(* a whole turn.                                                           *)
LEMMA SubSum ==
    ASSUME NEW a \in Cursor, NEW b \in Cursor, NEW c \in Cursor
    PROVE  /\ WrappingSub(b, a) + WrappingSub(c, b) < Wrap
                => WrappingSub(c, a) = WrappingSub(b, a) + WrappingSub(c, b)
           /\ WrappingSub(b, a) <= WrappingSub(c, a)
                => WrappingSub(c, b) = WrappingSub(c, a) - WrappingSub(b, a)
<1>1. /\ a \in 0..(Wrap - 1) /\ b \in 0..(Wrap - 1) /\ c \in 0..(Wrap - 1)
      /\ Wrap \in Nat
      /\ WrappingSub(b, a) = IF b >= a THEN b - a ELSE b - a + Wrap
      /\ WrappingSub(c, b) = IF c >= b THEN c - b ELSE c - b + Wrap
      /\ WrappingSub(c, a) = IF c >= a THEN c - a ELSE c - a + Wrap
  BY SubValue, WrapAssumption DEF Cursor
<1> QED
  BY <1>1

(* A cursor moved k steps towards a later one, or k steps on from an       *)
(* earlier one.                                                            *)
LEMMA Partway ==
    ASSUME NEW a \in Cursor, NEW b \in Cursor, NEW k \in 0..WrappingSub(b, a)
    PROVE  /\ WrappingAdd(a, k) \in Cursor
           /\ WrappingSub(b, WrappingAdd(a, k)) = WrappingSub(b, a) - k
           /\ WrappingSub(WrappingAdd(a, k), a) = k
<1> DEFINE m == WrappingAdd(a, k)
<1>1. /\ a \in 0..(Wrap - 1) /\ b \in 0..(Wrap - 1)
      /\ Wrap \in Nat
      /\ WrappingSub(b, a) = IF b >= a THEN b - a ELSE b - a + Wrap
      /\ k \in 0..Wrap
  BY SubValue, WrapAssumption DEF Cursor
<1>2. /\ m = IF a + k < Wrap THEN a + k ELSE a + k - Wrap
      /\ m \in Cursor
  BY <1>1, AddValue
<1> HIDE DEF m
<1>3. /\ WrappingSub(b, m) = IF b >= m THEN b - m ELSE b - m + Wrap
      /\ WrappingSub(m, a) = IF m >= a THEN m - a ELSE m - a + Wrap
  BY <1>2, SubValue
<1>4. WrappingSub(b, m) = WrappingSub(b, a) - k /\ WrappingSub(m, a) = k
  BY <1>1, <1>2, <1>3
<1> QED
  BY <1>2, <1>4 DEF m

-----------------------------------------------------------------------------
(* What the invariant says of the ring between two operations *)

(* The distances between the four cursors, from CursorInv. *)
LEMMA Distances ==
    ASSUME RingInv
    PROVE  /\ Live \in 0..Capacity
           /\ Unseen \in 0..Capacity
           /\ Visible \in 0..Live
           /\ tail = WrappingAdd(head, Live)
           /\ \A k \in 0..Unseen :
                 LET h == WrappingAdd(headSeen, k) IN
                 /\ h \in Cursor
                 /\ WrappingSub(head, h) = Unseen - k
                 /\ WrappingSub(tail, h) = WrappingSub(head, h) + Live
           /\ \A k \in 0..WrappingSub(tail, tailSeen) :
                 LET t == WrappingAdd(tailSeen, k) IN
                 /\ t \in Cursor
                 /\ WrappingSub(t, head) = Visible + k
                 /\ WrappingSub(t, head) <= Live
<1> USE CapacityAssumption, WrapAssumption
<1> DEFINE u == Unseen
           v == Visible
           w == WrappingSub(tail, tailSeen)
<1>1. /\ head \in Cursor /\ tail \in Cursor /\ headSeen \in Cursor /\ tailSeen \in Cursor
      /\ u + Live <= Capacity /\ v <= Live
  BY DEF RingInv, TypeOK, CursorInv
<1>2. u \in 0..(Wrap - 1) /\ v \in 0..(Wrap - 1) /\ w \in 0..(Wrap - 1) /\ Live \in 0..(Wrap - 1)
  BY <1>1, SubValue DEF Live, Unseen, Visible
<1>3. tail = WrappingAdd(head, Live)
  BY <1>1, CursorSteps DEF Live
<1>4. w = Live - v
  BY <1>1, SubSum DEF Live, Visible
<1>5. ASSUME NEW k \in 0..u
      PROVE  LET h == WrappingAdd(headSeen, k) IN
             /\ h \in Cursor
             /\ WrappingSub(head, h) = u - k
             /\ WrappingSub(tail, h) = WrappingSub(head, h) + Live
  <2> DEFINE h == WrappingAdd(headSeen, k)
  <2>1. h \in Cursor /\ WrappingSub(head, h) = u - k
    BY <1>1, <1>5, Partway DEF Unseen
  <2> HIDE DEF h
  <2>2. WrappingSub(head, h) + WrappingSub(tail, head) < Wrap
    BY <1>1, <1>2, <2>1 DEF Live
  <2>3. WrappingSub(tail, h) = WrappingSub(head, h) + Live
    BY <1>1, <2>1, <2>2, SubSum DEF Live
  <2> QED
    BY <2>1, <2>3 DEF h
<1>6. ASSUME NEW k \in 0..w
      PROVE  LET t == WrappingAdd(tailSeen, k) IN
             /\ t \in Cursor
             /\ WrappingSub(t, head) = v + k
             /\ WrappingSub(t, head) <= Live
  <2> DEFINE t == WrappingAdd(tailSeen, k)
  <2>1. t \in Cursor /\ WrappingSub(t, tailSeen) = k
    BY <1>1, <1>6, Partway
  <2> HIDE DEF t
  <2>2. WrappingSub(tailSeen, head) + WrappingSub(t, tailSeen) < Wrap
    BY <1>1, <1>2, <1>4, <1>6, <2>1 DEF Visible
  <2>3. WrappingSub(t, head) = v + k
    BY <1>1, <2>1, <2>2, SubSum DEF Visible
  <2>4. v + k <= Live
    BY <1>2, <1>4, <1>6
  <2> QED
    BY <2>1, <2>3, <2>4 DEF t
<1> QED
  BY <1>1, <1>2, <1>3, <1>5, <1>6

(* The unread messages occupy slots of the ring. *)
LEMMA LiveInRing ==
    ASSUME RingInv
    PROVE  LiveSlots \subseteq SlotIx
<1> SUFFICES ASSUME NEW n \in 0..(Live - 1)
             PROVE  SlotOf(WrappingAdd(head, n)) \in SlotIx
  BY DEF LiveSlots, Span
<1>1. n \in 0..Wrap
  BY Distances, CapacityAssumption, WrapAssumption
<1> QED
  BY <1>1, SlotOfAdd DEF RingInv, TypeOK

(* A sender past the full check owns the free slot at tail. *)
LEMMA SenderSlot ==
    ASSUME RingInv, NEW p \in Threads, pc[p] \in {"write_slot", "publish"}
    PROVE  /\ Live \in 0..(Capacity - 1)
           /\ SlotOf(tail) \in SlotIx
           /\ SlotOf(tail) \notin LiveSlots
           /\ SlotOf(head) \in SlotIx
           /\ Live > 0 => SlotOf(tail) # SlotOf(head)
<1>1. Live \in 0..(Capacity - 1)
  BY Distances, CapacityAssumption DEF RingInv, CursorInv
<1>2. head \in Cursor /\ tail \in Cursor
  BY DEF RingInv, TypeOK
<1>3. tail = WrappingAdd(head, Live)
  BY Distances
<1>4. SlotOf(tail) \notin LiveSlots
  BY <1>1, <1>2, <1>3, SpanGrows DEF LiveSlots
<1>5. Live > 0 => SlotOf(head) \in LiveSlots
  BY <1>1, <1>2, SpanShrinks, CapacityAssumption DEF LiveSlots
<1> QED
  BY <1>1, <1>2, <1>4, <1>5, SlotOfCursor

(* A receiver past the empty check has an unread value at head. *)
LEMMA ReceiverSlot ==
    ASSUME RingInv, NEW c \in Threads, pc[c] \in {"read_slot", "advance"}
    PROVE  /\ Live \in 1..Capacity
           /\ SlotOf(head) \in SlotIx
           /\ SlotOf(head) \in LiveSlots
           /\ pc[c] = "read_slot" =>
                inited[SlotOf(head)] /\ slots[SlotOf(head)] \in Msgs
<1>1. Live \in 1..Capacity
  BY Distances, CapacityAssumption DEF RingInv, CursorInv
<1>2. head \in Cursor
  BY DEF RingInv, TypeOK
<1>3. SlotOf(head) \in SlotIx /\ SlotOf(head) \in LiveSlots
  BY <1>1, <1>2, SlotOfCursor, SpanShrinks DEF LiveSlots
<1>4. ASSUME pc[c] = "read_slot"
      PROVE  inited[SlotOf(head)]
  <2>1. \A d \in Threads : pc[d] # "advance"
    BY <1>4 DEF RingInv, ConsumerInv, RecvLabels
  <2>2. ~dropped
    BY <1>4 DEF RingInv, SlotInv, At
  <2> QED
    BY <1>3, <2>1, <2>2 DEF RingInv, SlotInv, At
<1> QED
  BY <1>1, <1>3, <1>4 DEF RingInv, ValueInv

(* The gate admits one sender, the consumer claim one receiver. *)
LEMMA OnlySender ==
    ASSUME RingInv, NEW p \in Threads, pc[p] \in GateLabels, NEW q \in Threads, q # p
    PROVE  pc[q] \notin {"write_slot", "publish"}
  BY DEF RingInv, GateInv, GateLabels

(* The consumer claim admits one receiver. *)
LEMMA OnlyReceiver ==
    ASSUME RingInv, NEW c \in Threads, pc[c] \in RecvLabels, NEW d \in Threads, d # c
    PROVE  pc[d] \notin {"read_slot", "advance"}
  BY DEF RingInv, ConsumerInv, RecvLabels

(* How far each operation on a cursor moves the distances. *)
LEMMA LoadCursorsMoves ==
    ASSUME RingInv, NEW p \in Producers, LoadCursors(p)
    PROVE  /\ Live' = Live /\ Visible' = Visible
           /\ Unseen' \in 0..Unseen
           /\ WrappingSub(tail, headSeen') = Unseen' + Live
<1>1. PICK k \in 0..Unseen : headSeen' = WrappingAdd(headSeen, k)
  BY DEF LoadCursors
<1>2. head' = head /\ tail' = tail /\ tailSeen' = tailSeen
  BY DEF LoadCursors
<1>3. /\ Unseen' = Unseen - k
      /\ WrappingSub(tail, headSeen') = Unseen' + Live
  BY <1>1, <1>2, Distances DEF Unseen
<1>4. Unseen \in Nat
  BY Distances, CapacityAssumption
<1> QED
  BY <1>1, <1>2, <1>3, <1>4 DEF Live, Visible

(* Publishing adds one unread message the receiver has not seen. *)
LEMMA PublishMoves ==
    ASSUME RingInv, NEW p \in Producers, Publish(p)
    PROVE  /\ Live + Unseen < Capacity
           /\ Live' = Live + 1 /\ Visible' = Visible /\ Unseen' = Unseen
<1>1. Live + Unseen < Capacity
  BY Distances, CapacityAssumption DEF RingInv, CursorInv, Publish, At, Threads
<1>2. head \in Cursor /\ tail \in Cursor /\ Live + 1 < Wrap
  BY <1>1, Distances, CapacityAssumption, WrapAssumption DEF RingInv, TypeOK
<1>3. Live' = Live + 1
  BY <1>2, CursorSteps DEF Publish, Live
<1> QED
  BY <1>1, <1>3 DEF Publish, Visible, Unseen

(* A load of tail shows the receiver more unread messages. *)
LEMMA TailLoadMoves ==
    ASSUME RingInv, NEW c \in Consumers, LoadTail(c) \/ IsEmpty(c)
    PROVE  /\ Live' = Live /\ Unseen' = Unseen
           /\ Visible' \in Visible..Live
           /\ Visible' = 0 <=> head = tailSeen'
<1>1. PICK k \in 0..WrappingSub(tail, tailSeen) : tailSeen' = WrappingAdd(tailSeen, k)
  BY DEF LoadTail, IsEmpty
<1>2. head' = head /\ tail' = tail /\ headSeen' = headSeen
  BY DEF LoadTail, IsEmpty
<1>3. /\ tailSeen' \in Cursor
      /\ Visible' = Visible + k
      /\ Visible' <= Live
  BY <1>1, <1>2, Distances DEF Visible
<1>4. WrappingSub(tail, tailSeen) \in Nat /\ Live \in Nat /\ Visible \in Nat
  BY SubValue, Distances, WrapAssumption, CapacityAssumption DEF RingInv, TypeOK
<1>5. Visible' = 0 <=> head = tailSeen'
  BY <1>2, <1>3, CursorSteps DEF RingInv, TypeOK, Visible
<1> QED
  BY <1>1, <1>2, <1>3, <1>4, <1>5 DEF Live, Unseen

(* Advancing takes one message and leaves the sender one behind. *)
LEMMA AdvanceMoves ==
    ASSUME RingInv, NEW c \in Consumers, Advance(c)
    PROVE  /\ Visible > 0 /\ Live > 0
           /\ Live' = Live - 1 /\ Visible' = Visible - 1 /\ Unseen' = Unseen + 1
<1>0. /\ head \in Cursor /\ tail \in Cursor /\ headSeen \in Cursor /\ tailSeen \in Cursor
      /\ Visible > 0 /\ Unseen + Live <= Capacity
  BY DEF RingInv, TypeOK, CursorInv, Advance, At, Threads
<1>1. Visible > 0 /\ Live > 0 /\ Unseen + 1 < Wrap
  BY <1>0, Distances, CapacityAssumption, WrapAssumption
<1>2. Live' = Live - 1
  BY <1>0, <1>1, CursorSteps DEF Advance, Live
<1>3. Visible' = Visible - 1
  BY <1>0, <1>1, CursorSteps DEF Advance, Visible
<1>4. Unseen' = Unseen + 1
  BY <1>0, <1>1, CursorSteps DEF Advance, Unseen
<1> QED
  BY <1>1, <1>2, <1>3, <1>4

-----------------------------------------------------------------------------
(* The invariant is inductive: one lemma per part of it *)

(* A new mailbox satisfies the invariant. *)
LEMMA InitInv == Init => RingInv
<1> SUFFICES ASSUME Init PROVE RingInv
  OBVIOUS
<1> USE CapacityAssumption, WrapAssumption
<1>0. 0 \in Cursor /\ WrappingSub(0, 0) = 0
  BY SubValue DEF Cursor
<1>1. TypeOK
  BY <1>0 DEF Init, TypeOK, ProducerLabels, ConsumerLabels, CloserLabels, Threads,
         Mailbox!Outcomes
<1>2. GateInv /\ ConsumerInv
  BY DEF Init, GateInv, ConsumerInv, GateLabels, RecvLabels
<1>3. CursorInv
  BY <1>0 DEF Init, CursorInv, Live, Visible, Unseen
<1>4. SlotInv
  BY <1>0 DEF Init, SlotInv, LiveSlots, Span, Live, At
<1>5. ValueInv
  BY DEF Init, ValueInv, At, Threads, Mailbox!NoCall, Mailbox!Panicked
<1> QED
  BY <1>1, <1>2, <1>3, <1>4, <1>5 DEF RingInv

(* Every step keeps the types. *)
LEMMA TypeStep == RingInv /\ [Next]_vars => TypeOK'
<1> SUFFICES ASSUME RingInv, [Next]_vars PROVE TypeOK'
  OBVIOUS
<1> USE DEF Threads, ProducerLabels, ConsumerLabels, CloserLabels, At, Goto
<1>0. TypeOK
  BY DEF RingInv
<1>out. /\ {Mailbox!NoCall, Mailbox!Ok, Mailbox!Full, Mailbox!Closed, Mailbox!None,
            Mailbox!Empty, Mailbox!NonEmpty, Mailbox!Unit, Mailbox!Panicked}
               \subseteq Mailbox!Outcomes
        /\ \A m \in Msgs : Mailbox!Some(m) \in Mailbox!Outcomes
  BY DEF Mailbox!Outcomes
<1> USE RolesAssumption
<1>1. ASSUME NEW p \in Producers, NEW m \in Msgs, TrySend(p, m) PROVE TypeOK'
  BY <1>0, <1>1 DEF TypeOK, TrySend, state, cursors, ring
<1>2. ASSUME NEW p \in Producers, ClaimLoad(p) PROVE TypeOK'
  BY <1>0, <1>out, <1>2 DEF TypeOK, ClaimLoad, Return, state, cursors, ring, locals
<1>3. ASSUME NEW p \in Producers, ClaimCas(p) PROVE TypeOK'
  BY <1>0, <1>3 DEF TypeOK, ClaimCas, cursors, ring, locals
<1>4. ASSUME NEW p \in Producers, LoadCursors(p) PROVE TypeOK'
  <2>1. headSeen' \in Cursor
    BY <1>4, Distances DEF LoadCursors
  <2> QED
    BY <1>0, <1>out, <1>4, <2>1 DEF TypeOK, LoadCursors, state, ring
<1>5. ASSUME NEW p \in Producers, WriteSlot(p) PROVE TypeOK'
  BY <1>0, <1>5 DEF TypeOK, WriteSlot, state, cursors, locals
<1>6. ASSUME NEW p \in Producers, Publish(p) PROVE TypeOK'
  <2>1. tail' \in Cursor
    BY <1>0, <1>6, CursorSteps DEF TypeOK, Publish
  <2> QED
    BY <1>0, <1>out, <1>6, <2>1 DEF TypeOK, Publish, state, ring
<1>7. ASSUME NEW p \in Producers, ReleaseProducer(p) PROVE TypeOK'
  BY <1>0, <1>out, <1>7 DEF TypeOK, ReleaseProducer, Return, cursors, ring
<1>8. ASSUME NEW c \in Consumers, Recv(c) PROVE TypeOK'
  <2>1. CASE consumerActive
    BY <1>0, <1>out, <1>8, <2>1 DEF TypeOK, Recv, Return, state, cursors, ring
  <2>2. CASE ~consumerActive
    BY <1>0, <1>8, <2>2 DEF TypeOK, Recv, state, cursors, ring, locals
  <2> QED
    BY <2>1, <2>2
<1>9. ASSUME NEW c \in Consumers, LoadTail(c) PROVE TypeOK'
  <2>1. tailSeen' \in Cursor
    BY <1>9, Distances DEF LoadTail
  <2> QED
    BY <1>0, <1>out, <1>9, <2>1 DEF TypeOK, LoadTail, state, ring
<1>10. ASSUME NEW c \in Consumers, ReadSlot(c) PROVE TypeOK'
  <2>1. Mailbox!Some(slots[SlotOf(head)]) \in Mailbox!Outcomes
    BY <1>out, <1>10, ReceiverSlot DEF ReadSlot
  <2> QED
    BY <1>0, <1>10, <2>1 DEF TypeOK, ReadSlot, state, cursors
<1>11. ASSUME NEW c \in Consumers, Advance(c) PROVE TypeOK'
  <2>1. head' \in Cursor
    BY <1>0, <1>11, CursorSteps DEF TypeOK, Advance
  <2> QED
    BY <1>0, <1>11, <2>1 DEF TypeOK, Advance, state, ring, locals
<1>12. ASSUME NEW c \in Consumers, ReleaseConsumer(c) PROVE TypeOK'
  BY <1>0, <1>out, <1>12 DEF TypeOK, ReleaseConsumer, Return, state, cursors, ring
<1>13. ASSUME NEW c \in Consumers, IsEmpty(c) PROVE TypeOK'
  <2>1. tailSeen' \in Cursor
    BY <1>13, Distances DEF IsEmpty
  <2> QED
    BY <1>0, <1>out, <1>13, <2>1 DEF TypeOK, IsEmpty, Return, state, ring
<1>14. ASSUME NEW k \in Closers, Close(k) PROVE TypeOK'
  BY <1>0, <1>14 DEF TypeOK, Close, state, cursors, ring, locals
<1>15. ASSUME NEW k \in Closers, CloseLoad(k) PROVE TypeOK'
  BY <1>0, <1>out, <1>15 DEF TypeOK, CloseLoad, Return, state, cursors, ring, locals
<1>16. ASSUME NEW k \in Closers, CloseCas(k) PROVE TypeOK'
  BY <1>0, <1>16 DEF TypeOK, CloseCas, state, cursors, ring, locals
<1>17. ASSUME NEW k \in Closers, CloseRelease(k) PROVE TypeOK'
  BY <1>0, <1>out, <1>17 DEF TypeOK, CloseRelease, Return, cursors, ring
<1>18. CASE Drop
  BY <1>0, <1>18 DEF TypeOK, Drop, state, cursors, locals
<1>19. CASE UNCHANGED vars
  BY <1>0, <1>19 DEF TypeOK, vars
<1> QED
  BY <1>1, <1>2, <1>3, <1>4, <1>5, <1>6, <1>7, <1>8, <1>9, <1>10, <1>11, <1>12,
     <1>13, <1>14, <1>15, <1>16, <1>17, <1>18, <1>19
     DEF Next, ProducerStep, ConsumerStep, CloserStep

(* Every step keeps the producer gate exclusive. *)
LEMMA GateStep == RingInv /\ [Next]_vars => GateInv'
<1> SUFFICES ASSUME RingInv, [Next]_vars PROVE GateInv'
  OBVIOUS
<1> USE RolesAssumption DEF Threads, At, Goto, GateLabels
<1>0. TypeOK /\ GateInv
  BY DEF RingInv
<1>1. ASSUME NEW p \in Producers, NEW m \in Msgs, TrySend(p, m) PROVE GateInv'
  BY <1>0, <1>1 DEF TypeOK, ProducerLabels, ConsumerLabels, CloserLabels, GateInv, TrySend, Return, state, cursors, ring, locals
<1>2. ASSUME NEW p \in Producers, ClaimLoad(p) PROVE GateInv'
  BY <1>0, <1>2 DEF TypeOK, ProducerLabels, ConsumerLabels, CloserLabels, GateInv, ClaimLoad, Return, state, cursors, ring, locals
<1>3. ASSUME NEW p \in Producers, ClaimCas(p) PROVE GateInv'
  BY <1>0, <1>3 DEF TypeOK, ProducerLabels, ConsumerLabels, CloserLabels, GateInv, ClaimCas, Return, state, cursors, ring, locals
<1>4. ASSUME NEW p \in Producers, LoadCursors(p) PROVE GateInv'
  BY <1>0, <1>4 DEF TypeOK, ProducerLabels, ConsumerLabels, CloserLabels, GateInv, LoadCursors, Return, state, cursors, ring, locals
<1>5. ASSUME NEW p \in Producers, WriteSlot(p) PROVE GateInv'
  BY <1>0, <1>5 DEF TypeOK, ProducerLabels, ConsumerLabels, CloserLabels, GateInv, WriteSlot, Return, state, cursors, ring, locals
<1>6. ASSUME NEW p \in Producers, Publish(p) PROVE GateInv'
  BY <1>0, <1>6 DEF TypeOK, ProducerLabels, ConsumerLabels, CloserLabels, GateInv, Publish, Return, state, cursors, ring, locals
<1>7. ASSUME NEW p \in Producers, ReleaseProducer(p) PROVE GateInv'
  BY <1>0, <1>7 DEF TypeOK, ProducerLabels, ConsumerLabels, CloserLabels, GateInv, ReleaseProducer, Return, state, cursors, ring, locals
<1>8. ASSUME NEW c \in Consumers, Recv(c) PROVE GateInv'
  BY <1>0, <1>8 DEF TypeOK, ProducerLabels, ConsumerLabels, CloserLabels, GateInv, Recv, Return, state, cursors, ring, locals
<1>9. ASSUME NEW c \in Consumers, LoadTail(c) PROVE GateInv'
  BY <1>0, <1>9 DEF TypeOK, ProducerLabels, ConsumerLabels, CloserLabels, GateInv, LoadTail, Return, state, cursors, ring, locals
<1>10. ASSUME NEW c \in Consumers, ReadSlot(c) PROVE GateInv'
  BY <1>0, <1>10 DEF TypeOK, ProducerLabels, ConsumerLabels, CloserLabels, GateInv, ReadSlot, Return, state, cursors, ring, locals
<1>11. ASSUME NEW c \in Consumers, Advance(c) PROVE GateInv'
  BY <1>0, <1>11 DEF TypeOK, ProducerLabels, ConsumerLabels, CloserLabels, GateInv, Advance, Return, state, cursors, ring, locals
<1>12. ASSUME NEW c \in Consumers, ReleaseConsumer(c) PROVE GateInv'
  BY <1>0, <1>12 DEF TypeOK, ProducerLabels, ConsumerLabels, CloserLabels, GateInv, ReleaseConsumer, Return, state, cursors, ring, locals
<1>13. ASSUME NEW c \in Consumers, IsEmpty(c) PROVE GateInv'
  BY <1>0, <1>13 DEF TypeOK, ProducerLabels, ConsumerLabels, CloserLabels, GateInv, IsEmpty, Return, state, cursors, ring, locals
<1>14. ASSUME NEW k \in Closers, Close(k) PROVE GateInv'
  BY <1>0, <1>14 DEF TypeOK, ProducerLabels, ConsumerLabels, CloserLabels, GateInv, Close, Return, state, cursors, ring, locals
<1>15. ASSUME NEW k \in Closers, CloseLoad(k) PROVE GateInv'
  BY <1>0, <1>15 DEF TypeOK, ProducerLabels, ConsumerLabels, CloserLabels, GateInv, CloseLoad, Return, state, cursors, ring, locals
<1>16. ASSUME NEW k \in Closers, CloseCas(k) PROVE GateInv'
  BY <1>0, <1>16 DEF TypeOK, ProducerLabels, ConsumerLabels, CloserLabels, GateInv, CloseCas, Return, state, cursors, ring, locals
<1>17. ASSUME NEW k \in Closers, CloseRelease(k) PROVE GateInv'
  BY <1>0, <1>17 DEF TypeOK, ProducerLabels, ConsumerLabels, CloserLabels, GateInv, CloseRelease, Return, state, cursors, ring, locals
<1>18. CASE Drop
  BY <1>0, <1>18 DEF TypeOK, ProducerLabels, ConsumerLabels, CloserLabels, GateInv, Drop, state, cursors, locals
<1>19. CASE UNCHANGED vars
  BY <1>0, <1>19 DEF TypeOK, ProducerLabels, ConsumerLabels, CloserLabels, GateInv, vars
<1> QED
  BY <1>1, <1>2, <1>3, <1>4, <1>5, <1>6, <1>7, <1>8, <1>9, <1>10, <1>11,
     <1>12, <1>13, <1>14, <1>15, <1>16, <1>17, <1>18, <1>19
     DEF Next, ProducerStep, ConsumerStep, CloserStep

(* Every step keeps the consumer claim exclusive. *)
LEMMA ConsumerInvStep == RingInv /\ [Next]_vars => ConsumerInv'
<1> SUFFICES ASSUME RingInv, [Next]_vars PROVE ConsumerInv'
  OBVIOUS
<1> USE RolesAssumption DEF Threads, At, Goto, RecvLabels
<1>0. TypeOK /\ ConsumerInv
  BY DEF RingInv
<1>1. ASSUME NEW p \in Producers, NEW m \in Msgs, TrySend(p, m) PROVE ConsumerInv'
  BY <1>0, <1>1 DEF TypeOK, ProducerLabels, ConsumerLabels, CloserLabels, ConsumerInv, TrySend, Return, state, cursors, ring, locals
<1>2. ASSUME NEW p \in Producers, ClaimLoad(p) PROVE ConsumerInv'
  BY <1>0, <1>2 DEF TypeOK, ProducerLabels, ConsumerLabels, CloserLabels, ConsumerInv, ClaimLoad, Return, state, cursors, ring, locals
<1>3. ASSUME NEW p \in Producers, ClaimCas(p) PROVE ConsumerInv'
  BY <1>0, <1>3 DEF TypeOK, ProducerLabels, ConsumerLabels, CloserLabels, ConsumerInv, ClaimCas, Return, state, cursors, ring, locals
<1>4. ASSUME NEW p \in Producers, LoadCursors(p) PROVE ConsumerInv'
  BY <1>0, <1>4 DEF TypeOK, ProducerLabels, ConsumerLabels, CloserLabels, ConsumerInv, LoadCursors, Return, state, cursors, ring, locals
<1>5. ASSUME NEW p \in Producers, WriteSlot(p) PROVE ConsumerInv'
  BY <1>0, <1>5 DEF TypeOK, ProducerLabels, ConsumerLabels, CloserLabels, ConsumerInv, WriteSlot, Return, state, cursors, ring, locals
<1>6. ASSUME NEW p \in Producers, Publish(p) PROVE ConsumerInv'
  BY <1>0, <1>6 DEF TypeOK, ProducerLabels, ConsumerLabels, CloserLabels, ConsumerInv, Publish, Return, state, cursors, ring, locals
<1>7. ASSUME NEW p \in Producers, ReleaseProducer(p) PROVE ConsumerInv'
  BY <1>0, <1>7 DEF TypeOK, ProducerLabels, ConsumerLabels, CloserLabels, ConsumerInv, ReleaseProducer, Return, state, cursors, ring, locals
<1>8. ASSUME NEW c \in Consumers, Recv(c) PROVE ConsumerInv'
  BY <1>0, <1>8 DEF TypeOK, ProducerLabels, ConsumerLabels, CloserLabels, ConsumerInv, Recv, Return, state, cursors, ring, locals
<1>9. ASSUME NEW c \in Consumers, LoadTail(c) PROVE ConsumerInv'
  BY <1>0, <1>9 DEF TypeOK, ProducerLabels, ConsumerLabels, CloserLabels, ConsumerInv, LoadTail, Return, state, cursors, ring, locals
<1>10. ASSUME NEW c \in Consumers, ReadSlot(c) PROVE ConsumerInv'
  BY <1>0, <1>10 DEF TypeOK, ProducerLabels, ConsumerLabels, CloserLabels, ConsumerInv, ReadSlot, Return, state, cursors, ring, locals
<1>11. ASSUME NEW c \in Consumers, Advance(c) PROVE ConsumerInv'
  BY <1>0, <1>11 DEF TypeOK, ProducerLabels, ConsumerLabels, CloserLabels, ConsumerInv, Advance, Return, state, cursors, ring, locals
<1>12. ASSUME NEW c \in Consumers, ReleaseConsumer(c) PROVE ConsumerInv'
  BY <1>0, <1>12 DEF TypeOK, ProducerLabels, ConsumerLabels, CloserLabels, ConsumerInv, ReleaseConsumer, Return, state, cursors, ring, locals
<1>13. ASSUME NEW c \in Consumers, IsEmpty(c) PROVE ConsumerInv'
  BY <1>0, <1>13 DEF TypeOK, ProducerLabels, ConsumerLabels, CloserLabels, ConsumerInv, IsEmpty, Return, state, cursors, ring, locals
<1>14. ASSUME NEW k \in Closers, Close(k) PROVE ConsumerInv'
  BY <1>0, <1>14 DEF TypeOK, ProducerLabels, ConsumerLabels, CloserLabels, ConsumerInv, Close, Return, state, cursors, ring, locals
<1>15. ASSUME NEW k \in Closers, CloseLoad(k) PROVE ConsumerInv'
  BY <1>0, <1>15 DEF TypeOK, ProducerLabels, ConsumerLabels, CloserLabels, ConsumerInv, CloseLoad, Return, state, cursors, ring, locals
<1>16. ASSUME NEW k \in Closers, CloseCas(k) PROVE ConsumerInv'
  BY <1>0, <1>16 DEF TypeOK, ProducerLabels, ConsumerLabels, CloserLabels, ConsumerInv, CloseCas, Return, state, cursors, ring, locals
<1>17. ASSUME NEW k \in Closers, CloseRelease(k) PROVE ConsumerInv'
  BY <1>0, <1>17 DEF TypeOK, ProducerLabels, ConsumerLabels, CloserLabels, ConsumerInv, CloseRelease, Return, state, cursors, ring, locals
<1>18. CASE Drop
  BY <1>0, <1>18 DEF TypeOK, ProducerLabels, ConsumerLabels, CloserLabels, ConsumerInv, Drop, state, cursors, locals
<1>19. CASE UNCHANGED vars
  BY <1>0, <1>19 DEF TypeOK, ProducerLabels, ConsumerLabels, CloserLabels, ConsumerInv, vars
<1> QED
  BY <1>1, <1>2, <1>3, <1>4, <1>5, <1>6, <1>7, <1>8, <1>9, <1>10, <1>11,
     <1>12, <1>13, <1>14, <1>15, <1>16, <1>17, <1>18, <1>19
     DEF Next, ProducerStep, ConsumerStep, CloserStep

(* Every step keeps the cursors in their order around the ring. *)
LEMMA CursorStep == RingInv /\ [Next]_vars => CursorInv'
<1> SUFFICES ASSUME RingInv, [Next]_vars PROVE CursorInv'
  OBVIOUS
<1> USE RolesAssumption DEF Threads, At, Goto
<1>0. TypeOK /\ CursorInv
  BY DEF RingInv
<1>d. /\ Live \in 0..Capacity /\ Unseen \in 0..Capacity /\ Visible \in 0..Live
      /\ Capacity \in Nat \ {0}
  BY Distances, CapacityAssumption
<1>1. ASSUME NEW p \in Producers, NEW m \in Msgs, TrySend(p, m) PROVE CursorInv'
  BY <1>0, <1>1 DEF TypeOK, CursorInv, Live, Visible, Unseen, TrySend, Return, state, cursors, ring, locals
<1>2. ASSUME NEW p \in Producers, ClaimLoad(p) PROVE CursorInv'
  BY <1>0, <1>2 DEF TypeOK, CursorInv, Live, Visible, Unseen, ClaimLoad, Return, state, cursors, ring, locals
<1>3. ASSUME NEW p \in Producers, ClaimCas(p) PROVE CursorInv'
  BY <1>0, <1>3 DEF TypeOK, CursorInv, Live, Visible, Unseen, ClaimCas, Return, state, cursors, ring, locals
<1>4. ASSUME NEW p \in Producers, LoadCursors(p) PROVE CursorInv'
  <2>1. \A q \in Threads : q # p => pc[q] \notin {"write_slot", "publish"}
    BY <1>4, OnlySender DEF LoadCursors, GateLabels
  <2>2. /\ \A q \in Threads : q # p => pc'[q] = pc[q]
        /\ \/ pc'[p] = "release_producer"
           \/ WrappingSub(tail, headSeen') < Capacity /\ pc'[p] = "write_slot"
    BY <1>4, <1>0 DEF TypeOK, LoadCursors
  <2> QED
    BY <1>0, <1>d, <1>4, <2>1, <2>2, LoadCursorsMoves DEF CursorInv
<1>5. ASSUME NEW p \in Producers, WriteSlot(p) PROVE CursorInv'
  BY <1>0, <1>5 DEF TypeOK, CursorInv, Live, Visible, Unseen, WriteSlot, Return, state, cursors, ring, locals
<1>6. ASSUME NEW p \in Producers, Publish(p) PROVE CursorInv'
  <2>1. \A q \in Threads : q # p => pc[q] \notin {"write_slot", "publish"}
    BY <1>6, OnlySender DEF Publish, GateLabels
  <2>2. \A q \in Threads : pc'[q] = IF q = p THEN "release_producer" ELSE pc[q]
    BY <1>6, <1>0 DEF TypeOK, Publish
  <2> QED
    BY <1>0, <1>d, <1>6, <2>1, <2>2, PublishMoves DEF CursorInv
<1>7. ASSUME NEW p \in Producers, ReleaseProducer(p) PROVE CursorInv'
  BY <1>0, <1>7 DEF TypeOK, CursorInv, Live, Visible, Unseen, ReleaseProducer, Return, state, cursors, ring, locals
<1>8. ASSUME NEW c \in Consumers, Recv(c) PROVE CursorInv'
  BY <1>0, <1>8 DEF TypeOK, CursorInv, Live, Visible, Unseen, Recv, Return, state, cursors, ring, locals
<1>9. ASSUME NEW c \in Consumers, LoadTail(c) PROVE CursorInv'
  <2>1. \A d \in Threads : d # c => pc[d] \notin {"read_slot", "advance"}
    BY <1>9, OnlyReceiver DEF LoadTail, RecvLabels
  <2>2. /\ \A d \in Threads : d # c => pc'[d] = pc[d]
        /\ \/ pc'[c] = "release_consumer"
           \/ head # tailSeen' /\ pc'[c] = "read_slot"
    BY <1>9, <1>0 DEF TypeOK, LoadTail
  <2> QED
    BY <1>0, <1>d, <1>9, <2>1, <2>2, TailLoadMoves DEF CursorInv
<1>10. ASSUME NEW c \in Consumers, ReadSlot(c) PROVE CursorInv'
  BY <1>0, <1>10 DEF TypeOK, CursorInv, Live, Visible, Unseen, ReadSlot, Return, state, cursors, ring, locals
<1>11. ASSUME NEW c \in Consumers, Advance(c) PROVE CursorInv'
  <2>1. \A d \in Threads : d # c => pc[d] \notin {"read_slot", "advance"}
    BY <1>11, OnlyReceiver DEF Advance, RecvLabels
  <2>2. \A d \in Threads : pc'[d] = IF d = c THEN "release_consumer" ELSE pc[d]
    BY <1>11, <1>0 DEF TypeOK, Advance
  <2> QED
    BY <1>0, <1>d, <1>11, <2>1, <2>2, AdvanceMoves DEF CursorInv
<1>12. ASSUME NEW c \in Consumers, ReleaseConsumer(c) PROVE CursorInv'
  BY <1>0, <1>12 DEF TypeOK, CursorInv, Live, Visible, Unseen, ReleaseConsumer, Return, state, cursors, ring, locals
<1>13. ASSUME NEW c \in Consumers, IsEmpty(c) PROVE CursorInv'
  <2>1. \A d \in Threads : pc'[d] = pc[d] \/ pc'[d] = "idle"
    BY <1>13, <1>0 DEF TypeOK, IsEmpty, Return
  <2> QED
    BY <1>0, <1>d, <1>13, <2>1, TailLoadMoves DEF CursorInv
<1>14. ASSUME NEW k \in Closers, Close(k) PROVE CursorInv'
  BY <1>0, <1>14 DEF TypeOK, CursorInv, Live, Visible, Unseen, Close, Return, state, cursors, ring, locals
<1>15. ASSUME NEW k \in Closers, CloseLoad(k) PROVE CursorInv'
  BY <1>0, <1>15 DEF TypeOK, CursorInv, Live, Visible, Unseen, CloseLoad, Return, state, cursors, ring, locals
<1>16. ASSUME NEW k \in Closers, CloseCas(k) PROVE CursorInv'
  BY <1>0, <1>16 DEF TypeOK, CursorInv, Live, Visible, Unseen, CloseCas, Return, state, cursors, ring, locals
<1>17. ASSUME NEW k \in Closers, CloseRelease(k) PROVE CursorInv'
  BY <1>0, <1>17 DEF TypeOK, CursorInv, Live, Visible, Unseen, CloseRelease, Return, state, cursors, ring, locals
<1>18. CASE Drop
  BY <1>0, <1>18 DEF TypeOK, CursorInv, Live, Visible, Unseen, Drop, state, cursors, locals
<1>19. CASE UNCHANGED vars
  BY <1>0, <1>19 DEF TypeOK, CursorInv, Live, Visible, Unseen, vars
<1> QED
  BY <1>1, <1>2, <1>3, <1>4, <1>5, <1>6, <1>7, <1>8, <1>9, <1>10, <1>11,
     <1>12, <1>13, <1>14, <1>15, <1>16, <1>17, <1>18, <1>19
     DEF Next, ProducerStep, ConsumerStep, CloserStep

(* Every step keeps track of which slots hold a value. *)
LEMMA SlotStep == RingInv /\ [Next]_vars => SlotInv'
<1> SUFFICES ASSUME RingInv, [Next]_vars PROVE SlotInv'
  OBVIOUS
<1> USE RolesAssumption DEF Threads, At, Goto
<1>0. TypeOK /\ SlotInv
  BY DEF RingInv
<1>same. ASSUME head' = head, tail' = tail
         PROVE  LiveSlots' = LiveSlots
  BY <1>same DEF LiveSlots, Span, Live
(* A step that moves no cursor, touches no slot and passes neither label. *)
<1>other. ASSUME NEW t \in Threads, NEW l,
                 pc[t] \notin {"publish", "advance"}, l \notin {"publish", "advance"},
                 pc' = [pc EXCEPT ![t] = l], dropped' = dropped, ~dropped,
                 head' = head, tail' = tail, inited' = inited
          PROVE  SlotInv'
  <2>1. LiveSlots' = LiveSlots
    BY <1>other, <1>same
  <2>2. /\ (\E c \in Threads : pc'[c] = "advance") <=> (\E c \in Threads : pc[c] = "advance")
        /\ (\E p \in Threads : pc'[p] = "publish") <=> (\E p \in Threads : pc[p] = "publish")
    BY <1>0, <1>other DEF TypeOK
  <2> QED
    BY <1>0, <1>other, <2>1, <2>2 DEF SlotInv
<1>1. ASSUME NEW p \in Producers, NEW m \in Msgs, TrySend(p, m) PROVE SlotInv'
  BY <1>0, <1>1, <1>other DEF SlotInv, TrySend, Return, cursors, ring
<1>2. ASSUME NEW p \in Producers, ClaimLoad(p) PROVE SlotInv'
  BY <1>0, <1>2, <1>other DEF SlotInv, ClaimLoad, Return, cursors, ring
<1>3. ASSUME NEW p \in Producers, ClaimCas(p) PROVE SlotInv'
  BY <1>0, <1>3, <1>other DEF SlotInv, ClaimCas, Return, cursors, ring
<1>4. ASSUME NEW p \in Producers, LoadCursors(p) PROVE SlotInv'
  BY <1>0, <1>4, <1>other DEF SlotInv, LoadCursors, Return, cursors, ring
<1>5. ASSUME NEW p \in Producers, WriteSlot(p) PROVE SlotInv'
  <2>1. /\ SlotOf(tail) \in SlotIx /\ ~dropped
        /\ \A q \in Threads : pc[q] # "publish"
    BY <1>0, <1>5, OnlySender, SenderSlot DEF WriteSlot, GateLabels, SlotInv
  <2>2. /\ \A i \in SlotIx : inited'[i] <=> inited[i] \/ i = SlotOf(tail)
        /\ head' = head /\ tail' = tail /\ dropped' = dropped
    BY <1>0, <1>5, <2>1 DEF TypeOK, WriteSlot, cursors
  <2>3. /\ (\E c \in Threads : pc'[c] = "advance") <=> (\E c \in Threads : pc[c] = "advance")
        /\ pc'[p] = "publish"
    BY <1>0, <1>5 DEF TypeOK, WriteSlot
  <2> QED
    BY <1>0, <1>same, <2>1, <2>2, <2>3 DEF SlotInv
<1>6. ASSUME NEW p \in Producers, Publish(p) PROVE SlotInv'
  <2>1. /\ Live \in 0..(Capacity - 1) /\ SlotOf(tail) \notin LiveSlots
        /\ Live > 0 => SlotOf(tail) # SlotOf(head)
        /\ ~dropped
    BY <1>0, <1>6, SenderSlot DEF Publish, SlotInv
  <2>2. head \in Cursor
    BY <1>0 DEF TypeOK
  <2>3. Live' = Live + 1
    BY <1>6, PublishMoves
  <2>4. LiveSlots' = LiveSlots \cup {SlotOf(tail)}
    BY <1>6, <2>1, <2>2, <2>3, Distances, SpanGrows DEF LiveSlots, Publish
  <2>5. /\ \A q \in Threads : pc'[q] # "publish"
        /\ (\E c \in Threads : pc'[c] = "advance") <=> (\E c \in Threads : pc[c] = "advance")
    BY <1>0, <1>6, OnlySender DEF TypeOK, Publish, GateLabels
  <2>6. (\E c \in Threads : pc[c] = "advance") => SlotOf(tail) # SlotOf(head)
    BY <2>1, ReceiverSlot
  <2> QED
    BY <1>0, <1>6, <2>1, <2>4, <2>5, <2>6 DEF SlotInv, Publish, ring
<1>7. ASSUME NEW p \in Producers, ReleaseProducer(p) PROVE SlotInv'
  BY <1>0, <1>7, <1>other DEF SlotInv, ReleaseProducer, Return, cursors, ring
<1>8. ASSUME NEW c \in Consumers, Recv(c) PROVE SlotInv'
  BY <1>0, <1>8, <1>other DEF SlotInv, Recv, Return, cursors, ring
<1>9. ASSUME NEW c \in Consumers, LoadTail(c) PROVE SlotInv'
  BY <1>0, <1>9, <1>other DEF SlotInv, LoadTail, Return, cursors, ring
<1>10. ASSUME NEW c \in Consumers, ReadSlot(c) PROVE SlotInv'
  <2>1. /\ SlotOf(head) \in SlotIx /\ SlotOf(head) \in LiveSlots /\ Live > 0 /\ ~dropped
        /\ \A d \in Threads : pc[d] # "advance"
    BY <1>0, <1>10, OnlyReceiver, ReceiverSlot, CapacityAssumption DEF ReadSlot, RecvLabels, SlotInv
  <2>2. /\ \A i \in SlotIx : inited'[i] <=> inited[i] /\ i # SlotOf(head)
        /\ head' = head /\ tail' = tail /\ dropped' = dropped
    BY <1>0, <1>10, <2>1 DEF TypeOK, ReadSlot, cursors
  <2>3. /\ (\E p \in Threads : pc'[p] = "publish") <=> (\E p \in Threads : pc[p] = "publish")
        /\ pc'[c] = "advance"
    BY <1>0, <1>10 DEF TypeOK, ReadSlot
  <2>4. (\E p \in Threads : pc[p] = "publish") => SlotOf(tail) # SlotOf(head)
    BY <2>1, SenderSlot
  <2> QED
    BY <1>0, <1>same, <2>1, <2>2, <2>3, <2>4 DEF SlotInv
<1>11. ASSUME NEW c \in Consumers, Advance(c) PROVE SlotInv'
  <2>1. Live \in 1..Capacity /\ head \in Cursor /\ tail \in Cursor /\ ~dropped
    BY <1>0, <1>11, ReceiverSlot DEF TypeOK, Advance, SlotInv
  <2>2. Live' = Live - 1
    BY <1>11, AdvanceMoves
  <2>3. LiveSlots' = LiveSlots \ {SlotOf(head)}
    BY <1>11, <2>1, <2>2, SpanShrinks DEF LiveSlots, Advance
  <2>4. /\ \A d \in Threads : pc'[d] # "advance"
        /\ (\E p \in Threads : pc'[p] = "publish") <=> (\E p \in Threads : pc[p] = "publish")
    BY <1>0, <1>11, OnlyReceiver DEF TypeOK, Advance, RecvLabels
  <2> QED
    BY <1>0, <1>11, <2>1, <2>3, <2>4 DEF SlotInv, Advance, ring
<1>12. ASSUME NEW c \in Consumers, ReleaseConsumer(c) PROVE SlotInv'
  BY <1>0, <1>12, <1>other DEF SlotInv, ReleaseConsumer, Return, cursors, ring
<1>13. ASSUME NEW c \in Consumers, IsEmpty(c) PROVE SlotInv'
  BY <1>0, <1>13, <1>other DEF SlotInv, IsEmpty, Return, cursors, ring
<1>14. ASSUME NEW k \in Closers, Close(k) PROVE SlotInv'
  BY <1>0, <1>14, <1>other DEF SlotInv, Close, Return, cursors, ring
<1>15. ASSUME NEW k \in Closers, CloseLoad(k) PROVE SlotInv'
  BY <1>0, <1>15, <1>other DEF SlotInv, CloseLoad, Return, cursors, ring
<1>16. ASSUME NEW k \in Closers, CloseCas(k) PROVE SlotInv'
  BY <1>0, <1>16, <1>other DEF SlotInv, CloseCas, Return, cursors, ring
<1>17. ASSUME NEW k \in Closers, CloseRelease(k) PROVE SlotInv'
  BY <1>0, <1>17, <1>other DEF SlotInv, CloseRelease, Return, cursors, ring
<1>18. CASE Drop
  <2>1. \A t \in Threads : pc[t] = "idle" /\ pc'[t] = "idle"
    BY <1>18 DEF Drop
  <2> QED
    BY <1>0, <1>18, <2>1 DEF SlotInv, Drop
<1>19. CASE UNCHANGED vars
  BY <1>0, <1>19, <1>same DEF SlotInv, vars
<1> QED
  BY <1>1, <1>2, <1>3, <1>4, <1>5, <1>6, <1>7, <1>8, <1>9, <1>10, <1>11,
     <1>12, <1>13, <1>14, <1>15, <1>16, <1>17, <1>18, <1>19
     DEF Next, ProducerStep, ConsumerStep, CloserStep

(* Every step keeps what the slots and the locals hold. *)
LEMMA ValueStep == RingInv /\ [Next]_vars => ValueInv'
<1> SUFFICES ASSUME RingInv, [Next]_vars PROVE ValueInv'
  OBVIOUS
<1> USE RolesAssumption DEF Threads, At, Goto
<1>0. TypeOK /\ SlotInv /\ ValueInv
  BY DEF RingInv
<1>neq. /\ Mailbox!Panicked \notin {Mailbox!NoCall, Mailbox!Ok, Mailbox!Full, Mailbox!None}
        /\ \A m : Mailbox!Some(m) # Mailbox!Panicked
  BY DEF Mailbox!Panicked, Mailbox!NoCall, Mailbox!Ok, Mailbox!Full, Mailbox!None, Mailbox!Some
<1>1. ASSUME NEW p \in Producers, NEW m \in Msgs, TrySend(p, m) PROVE ValueInv'
  BY <1>0, <1>neq, <1>1 DEF TypeOK, ProducerLabels, ConsumerLabels, CloserLabels, ValueInv,
     TrySend, Return, cursors, ring, locals
<1>2. ASSUME NEW p \in Producers, ClaimLoad(p) PROVE ValueInv'
  BY <1>0, <1>neq, <1>2 DEF TypeOK, ProducerLabels, ConsumerLabels, CloserLabels, ValueInv,
     ClaimLoad, Return, cursors, ring, locals
<1>3. ASSUME NEW p \in Producers, ClaimCas(p) PROVE ValueInv'
  BY <1>0, <1>neq, <1>3 DEF TypeOK, ProducerLabels, ConsumerLabels, CloserLabels, ValueInv,
     ClaimCas, Return, cursors, ring, locals
<1>4. ASSUME NEW p \in Producers, LoadCursors(p) PROVE ValueInv'
  BY <1>0, <1>neq, <1>4 DEF TypeOK, ProducerLabels, ConsumerLabels, CloserLabels, ValueInv,
     LoadCursors, Return, cursors, ring, locals
<1>5. ASSUME NEW p \in Producers, WriteSlot(p) PROVE ValueInv'
  <2>1. /\ SlotOf(tail) \in SlotIx /\ arg[p] \in Msgs
        /\ \A c \in Threads : pc[c] = "advance" => SlotOf(tail) # SlotOf(head) /\ SlotOf(head) \in SlotIx
        /\ \A q \in Threads : q # p => pc[q] # "publish"
    BY <1>0, <1>5, OnlySender, SenderSlot, ReceiverSlot, CapacityAssumption DEF WriteSlot, ValueInv, GateLabels
  <2> QED
    BY <1>0, <1>5, <2>1 DEF TypeOK, ValueInv, WriteSlot, cursors, locals
<1>6. ASSUME NEW p \in Producers, Publish(p) PROVE ValueInv'
  <2>1. \A q \in Threads : q # p => pc[q] # "publish"
    BY <1>6, OnlySender DEF Publish, GateLabels
  <2> QED
    BY <1>0, <1>neq, <1>6, <2>1 DEF TypeOK, ProducerLabels, ConsumerLabels, ValueInv, Publish, ring
<1>7. ASSUME NEW p \in Producers, ReleaseProducer(p) PROVE ValueInv'
  BY <1>0, <1>neq, <1>7 DEF TypeOK, ProducerLabels, ConsumerLabels, CloserLabels, ValueInv,
     ReleaseProducer, Return, cursors, ring, locals
<1>8. ASSUME NEW c \in Consumers, Recv(c) PROVE ValueInv'
  BY <1>0, <1>neq, <1>8 DEF TypeOK, ProducerLabels, ConsumerLabels, CloserLabels, ValueInv,
     Recv, Return, cursors, ring, locals
<1>9. ASSUME NEW c \in Consumers, LoadTail(c) PROVE ValueInv'
  BY <1>0, <1>neq, <1>9 DEF TypeOK, ProducerLabels, ConsumerLabels, CloserLabels, ValueInv,
     LoadTail, Return, cursors, ring, locals
<1>10. ASSUME NEW c \in Consumers, ReadSlot(c) PROVE ValueInv'
  <2>1. SlotOf(head) \in SlotIx /\ slots[SlotOf(head)] \in Msgs
    BY <1>10, ReceiverSlot DEF ReadSlot
  <2>2. \A d \in Threads : d # c => pc[d] # "advance"
    BY <1>10, OnlyReceiver DEF ReadSlot, RecvLabels
  <2>3. \A i \in SlotIx : inited'[i] => inited[i]
    BY <1>10, <1>0 DEF TypeOK, ReadSlot
  <2> QED
    BY <1>0, <1>neq, <1>10, <2>1, <2>2, <2>3 DEF TypeOK, ProducerLabels, ConsumerLabels,
       ValueInv, ReadSlot, cursors
<1>11. ASSUME NEW c \in Consumers, Advance(c) PROVE ValueInv'
  <2>1. \A d \in Threads : d # c => pc[d] # "advance"
    BY <1>11, OnlyReceiver DEF Advance, RecvLabels
  <2> QED
    BY <1>0, <1>11, <2>1 DEF TypeOK, ProducerLabels, ConsumerLabels, ValueInv, Advance, ring, locals
<1>12. ASSUME NEW c \in Consumers, ReleaseConsumer(c) PROVE ValueInv'
  BY <1>0, <1>neq, <1>12 DEF TypeOK, ProducerLabels, ConsumerLabels, CloserLabels, ValueInv,
     ReleaseConsumer, Return, cursors, ring, locals
<1>13. ASSUME NEW c \in Consumers, IsEmpty(c) PROVE ValueInv'
  BY <1>0, <1>neq, <1>13 DEF TypeOK, ProducerLabels, ConsumerLabels, CloserLabels, ValueInv,
     IsEmpty, Return, cursors, ring, locals
<1>14. ASSUME NEW k \in Closers, Close(k) PROVE ValueInv'
  BY <1>0, <1>neq, <1>14 DEF TypeOK, ProducerLabels, ConsumerLabels, CloserLabels, ValueInv,
     Close, Return, cursors, ring, locals
<1>15. ASSUME NEW k \in Closers, CloseLoad(k) PROVE ValueInv'
  BY <1>0, <1>neq, <1>15 DEF TypeOK, ProducerLabels, ConsumerLabels, CloserLabels, ValueInv,
     CloseLoad, Return, cursors, ring, locals
<1>16. ASSUME NEW k \in Closers, CloseCas(k) PROVE ValueInv'
  BY <1>0, <1>neq, <1>16 DEF TypeOK, ProducerLabels, ConsumerLabels, CloserLabels, ValueInv,
     CloseCas, Return, cursors, ring, locals
<1>17. ASSUME NEW k \in Closers, CloseRelease(k) PROVE ValueInv'
  BY <1>0, <1>neq, <1>17 DEF TypeOK, ProducerLabels, ConsumerLabels, CloserLabels, ValueInv,
     CloseRelease, Return, cursors, ring, locals
<1>18. CASE Drop
  BY <1>0, <1>18 DEF ValueInv, Drop, state, cursors, locals
<1>19. CASE UNCHANGED vars
  BY <1>0, <1>19 DEF ValueInv, vars
<1> QED
  BY <1>1, <1>2, <1>3, <1>4, <1>5, <1>6, <1>7, <1>8, <1>9, <1>10, <1>11,
     <1>12, <1>13, <1>14, <1>15, <1>16, <1>17, <1>18, <1>19
     DEF Next, ProducerStep, ConsumerStep, CloserStep

(* Every step of the code preserves the ring's invariant, for any capacity, *)
(* cursor width and set of threads in each role.                            *)
THEOREM RingInvariant == Spec => []RingInv
<1>1. RingInv /\ [Next]_vars => RingInv'
  BY TypeStep, GateStep, ConsumerInvStep, CursorStep, SlotStep, ValueStep DEF RingInv
<1> QED
  BY <1>1, InitInv, PTL DEF Spec

(* Cursors, slots and thread states keep their types at every wrap-around. *)
THEOREM TypeCorrect == Spec => []TypeOK
<1>1. RingInv => TypeOK
  BY DEF RingInv
<1> QED
  BY <1>1, RingInvariant, PTL

(* The unsafe blocks never touch a slot they do not own. *)
THEOREM SlotsAreSafe == Spec => []SlotSafety
<1>1. RingInv => SlotSafety
  <2> SUFFICES ASSUME RingInv PROVE SlotSafety
    OBVIOUS
  <2> USE DEF Threads, At
  <2>1. ASSUME NEW p \in Producers, pc[p] = "write_slot"
        PROVE  /\ ~inited[SlotOf(tail)]
               /\ \A c \in Consumers : pc[c] = "read_slot" => SlotOf(tail) # SlotOf(head)
    <3>1. /\ SlotOf(tail) \in SlotIx /\ SlotOf(tail) \notin LiveSlots
          /\ Live > 0 => SlotOf(tail) # SlotOf(head)
      BY <2>1, SenderSlot
    <3>2. \A q \in Threads : pc[q] # "publish"
      BY <2>1, OnlySender DEF GateLabels
    <3>3. ~inited[SlotOf(tail)]
      BY <3>1, <3>2 DEF RingInv, SlotInv
    <3> QED
      BY <3>1, <3>3, ReceiverSlot, CapacityAssumption
  <2>2. ASSUME NEW c \in Consumers, pc[c] = "read_slot"
        PROVE  inited[SlotOf(head)]
    BY <2>2, ReceiverSlot
  <2>3. ASSUME NEW p \in Producers, NEW q \in Producers,
               {pc[p], pc[q]} \subseteq {"write_slot", "publish"}
        PROVE  p = q
    BY <2>3 DEF RingInv, GateInv, GateLabels
  <2>4. ASSUME NEW c \in Consumers, NEW d \in Consumers,
               {pc[c], pc[d]} \subseteq {"read_slot", "advance"}
        PROVE  c = d
    BY <2>4 DEF RingInv, ConsumerInv, RecvLabels
  <2> QED
    BY <2>1, <2>2, <2>3, <2>4 DEF SlotSafety
<1> QED
  BY <1>1, RingInvariant, PTL

(* Drop finds exactly the unread values initialized, and leaves none. *)
THEOREM DropsExactlyOnce == Spec => []DropExactlyOnce
<1>1. RingInv => DropExactlyOnce
  BY DEF RingInv, SlotInv, DropExactlyOnce, At
<1> QED
  BY <1>1, RingInvariant, PTL

(* With one producer and one consumer no call panics, closes included. *)
THEOREM NeverPanics == Spec => []NoSpuriousPanic
<1>1. Init => NoSpuriousPanic
  BY DEF Init, NoSpuriousPanic, Mailbox!NoCall, Mailbox!Panicked
<1>2. RingInv /\ NoSpuriousPanic /\ [Next]_vars => NoSpuriousPanic'
  <2> SUFFICES ASSUME RingInv, NoSpuriousPanic, [Next]_vars,
                      \A p, q \in Producers : p = q,
                      \A c, d \in Consumers : c = d
               PROVE  \A t \in Threads : ret'[t] # Mailbox!Panicked
    BY DEF NoSpuriousPanic
  <2> USE RolesAssumption DEF Threads, At, Goto
  <2>0. /\ ret \in [Threads -> Mailbox!Outcomes]
        /\ \A t \in Threads : ret[t] # Mailbox!Panicked
        /\ \A t \in Threads : res[t] # Mailbox!Panicked
    BY DEF RingInv, TypeOK, ValueInv, NoSpuriousPanic
  <2>neq. Mailbox!Panicked \notin {Mailbox!Closed, Mailbox!Unit, Mailbox!Empty, Mailbox!NonEmpty}
    BY DEF Mailbox!Panicked, Mailbox!Closed, Mailbox!Unit, Mailbox!Empty, Mailbox!NonEmpty
  <2>1. ASSUME NEW p \in Producers, ClaimLoad(p)
        PROVE  \A t \in Threads : ret'[t] # Mailbox!Panicked
    <3>1. ~(~closedBit /\ heldBit)
      <4> SUFFICES ASSUME ~closedBit, heldBit PROVE FALSE
        OBVIOUS
      <4>1. PICK t \in Threads : pc[t] \in GateLabels
        BY DEF RingInv, GateInv
      <4>2. pc[t] # "close_release"
        BY <4>1 DEF RingInv, GateInv
      <4>3. t \in Producers
        BY <4>1, <4>2 DEF RingInv, TypeOK, GateLabels, ConsumerLabels, CloserLabels
      <4> QED
        BY <2>1, <4>1, <4>3 DEF ClaimLoad, GateLabels
    <3> QED
      BY <2>0, <2>1, <2>neq, <3>1 DEF ClaimLoad, Return
  <2>2. ASSUME NEW c \in Consumers, Recv(c)
        PROVE  \A t \in Threads : ret'[t] # Mailbox!Panicked
    <3>1. ~consumerActive
      <4> SUFFICES ASSUME consumerActive PROVE FALSE
        OBVIOUS
      <4>1. PICK t \in Threads : pc[t] \in RecvLabels
        BY DEF RingInv, ConsumerInv
      <4>2. t \in Consumers
        BY <4>1 DEF RingInv, TypeOK, RecvLabels, ProducerLabels, CloserLabels
      <4> QED
        BY <2>2, <4>1, <4>2 DEF Recv, RecvLabels
    <3> QED
      BY <2>0, <2>2, <3>1 DEF Recv
  <2>3. ASSUME NEW t \in Threads,
               \/ ReleaseProducer(t) \/ ReleaseConsumer(t) \/ IsEmpty(t)
               \/ CloseLoad(t) \/ CloseRelease(t)
        PROVE  \A u \in Threads : ret'[u] # Mailbox!Panicked
    BY <2>0, <2>3, <2>neq
       DEF ReleaseProducer, ReleaseConsumer, IsEmpty, CloseLoad, CloseRelease, Return
  <2>4. CASE ret' = ret
    BY <2>0, <2>4
  <2> QED
    BY <2>1, <2>2, <2>3, <2>4
       DEF Next, ProducerStep, ConsumerStep, CloserStep, vars, TrySend, ClaimCas,
           LoadCursors, WriteSlot, Publish, LoadTail, ReadSlot, Advance, Close, CloseCas, Drop
<1> QED
  BY <1>1, <1>2, RingInvariant, PTL DEF Spec

-----------------------------------------------------------------------------
(* The ring implements the Mailbox trait *)

(* The unread slots, in order, are a sequence of Live messages. *)
ContentsShape ==
    /\ Contents \in Seq(Msgs \cup {NoMsg})
    /\ Len(Contents) = Live
    /\ \A i \in 1..Live : Contents[i] = slots[SlotOf(WrappingAdd(head, i - 1))]

(* The abstract queue is a sequence of Live messages. *)
LEMMA ContentsSeq == RingInv => ContentsShape
<1> SUFFICES ASSUME RingInv PROVE ContentsShape
  OBVIOUS
<1>1. Live \in Nat /\ Live <= Capacity /\ Capacity \in Nat /\ Wrap \in Nat /\ Wrap >= 2 * Capacity
  BY Distances, CapacityAssumption, WrapAssumption
<1>2. ASSUME NEW i \in 1..Live
      PROVE  slots[SlotOf(WrappingAdd(head, i - 1))] \in Msgs \cup {NoMsg}
  <2>1. i - 1 \in 0..Wrap
    BY <1>1
  <2>2. head \in Cursor /\ slots \in [SlotIx -> Msgs \cup {NoMsg}]
    BY DEF RingInv, TypeOK
  <2> QED
    BY <2>1, <2>2, SlotOfAdd
<1>3. Contents \in [1..Live -> Msgs \cup {NoMsg}]
  BY <1>2 DEF Contents
<1>4. Contents \in Seq(Msgs \cup {NoMsg})
  BY <1>1, <1>3, SeqDef
<1>5. Len(Contents) = Live
  BY <1>1, <1>3, <1>4, LenProperties
<1> QED
  BY <1>4, <1>5 DEF Contents, ContentsShape

(* The contents stay the same while neither cursor nor an unread slot does; *)
(* Publish appends the message being sent; Advance removes the first one.   *)
LEMMA ContentsSame ==
    ASSUME RingInv, head' = head, tail' = tail,
           \A i \in LiveSlots : slots'[i] = slots[i]
    PROVE  Contents' = Contents
<1>1. Live' = Live
  BY DEF Live
<1>2. Live \in Nat
  BY Distances, CapacityAssumption
<1>3. \A i \in 1..Live : SlotOf(WrappingAdd(head, i - 1)) \in LiveSlots
  <2> TAKE i \in 1..Live
  <2>1. i - 1 \in 0..(Live - 1)
    BY <1>2
  <2> QED
    BY <2>1 DEF LiveSlots, Span
<1> QED
  BY <1>1, <1>3 DEF Contents

(* Publish appends the message being sent. *)
LEMMA ContentsAppend ==
    ASSUME RingInv, RingInv', NEW p \in Producers, Publish(p)
    PROVE  Contents' = Append(Contents, arg[p])
<1> DEFINE S == Msgs \cup {NoMsg}
<1>1. ContentsShape /\ ContentsShape'
  BY ContentsSeq, PTL
<1>2. Live \in Nat /\ Live' = Live + 1
  BY Distances, PublishMoves, CapacityAssumption
<1>3. /\ head' = head /\ slots' = slots /\ arg[p] \in S
      /\ slots[SlotOf(tail)] = arg[p]
  BY DEF RingInv, ValueInv, Publish, ring, At
<1>4. slots[SlotOf(WrappingAdd(head, Live))] = arg[p]
  BY <1>3, Distances
<1>5. /\ Append(Contents, arg[p]) \in Seq(S)
      /\ Len(Append(Contents, arg[p])) = Live + 1
      /\ \A i \in 1..Live : Append(Contents, arg[p])[i] = Contents[i]
      /\ Append(Contents, arg[p])[Live + 1] = arg[p]
  BY <1>1, <1>3, AppendProperties DEF ContentsShape
<1>6. ASSUME NEW i \in 1..(Live + 1)
      PROVE  Contents'[i] = Append(Contents, arg[p])[i]
  <2>0. i \in 1..Live'
    BY <1>2
  <2>1. Contents'[i] = slots[SlotOf(WrappingAdd(head, i - 1))]
    BY <1>1, <1>3, <2>0 DEF ContentsShape
  <2>2. CASE i = Live + 1
    <3>1. i - 1 = Live
      BY <1>2, <2>2
    <3> QED
      BY <1>4, <1>5, <2>1, <2>2, <3>1
  <2>3. CASE i \in 1..Live
    BY <1>1, <1>5, <2>1, <2>3 DEF ContentsShape
  <2>4. i = Live + 1 \/ i \in 1..Live
    BY <1>2
  <2> QED
    BY <2>2, <2>3, <2>4
<1>7. Contents' \in Seq(S) /\ Len(Contents') = Live + 1
  BY <1>1, <1>2 DEF ContentsShape
<1> HIDE DEF S
<1> QED
  BY <1>5, <1>6, <1>7, SeqEqual

(* Advance removes the first message. *)
LEMMA ContentsTail ==
    ASSUME RingInv, RingInv', NEW c \in Consumers, Advance(c)
    PROVE  /\ Contents # <<>>
           /\ Contents' = Tail(Contents)
           /\ Head(Contents) = slots[SlotOf(head)]
<1> DEFINE S == Msgs \cup {NoMsg}
<1>1. ContentsShape /\ ContentsShape'
  BY ContentsSeq, PTL
<1>2. /\ Live \in 1..Capacity /\ Live' = Live - 1
      /\ Capacity \in Nat /\ Wrap \in Nat /\ Wrap >= 2 * Capacity
  BY Distances, AdvanceMoves, CapacityAssumption, WrapAssumption
<1>3. head' = WrappingAdd(head, 1) /\ slots' = slots /\ head \in Cursor
  BY DEF RingInv, TypeOK, Advance, ring
<1>4. Contents \in Seq(S) /\ Len(Contents) = Live /\ Contents # <<>>
  BY <1>1, <1>2, EmptySeq DEF ContentsShape
<1>5. /\ Tail(Contents) \in Seq(S) /\ Len(Tail(Contents)) = Live - 1
      /\ \A i \in 1..(Live - 1) : Tail(Contents)[i] = Contents[i + 1]
      /\ Head(Contents) = Contents[1]
  BY <1>4, HeadTailProperties
<1>6. Head(Contents) = slots[SlotOf(head)]
  BY <1>1, <1>2, <1>3, <1>5, SlotOfCursor DEF ContentsShape
<1>7. ASSUME NEW i \in 1..(Live - 1)
      PROVE  Contents'[i] = Tail(Contents)[i]
  <2>1. Contents'[i] = slots[SlotOf(WrappingAdd(WrappingAdd(head, 1), i - 1))]
    BY <1>1, <1>2, <1>3 DEF ContentsShape
  <2>2. WrappingAdd(WrappingAdd(head, 1), i - 1) = WrappingAdd(head, i)
    <3> DEFINE k == i - 1
    <3>1. k \in 0..(Wrap - 1) /\ k + 1 \in 0..Wrap /\ k + 1 = i
      BY <1>2
    <3> HIDE DEF k
    <3>2. WrappingAdd(WrappingAdd(head, 1), k) = WrappingAdd(head, k + 1)
      BY <1>3, <3>1, AddOne
    <3> QED
      BY <3>1, <3>2 DEF k
  <2>3. i + 1 \in 1..Live /\ (i + 1) - 1 = i
    BY <1>2
  <2>4. Contents[i + 1] = slots[SlotOf(WrappingAdd(head, i))]
    BY <1>1, <2>3 DEF ContentsShape
  <2> QED
    BY <1>5, <2>1, <2>2, <2>4
<1>8. Contents' \in Seq(S) /\ Len(Contents') = Live - 1
  BY <1>1, <1>2 DEF ContentsShape
<1> HIDE DEF S
<1> QED
  BY <1>4, <1>5, <1>6, <1>7, <1>8, SeqEqual

(* Each step of the ring is a step of the trait's contract or changes      *)
(* nothing the contract mentions.                                          *)
LEMMA MailboxStep ==
    ASSUME RingInv, RingInv', [Next]_vars
    PROVE  [Mailbox!Next]_(Mailbox!mailboxVars)
<1> USE RolesAssumption DEF At, Goto
<1>0. TypeOK /\ pc \in [Threads -> ProducerLabels \cup ConsumerLabels \cup CloserLabels]
      /\ res \in [Threads -> Mailbox!Outcomes] /\ ret \in [Threads -> Mailbox!Outcomes]
  BY DEF RingInv, TypeOK
<1>cur. ASSUME head' = head, tail' = tail, headSeen' = headSeen, tailSeen' = tailSeen
        PROVE  Live' = Live /\ Visible' = Visible /\ Unseen' = Unseen
  BY <1>cur DEF Live, Visible, Unseen
(* A step that returns, and one that decides the result under a guard. *)
<1>ret. ASSUME NEW t \in Threads, NEW r, Return(t, r)
        PROVE  Outcome' = [Outcome EXCEPT ![t] = r]
  BY <1>0, <1>ret DEF Outcome, Return
<1>out. ASSUME NEW t \in Threads, NEW l \in {"release_producer", "release_consumer"}, NEW r,
               pc' = [pc EXCEPT ![t] = l], res' = [res EXCEPT ![t] = r], ret' = ret
        PROVE  Outcome' = [Outcome EXCEPT ![t] = r]
  BY <1>0, <1>out DEF Outcome
(* A step that decides no result. *)
<1>quiet. ASSUME NEW t \in Threads, NEW l,
                 pc' = [pc EXCEPT ![t] = l],
                 pc[t] \notin {"release_producer", "release_consumer"},
                 l \notin {"release_producer", "release_consumer"},
                 ret' = ret,
                 res' = res \/ \E x : res' = [res EXCEPT ![t] = x]
          PROVE  Outcome' = Outcome
  BY <1>0, <1>quiet DEF Outcome
<1>stutter. ASSUME head' = head, tail' = tail, headSeen' = headSeen, tailSeen' = tailSeen,
                   slots' = slots, closedBit' = closedBit, Outcome' = Outcome
            PROVE  UNCHANGED Mailbox!mailboxVars
  BY <1>cur, <1>stutter, ContentsSame DEF Mailbox!mailboxVars
<1>1. ASSUME NEW p \in Producers, NEW m \in Msgs, TrySend(p, m) PROVE [Mailbox!Next]_(Mailbox!mailboxVars)
  <2>1. Outcome' = Outcome
    BY <1>1, <1>quiet DEF TrySend, Threads
  <2> QED
    BY <1>1, <1>stutter, <2>1 DEF TrySend, state, cursors, ring
<1>2. ASSUME NEW p \in Producers, ClaimLoad(p) PROVE [Mailbox!Next]_(Mailbox!mailboxVars)
  <2>0. /\ Contents' = Contents /\ closedBit' = closedBit
        /\ Visible' = Visible /\ Unseen' = Unseen
    BY <1>2, <1>cur, ContentsSame DEF ClaimLoad, state, cursors, ring
  <2>1. CASE closedBit
    <3>1. Outcome' = [Outcome EXCEPT ![p] = Mailbox!Closed]
      BY <1>2, <1>ret, <2>1 DEF ClaimLoad, Threads
    <3> QED
      BY <2>0, <2>1, <3>1 DEF Mailbox!Next, Mailbox!SendClosed, Mailbox!Returns
  <2>2. CASE ~closedBit /\ heldBit
    <3>1. Outcome' = [Outcome EXCEPT ![p] = Mailbox!Panicked]
      BY <1>2, <1>ret, <2>2 DEF ClaimLoad, Threads
    <3> QED
      BY <2>0, <3>1 DEF Mailbox!Next, Mailbox!Refuse, Mailbox!Returns
  <2>3. CASE ~closedBit /\ ~heldBit
    <3>1. Outcome' = Outcome
      BY <1>2, <1>quiet, <2>3 DEF ClaimLoad, Threads, locals
    <3> QED
      BY <2>0, <3>1 DEF Mailbox!mailboxVars
  <2> QED
    BY <2>1, <2>2, <2>3
<1>3. ASSUME NEW p \in Producers, ClaimCas(p) PROVE [Mailbox!Next]_(Mailbox!mailboxVars)
  <2>1. Outcome' = Outcome
    BY <1>3, <1>quiet DEF ClaimCas, Threads, locals
  <2> QED
    BY <1>3, <1>stutter, <2>1 DEF ClaimCas, cursors, ring
<1>4. ASSUME NEW p \in Producers, LoadCursors(p) PROVE [Mailbox!Next]_(Mailbox!mailboxVars)
  <2>0. /\ Live' = Live /\ Visible' = Visible /\ Unseen' \in 0..Unseen
        /\ WrappingSub(tail, headSeen') = Unseen' + Live
    BY <1>4, LoadCursorsMoves
  <2>1. Contents' = Contents /\ closedBit' = closedBit
    BY <1>4, ContentsSame DEF LoadCursors, state, ring
  <2>2. CASE WrappingSub(tail, headSeen') >= Capacity /\ res' = [res EXCEPT ![p] = Mailbox!Full]
             /\ pc' = [pc EXCEPT ![p] = "release_producer"]
    <3>1. Outcome' = [Outcome EXCEPT ![p] = Mailbox!Full]
      BY <1>4, <1>out, <2>2 DEF LoadCursors, Threads
    <3>2. ~closedBit
      BY <1>4 DEF RingInv, GateInv, GateLabels, LoadCursors, Threads
    <3>3. Len(Contents) + Unseen' >= Capacity
      BY <2>0, <2>2, ContentsSeq, Distances, CapacityAssumption DEF ContentsShape
    <3> QED
      BY <2>0, <2>1, <3>1, <3>2, <3>3 DEF Mailbox!Next, Mailbox!SendFull, Mailbox!Returns
  <2>3. CASE res' = res /\ pc' = [pc EXCEPT ![p] = "write_slot"]
    <3>1. Outcome' = Outcome
      BY <1>4, <1>quiet, <2>3 DEF LoadCursors, Threads
    <3>2. Visible' \in Visible..Len(Contents)
      BY <2>0, ContentsSeq, Distances, CapacityAssumption DEF ContentsShape
    <3> QED
      BY <2>0, <2>1, <3>1, <3>2 DEF Mailbox!Next, Mailbox!Observe
  <2> QED
    BY <1>4, <2>2, <2>3 DEF LoadCursors
<1>5. ASSUME NEW p \in Producers, WriteSlot(p) PROVE [Mailbox!Next]_(Mailbox!mailboxVars)
  <2>1. Outcome' = Outcome
    BY <1>5, <1>quiet DEF WriteSlot, Threads, locals
  <2>2. \A i \in LiveSlots : slots'[i] = slots[i]
    <3>1. SlotOf(tail) \notin LiveSlots
      BY <1>5, SenderSlot DEF WriteSlot, Threads
    <3>2. LiveSlots \subseteq SlotIx
      BY LiveInRing
    <3> QED
      BY <1>5, <1>0, <3>1, <3>2 DEF TypeOK, WriteSlot
  <2>3. Contents' = Contents
    BY <1>5, <2>2, ContentsSame DEF WriteSlot, cursors
  <2> QED
    BY <1>5, <1>cur, <2>1, <2>3 DEF WriteSlot, state, cursors, Mailbox!mailboxVars
<1>6. ASSUME NEW p \in Producers, Publish(p) PROVE [Mailbox!Next]_(Mailbox!mailboxVars)
  <2>1. Contents' = Append(Contents, arg[p])
    BY <1>6, ContentsAppend
  <2>2. Outcome' = [Outcome EXCEPT ![p] = Mailbox!Ok]
    BY <1>6, <1>out DEF Publish, Threads
  <2>3. ~closedBit
    BY <1>6 DEF RingInv, GateInv, GateLabels, Publish, Threads
  <2>4. arg[p] \in Msgs
    BY <1>6 DEF RingInv, ValueInv, Publish
  <2>5. Len(Contents) < Capacity
    BY <1>6, PublishMoves, ContentsSeq, Distances, CapacityAssumption DEF ContentsShape
  <2>6. Mailbox!SendOk(p, arg[p])
    BY <1>6, <2>1, <2>2, <2>3, <2>5, PublishMoves
       DEF Mailbox!SendOk, Mailbox!Returns, Publish, state
  <2> QED
    BY <2>4, <2>6 DEF Mailbox!Next
<1>7. ASSUME NEW p \in Producers, ReleaseProducer(p) PROVE [Mailbox!Next]_(Mailbox!mailboxVars)
  <2>1. Outcome' = Outcome
    BY <1>7, <1>0 DEF ReleaseProducer, Return, Outcome, Threads
  <2> QED
    BY <1>7, <1>stutter, <2>1 DEF ReleaseProducer, cursors, ring
<1>8. ASSUME NEW c \in Consumers, Recv(c) PROVE [Mailbox!Next]_(Mailbox!mailboxVars)
  <2>0. /\ Contents' = Contents /\ closedBit' = closedBit
        /\ Visible' = Visible /\ Unseen' = Unseen
    BY <1>8, <1>cur, ContentsSame DEF Recv, state, cursors, ring
  <2>1. CASE consumerActive
    <3>1. Outcome' = [Outcome EXCEPT ![c] = Mailbox!Panicked]
      BY <1>8, <1>ret, <2>1 DEF Recv, Threads
    <3> QED
      BY <2>0, <3>1 DEF Mailbox!Next, Mailbox!Refuse, Mailbox!Returns
  <2>2. CASE ~consumerActive
    <3>1. Outcome' = Outcome
      BY <1>8, <1>quiet, <2>2 DEF Recv, Threads, locals
    <3> QED
      BY <2>0, <3>1 DEF Mailbox!mailboxVars
  <2> QED
    BY <2>1, <2>2
<1>9. ASSUME NEW c \in Consumers, LoadTail(c) PROVE [Mailbox!Next]_(Mailbox!mailboxVars)
  <2>0. /\ Live' = Live /\ Unseen' = Unseen /\ Visible' \in Visible..Live
        /\ Visible' = 0 <=> head = tailSeen'
    BY <1>9, TailLoadMoves
  <2>1. Contents' = Contents /\ closedBit' = closedBit
    BY <1>9, ContentsSame DEF LoadTail, state, ring
  <2>2. CASE head = tailSeen' /\ res' = [res EXCEPT ![c] = Mailbox!None]
             /\ pc' = [pc EXCEPT ![c] = "release_consumer"]
    <3>1. Outcome' = [Outcome EXCEPT ![c] = Mailbox!None]
      BY <1>9, <1>out, <2>2 DEF LoadTail, Threads
    <3>2. Visible = 0 /\ Visible' = 0
      BY <2>0, <2>2, Distances, CapacityAssumption
    <3> QED
      BY <2>0, <2>1, <3>1, <3>2 DEF Mailbox!Next, Mailbox!RecvNone, Mailbox!Returns
  <2>3. CASE res' = res /\ pc' = [pc EXCEPT ![c] = "read_slot"]
    <3>1. Outcome' = Outcome
      BY <1>9, <1>quiet, <2>3 DEF LoadTail, Threads
    <3>2. Visible' \in Visible..Len(Contents) /\ Unseen' \in 0..Unseen
      BY <2>0, ContentsSeq, Distances, CapacityAssumption DEF ContentsShape
    <3> QED
      BY <2>1, <3>1, <3>2 DEF Mailbox!Next, Mailbox!Observe
  <2> QED
    BY <1>9, <2>2, <2>3 DEF LoadTail
<1>10. ASSUME NEW c \in Consumers, ReadSlot(c) PROVE [Mailbox!Next]_(Mailbox!mailboxVars)
  <2>1. Outcome' = Outcome
    BY <1>10, <1>quiet DEF ReadSlot, Threads
  <2> QED
    BY <1>10, <1>stutter, <2>1 DEF ReadSlot, state, cursors
<1>11. ASSUME NEW c \in Consumers, Advance(c) PROVE [Mailbox!Next]_(Mailbox!mailboxVars)
  <2>1. Contents # <<>> /\ Contents' = Tail(Contents) /\ Head(Contents) = slots[SlotOf(head)]
    BY <1>11, ContentsTail
  <2>2. res[c] = Mailbox!Some(slots[SlotOf(head)])
    BY <1>11 DEF RingInv, ValueInv, Advance
  <2>3. Outcome' = [Outcome EXCEPT ![c] = Mailbox!Some(Head(Contents))]
    BY <1>11, <1>0, <2>1, <2>2 DEF Advance, Threads, Outcome, locals
  <2>4. Visible > 0 /\ Visible' = Visible - 1 /\ Unseen' = Unseen + 1 /\ closedBit' = closedBit
    BY <1>11, AdvanceMoves DEF Advance, state
  <2> QED
    BY <2>1, <2>3, <2>4 DEF Mailbox!Next, Mailbox!RecvSome, Mailbox!Returns
<1>12. ASSUME NEW c \in Consumers, ReleaseConsumer(c) PROVE [Mailbox!Next]_(Mailbox!mailboxVars)
  <2>1. Outcome' = Outcome
    BY <1>12, <1>0 DEF ReleaseConsumer, Return, Outcome, Threads
  <2> QED
    BY <1>12, <1>stutter, <2>1 DEF ReleaseConsumer, state, cursors, ring
<1>13. ASSUME NEW c \in Consumers, IsEmpty(c) PROVE [Mailbox!Next]_(Mailbox!mailboxVars)
  <2>0. /\ Live' = Live /\ Unseen' = Unseen /\ Visible' \in Visible..Live
        /\ Visible' = 0 <=> head = tailSeen'
    BY <1>13, TailLoadMoves
  <2>1. Contents' = Contents /\ closedBit' = closedBit
    BY <1>13, ContentsSame DEF IsEmpty, state, ring
  <2>2. Outcome' = [Outcome EXCEPT ![c] = IF head = tailSeen' THEN Mailbox!Empty ELSE Mailbox!NonEmpty]
    BY <1>13, <1>ret DEF IsEmpty, Threads
  <2>3. Visible' \in Visible..Len(Contents)
    BY <2>0, ContentsSeq DEF ContentsShape
  <2> QED
    BY <2>0, <2>1, <2>2, <2>3 DEF Mailbox!Next, Mailbox!IsEmpty, Mailbox!Returns
<1>14. ASSUME NEW k \in Closers, Close(k) PROVE [Mailbox!Next]_(Mailbox!mailboxVars)
  <2>1. Outcome' = Outcome
    BY <1>14, <1>quiet DEF Close, Threads, locals
  <2> QED
    BY <1>14, <1>stutter, <2>1 DEF Close, state, cursors, ring
<1>15. ASSUME NEW k \in Closers, CloseLoad(k) PROVE [Mailbox!Next]_(Mailbox!mailboxVars)
  <2>0. /\ Contents' = Contents /\ closedBit' = closedBit
        /\ Visible' = Visible /\ Unseen' = Unseen
    BY <1>15, <1>cur, ContentsSame DEF CloseLoad, state, cursors, ring
  <2>1. CASE closedBit
    <3>1. Outcome' = [Outcome EXCEPT ![k] = Mailbox!Unit]
      BY <1>15, <1>ret, <2>1 DEF CloseLoad, Threads
    <3> QED
      BY <2>0, <2>1, <3>1 DEF Mailbox!Next, Mailbox!CloseReturns, Mailbox!Returns
  <2>2. CASE ~closedBit
    <3>1. Outcome' = Outcome
      BY <1>15, <1>quiet, <2>2 DEF CloseLoad, Threads, locals
    <3> QED
      BY <2>0, <3>1 DEF Mailbox!mailboxVars
  <2> QED
    BY <2>1, <2>2
<1>16. ASSUME NEW k \in Closers, CloseCas(k) PROVE [Mailbox!Next]_(Mailbox!mailboxVars)
  <2>0. Contents' = Contents /\ Visible' = Visible /\ Unseen' = Unseen
    BY <1>16, <1>cur, ContentsSame DEF CloseCas, cursors, ring
  <2>1. Outcome' = Outcome
    BY <1>16, <1>quiet DEF CloseCas, Threads, locals
  <2> QED
    BY <1>16, <2>0, <2>1 DEF CloseCas, state, Mailbox!Next, Mailbox!Close, Mailbox!mailboxVars
<1>17. ASSUME NEW k \in Closers, CloseRelease(k) PROVE [Mailbox!Next]_(Mailbox!mailboxVars)
  <2>0. /\ Contents' = Contents /\ closedBit' = closedBit
        /\ Visible' = Visible /\ Unseen' = Unseen
    BY <1>17, <1>cur, ContentsSame DEF CloseRelease, cursors, ring
  <2>1. Outcome' = [Outcome EXCEPT ![k] = Mailbox!Unit]
    BY <1>17, <1>ret DEF CloseRelease, Threads
  <2>2. closedBit
    BY <1>17 DEF CloseRelease, RingInv, GateInv, GateLabels, Threads
  <2> QED
    BY <2>0, <2>1, <2>2 DEF Mailbox!Next, Mailbox!CloseReturns, Mailbox!Returns
<1>18. CASE Drop
  <2>1. Outcome' = Outcome
    BY <1>18 DEF Drop, Outcome, locals
  <2> QED
    BY <1>18, <1>stutter, <2>1 DEF Drop, state, cursors
<1>19. CASE UNCHANGED vars
  <2>1. Outcome' = Outcome
    BY <1>19 DEF vars, Outcome
  <2> QED
    BY <1>19, <1>stutter, <2>1 DEF vars
<1> QED
  BY <1>1, <1>2, <1>3, <1>4, <1>5, <1>6, <1>7, <1>8, <1>9, <1>10, <1>11,
     <1>12, <1>13, <1>14, <1>15, <1>16, <1>17, <1>18, <1>19
     DEF Next, ProducerStep, ConsumerStep, CloserStep

(* The lock-free ring is linearizable to the bounded queue of the trait:   *)
(* every interleaving of try_send, recv, is_empty, close and drop.         *)
THEOREM Refinement == Spec => ImplementsMailbox
<1>1. Init => Mailbox!Init
  <2> SUFFICES ASSUME Init PROVE Mailbox!Init
    OBVIOUS
  <2>1. Live = 0 /\ Visible = 0 /\ Unseen = 0
    BY SubValue, CapacityAssumption, WrapAssumption DEF Init, Live, Visible, Unseen, Cursor
  <2>2. Contents = <<>>
    BY <2>1 DEF Contents
  <2>3. Outcome = [t \in Threads |-> Mailbox!NoCall]
    BY DEF Init, Outcome
  <2> QED
    BY <2>1, <2>2, <2>3 DEF Init, Mailbox!Init, Mailbox!Threads, Threads
<1>2. RingInv /\ RingInv' /\ [Next]_vars => [Mailbox!Next]_(Mailbox!mailboxVars)
  BY MailboxStep
<1> QED
  BY <1>1, <1>2, RingInvariant, PTL DEF Spec, ImplementsMailbox, Mailbox!Spec
=============================================================================
