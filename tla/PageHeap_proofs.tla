-------------------------- MODULE PageHeap_proofs --------------------------
(***************************************************************************)
(* Proofs about the arithmetic of the page heap, for any page size, heap   *)
(* bounds and size of the page table.                                      *)
(***************************************************************************)
EXTENDS PageHeap, TLAPS

\* Integer division.
LEMMA Division ==
  ASSUME NEW a \in Int, NEW n \in Nat \ {0}
  PROVE  a \div n \in Int /\ (a \div n) * n <= a /\ a < (a \div n) * n + n
  OBVIOUS

\* A product with a positive factor is ordered as the other factor is.
LEMMA Factor ==
  ASSUME NEW d \in Int, NEW n \in Nat \ {0}, NEW m \in Nat
  PROVE  /\ d * n \in Int
         /\ 0 <= d * n => 0 <= d
         /\ d * n < m * n => d < m
<1>1. d * n \in Int
  OBVIOUS
<1>2. 0 <= d * n => 0 <= d
  OBVIOUS
<1>3. d >= m => d * n >= m * n
  OBVIOUS
<1>4. QED
  BY <1>1, <1>2, <1>3

LEMMA DivProduct ==
  ASSUME NEW k \in Int, NEW n \in Nat \ {0}
  PROVE  (k * n) \div n = k /\ (k * n) % n = 0
<1>1. k * n \in Int
  OBVIOUS
<1>2. (k * n) \div n \in Int /\ ((k * n) \div n) * n <= k * n /\ k * n < ((k * n) \div n) * n + n
  BY <1>1, Division
<1> DEFINE q == (k * n) \div n
<1> HIDE DEF q
<1>3. q \in Int /\ q * n <= k * n /\ k * n < q * n + n
  BY <1>2 DEF q
<1>4. (k - q) * n = k * n - q * n
  BY <1>3
<1>5. 0 <= (k - q) * n /\ (k - q) * n < 1 * n /\ k - q \in Int
  BY <1>1, <1>3, <1>4
<1>6. k - q = 0
  BY <1>5, Factor
<1>7. QED
  BY <1>3, <1>6 DEF q

LEMMA ByteRange == \A n \in Int : Byte(n) \in 0 .. 255 /\ (n >= 0 => Byte(n) <= n) /\ (n \in 0 .. 255 => Byte(n) = n)
  BY DEF Byte

\* A rounded address is the first multiple of the size that is not below.
LEMMA RoundUp ==
  ASSUME NEW a \in Int, NEW n \in Nat \ {0}
  PROVE  \E k \in Int : /\ vmpu_round_up_region(a, n) = k * n
                        /\ a <= k * n /\ k * n < a + n
<1> DEFINE k == (a + n - 1) \div n
<1>1. a + n - 1 \in Int
  OBVIOUS
<1>2. k \in Int /\ k * n <= a + n - 1 /\ a + n - 1 < k * n + n
  BY <1>1, Division
<1>3. vmpu_round_up_region(a, n) = k * n
  BY DEF vmpu_round_up_region
<1> HIDE DEF k
<1>4. k * n \in Int
  BY <1>2
<1>5. a <= k * n /\ k * n < a + n
  BY <1>2, <1>4
<1>6. QED
  BY <1>2, <1>3, <1>5

\* The page heap in units of pages: it starts at page a, its rounded end is a
\* multiple j of eight pages, and at most seven pages are missing there.
PageUnits(h, hs, he, a, j) ==
  /\ h.start = a * h.size /\ h.end = (a + h.total) * h.size /\ h.rounded = j * (h.size * 8)
  /\ hs <= a * h.size
  /\ h.total > 0 => (a + h.total) * h.size <= he
  /\ 8 * j - a - h.total \in 0 .. 7
  /\ h.shift = Byte(PAGE_MAP_COUNT * 32 - h.total - (8 * j - a - h.total))

LEMMA HeapUnits ==
  ASSUME NEW hs \in Nat, NEW he \in Nat, NEW n \in Nat \ {0},
         PAGE_MAX_COUNT \in Nat, PAGE_MAP_COUNT \in Nat,
         NEW h, h = page_allocator_init(hs, he, n)
  PROVE  /\ h.size = n /\ h.total \in 0 .. 255 /\ h.total <= PAGE_MAX_COUNT
         /\ \E a, j \in Int : PageUnits(h, hs, he, a, j)
<1> DEFINE first   == vmpu_round_up_region(hs, n)
           count   == IF first + n > he THEN 0 ELSE Byte((he - first) \div n)
           clamped == count > PAGE_MAX_COUNT
           start   == IF clamped THEN first + (count - PAGE_MAX_COUNT) * n ELSE first
           total   == IF clamped THEN PAGE_MAX_COUNT ELSE count
           end     == start + total * n
           rounded == vmpu_round_up_region(end, n * 8)
<1>1. h = [size |-> n, start |-> start, total |-> total, end |-> end, rounded |-> rounded,
           shift |-> Shift(total, (rounded - end) \div n)]
  BY DEF page_allocator_init
<1>2. PICK k \in Int : first = k * n /\ hs <= k * n
  <2>1. hs \in Int
    OBVIOUS
  <2> HIDE DEF first
  <2>2. \E k \in Int : first = k * n /\ hs <= k * n
    BY <2>1, RoundUp, Zenon DEF first
  <2>3. QED
    BY <2>2
<1>3. first \in Int
  BY <1>2
<1> HIDE DEF first
<1>4. count \in 0 .. 255 /\ (count > 0 => first + count * n <= he)
  <2>1. CASE first + n > he
    BY <2>1
  <2>2. CASE ~(first + n > he)
    <3> DEFINE x == (he - first) \div n
    <3>1. he - first \in Int /\ he - first >= n
      BY <1>3, <2>2
    <3>2. x \in Int /\ x * n <= he - first /\ he - first < x * n + n
      BY <3>1, Division
    <3>3. count = Byte(x)
      BY <2>2
    <3> HIDE DEF x, count
    <3>4. x >= 0
      <4>1. 0 <= x * n
        BY <3>1, <3>2
      <4>2. QED
        BY <3>2, <4>1, Factor
    <3>5. count \in 0 .. 255 /\ count <= x
      BY <3>2, <3>3, <3>4, ByteRange
    <3>6. count * n <= x * n
      BY <3>2, <3>5
    <3>7. count * n \in Int /\ x * n \in Int
      BY <3>2, <3>5
    <3>8. QED
      BY <1>3, <3>2, <3>5, <3>6, <3>7
  <2>3. QED
    BY <2>1, <2>2
<1> HIDE DEF count
<1> DEFINE a == IF clamped THEN k + (count - PAGE_MAX_COUNT) ELSE k
<1>5. a \in Int /\ total \in 0 .. 255 /\ total <= PAGE_MAX_COUNT
  BY <1>2, <1>4
<1>6. start = a * n
  <2>1. (k + (count - PAGE_MAX_COUNT)) * n = k * n + (count - PAGE_MAX_COUNT) * n
    BY <1>2, <1>4
  <2>2. QED
    BY <1>2, <2>1
<1>7. hs <= a * n
  <2>1. CASE clamped
    <3>1. k <= a
      BY <1>2, <1>4, <2>1
    <3>2. k * n <= a * n
      BY <1>2, <1>5, <3>1
    <3>3. k * n \in Int /\ a * n \in Int
      BY <1>2, <1>5
    <3>4. QED
      BY <1>2, <3>2, <3>3
  <2>2. CASE ~clamped
    BY <1>2, <2>2
  <2>3. QED
    BY <2>1, <2>2
<1>8. total > 0 => (a + total) * n <= he
  <2>1. a + total = k + count
    BY <1>2, <1>4
  <2>2. (k + count) * n = first + count * n
    BY <1>2, <1>4
  <2>3. total > 0 => count > 0
    BY <1>4
  <2>4. QED
    BY <1>4, <2>1, <2>2, <2>3
<1> HIDE DEF a, total, start
<1>9. end = (a + total) * n /\ end \in Int
  BY <1>5, <1>6
<1> HIDE DEF end
<1>10. PICK j \in Int : rounded = j * (n * 8) /\ end <= j * (n * 8) /\ j * (n * 8) < end + n * 8
  <2>1. n * 8 \in Nat \ {0}
    OBVIOUS
  <2> HIDE DEF rounded
  <2>2. \E j \in Int : rounded = j * (n * 8) /\ end <= j * (n * 8) /\ j * (n * 8) < end + n * 8
    BY <1>9, <2>1, RoundUp, Zenon DEF rounded
  <2>3. QED
    BY <2>2
<1> HIDE DEF rounded
<1> DEFINE off == 8 * j - a - total
<1>11. off \in Int /\ j * (n * 8) - end = off * n
  <2>1. j * (n * 8) = (8 * j) * n
    BY <1>10
  <2>2. (8 * j) * n - (a + total) * n = (8 * j - (a + total)) * n
    BY <1>5, <1>10
  <2>3. 8 * j - (a + total) = off
    BY <1>5, <1>10
  <2>4. QED
    BY <1>5, <1>9, <1>10, <2>1, <2>2, <2>3
<1> HIDE DEF off
<1>12. off \in 0 .. 7 /\ (rounded - end) \div n = off
  <2>1. 0 <= off * n /\ off * n < 8 * n
    BY <1>9, <1>10, <1>11
  <2>2. off \in 0 .. 7
    BY <1>11, <2>1, Factor
  <2>3. (off * n) \div n = off
    BY <1>11, DivProduct
  <2>4. QED
    BY <1>10, <1>11, <2>2, <2>3
<1>13. PageUnits(h, hs, he, a, j)
  <2>1. h.size = n /\ h.start = start /\ h.total = total /\ h.end = end /\ h.rounded = rounded
        /\ h.shift = Shift(total, off)
    BY <1>1, <1>12
  <2>2. QED
    BY <1>6, <1>7, <1>8, <1>9, <1>10, <1>12, <2>1 DEF PageUnits, Shift, off
<1>14. h.size = n /\ h.total = total
  BY <1>1
<1>15. QED
  BY <1>5, <1>10, <1>13, <1>14

\* Bits of the maps are bytes.
LEMMA HeapShift ==
  ASSUME NEW hs \in Nat, NEW he \in Nat, NEW n \in Nat \ {0},
         PAGE_MAX_COUNT \in Nat, PAGE_MAP_COUNT \in Nat,
         NEW h, h = page_allocator_init(hs, he, n)
  PROVE  h.shift \in 0 .. 255
<1>1. PICK a, j \in Int : PageUnits(h, hs, he, a, j)
  BY HeapUnits
<1>2. h.total \in 0 .. 255
  BY HeapUnits
<1> DEFINE x == PAGE_MAP_COUNT * 32 - h.total - (8 * j - a - h.total)
<1>3. x \in Int
  BY <1>2
<1>4. h.shift = Byte(x)
  BY <1>1 DEF PageUnits
<1> HIDE DEF x
<1>5. QED
  BY <1>3, <1>4, ByteRange

\* Each page is the MPU subregion that its bit in the owner map stands for, inside
\* the heap and inside the map.  The map has room for the table size rounded up
\* to whole octets at both ends (page_allocator_config.h:43), and its bits are
\* numbered by a byte.
PageIsSubregion(h, hs, he, p) ==
  LET r == PageRegion(h, {p}, Octet(h, p)) IN
  /\ PageStart(h, p) = r.start + Subregion(h, p) * (r.size \div 8)
  /\ r.start % r.size = 0
  /\ MapBit(h, p) < 32 * PAGE_MAP_COUNT
  /\ hs <= PageStart(h, p) /\ PageStart(h, p) + h.size <= he

LEMMA PageSubregion ==
  ASSUME NEW hs \in Nat, NEW he \in Nat, NEW n \in Nat \ {0},
         PAGE_MAX_COUNT \in Nat, PAGE_MAP_COUNT \in Nat,
         PAGE_MAX_COUNT + 7 <= 32 * PAGE_MAP_COUNT, PAGE_MAP_COUNT <= 8,
         NEW h, h = page_allocator_init(hs, he, n), NEW p \in 0 .. h.total - 1
  PROVE  PageIsSubregion(h, hs, he, p)
<1>1. h.size = n /\ h.total \in 0 .. 255 /\ h.total <= PAGE_MAX_COUNT
  BY HeapUnits
<1>2. PICK a, j \in Int : PageUnits(h, hs, he, a, j)
  BY HeapUnits
<1> DEFINE total == h.total
           off == 8 * j - a - total
           bit == MapBit(h, p)
           o   == Octet(h, p)
           k   == Subregion(h, p)
<1>3. off \in 0 .. 7 /\ total \in 1 .. 255 /\ total <= PAGE_MAX_COUNT /\ p \in 0 .. total - 1
  BY <1>1, <1>2 DEF PageUnits
<1>4. h.shift = PAGE_MAP_COUNT * 32 - total - off
  <2>1. h.shift = Byte(PAGE_MAP_COUNT * 32 - total - off)
    BY <1>2 DEF PageUnits
  <2> HIDE DEF total, off
  <2>2. PAGE_MAP_COUNT * 32 - total - off \in 0 .. 255
    BY <1>3
  <2>3. QED
    BY <2>1, <2>2, ByteRange
<1>5. bit = p + PAGE_MAP_COUNT * 32 - total - off /\ bit \in 0 .. 32 * PAGE_MAP_COUNT - 1
  <2> HIDE DEF total, off
  <2>1. p + h.shift \in 0 .. 255
    BY <1>3, <1>4
  <2>2. bit = p + h.shift
    BY <2>1, ByteRange DEF MapBit
  <2>3. QED
    BY <1>3, <1>4, <2>2
<1>6. o \in Int /\ k \in 0 .. 7 /\ bit = 8 * o + k
  BY <1>5 DEF Octet, Subregion
<1> DEFINE r == PageRegion(h, {p}, o)
<1>7. r.start = h.rounded - n * 8 * (PAGE_MAP_COUNT * 4 - o) /\ r.size = n * 8
  BY <1>1 DEF PageRegion
<1>8. h.rounded = j * (n * 8) /\ h.start = a * n
  BY <1>1, <1>2 DEF PageUnits
<1> HIDE DEF r, o, k, bit
<1>9. r.start = (j - (PAGE_MAP_COUNT * 4 - o)) * (n * 8)
  BY <1>6, <1>7, <1>8
<1>10. r.start % r.size = 0
  <2>1. n * 8 \in Nat \ {0} /\ j - (PAGE_MAP_COUNT * 4 - o) \in Int
    BY <1>6
  <2>2. QED
    BY <1>7, <1>9, <2>1, DivProduct
<1>11. PageStart(h, p) = (a + p) * n
  BY <1>1, <1>3, <1>8 DEF PageStart
<1>12. r.size \div 8 = n
  BY <1>7
<1>13. PageStart(h, p) = r.start + k * (r.size \div 8)
  <2>1. r.start + k * n = (8 * (j - (PAGE_MAP_COUNT * 4 - o)) + k) * n
    BY <1>6, <1>9
  <2>2. 8 * (j - (PAGE_MAP_COUNT * 4 - o)) + k = a + p
    BY <1>3, <1>5, <1>6
  <2>3. QED
    BY <1>11, <1>12, <2>1, <2>2
<1>14. hs <= PageStart(h, p)
  <2>1. hs <= a * n
    BY <1>1, <1>2 DEF PageUnits
  <2>2. a * n <= (a + p) * n
    BY <1>3
  <2>3. a * n \in Int /\ (a + p) * n \in Int
    BY <1>3
  <2>4. QED
    BY <1>11, <2>1, <2>2, <2>3
<1>15. PageStart(h, p) + n <= he
  <2>1. (a + total) * n <= he
    BY <1>1, <1>2, <1>3 DEF PageUnits
  <2>2. (a + p) * n + n = (a + p + 1) * n
    BY <1>3
  <2>3. (a + p + 1) * n <= (a + total) * n
    BY <1>3
  <2>4. (a + p + 1) * n \in Int /\ (a + total) * n \in Int
    BY <1>3
  <2>5. QED
    BY <1>11, <2>1, <2>2, <2>3, <2>4
<1>16. QED
  BY <1>1, <1>5, <1>10, <1>13, <1>14, <1>15 DEF PageIsSubregion, r, o, k, bit
=============================================================================
