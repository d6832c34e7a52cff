------------------------ MODULE PageAllocator_proofs ------------------------
(***************************************************************************)
(* PageAllocator keeps the pages of the boxes apart, for any number of     *)
(* pages and boxes, as long as no box frees pages that box 0 allocated.    *)
(***************************************************************************)
EXTENDS PageAllocator, FiniteSetTheorems, NaturalsInduction, WellFoundedInduction, TLAPS

LEMMA ZeroIsABox == 0 \in Boxes
  BY PageAssumption DEF Boxes

\* Page counts are integers: every set of pages is finite.
LEMMA PageCounts == \A ps \in SUBSET Pages : Cardinality(ps) \in Nat
<1>1. IsFiniteSet(Pages)
  BY FS_Interval, PageAssumption DEF Pages
<1>2. TAKE ps \in SUBSET Pages
<1>3. IsFiniteSet(ps)
  BY <1>1, FS_Subset
<1> QED
  BY <1>3, FS_CardinalityType

\* What page_allocator_free frees was in the owner map of the caller, and is
\* not a page of box 0 unless box 0 is the caller.
LEMMA FreedIsOwned ==
  ASSUME ~SharedFree, NEW table \in Tables, Disciplined(table)
  PROVE  /\ FreedBy(table) \subseteq owner[active]
         /\ FreedBy(table) \subseteq Pages
         /\ active = 0 \/ FreedBy(table) \cap owner[0] = {}
<1> SUFFICES ASSUME NEW p \in FreedBy(table)
             PROVE  p \in owner[active] /\ p \in Pages /\ (active = 0 \/ p \notin owner[0])
  OBVIOUS
<1>1. PICK i \in DOMAIN table : p = table[i] /\ \A j \in 1 .. i : j \notin Rejected(table)
  BY DEF FreedBy
<1>2. PICK n \in 0 .. MaxTable : table \in [1 .. n -> 0 .. Total]
  BY DEF Tables
<1>3. i \in 1 .. i
  BY <1>2
<1>4. Accepted(table, i)
  BY <1>1, <1>3 DEF Rejected
<1> QED
  BY <1>1, <1>4 DEF Accepted, Disciplined

\* Handing out pages that the usage map does not mark keeps the invariant.
LEMMA GrantKeepsPageInv ==
  ASSUME PageInv, NEW ps \in SUBSET (Pages \ usage),
         usage' = usage \cup ps, owner' = Granted(ps), content' = Zeroed(ps),
         count_free' \in Int, UNCHANGED <<active, loaded>>
  PROVE  PageInv'
<1> USE DEF PageInv
<1>0. /\ \A b \in Boxes : owner'[b] = IF b \in OwnersFor(active) THEN owner[b] \cup ps ELSE owner[b]
      /\ \A p \in Pages : content'[p] = IF p \in ps THEN {} ELSE content[p]
      /\ 0 \in Boxes /\ active \in Boxes /\ active \in OwnersFor(active)
  BY ZeroIsABox DEF Granted, Zeroed, TypeOK, OwnersFor
<1>1. TypeOK'
  BY DEF TypeOK, Granted, Zeroed
<1>2. UsageIsOwnership'
  <2>1. \A p : p \in usage' <=> p \in usage \/ p \in ps
    OBVIOUS
  <2>2. \A p : p \in usage <=> \E b \in Boxes : p \in owner[b]
    BY DEF UsageIsOwnership
  <2>3. ASSUME NEW p, NEW b \in Boxes, p \in owner'[b]
        PROVE  p \in usage \/ p \in ps
    BY <2>3, <1>0, <2>2
  <2>4. ASSUME NEW p \in ps
        PROVE  \E b \in Boxes : p \in owner'[b]
    <3>1. owner'[active] = owner[active] \cup ps
      BY <1>0
    <3> QED
      BY <3>1, <1>0
  <2>5. ASSUME NEW p \in usage
        PROVE  \E b \in Boxes : p \in owner'[b]
    <3>1. PICK b \in Boxes : p \in owner[b]
      BY <2>2
    <3>2. owner[b] \subseteq owner'[b]
      BY <1>0
    <3> QED
      BY <3>1, <3>2
  <2> QED
    BY <2>1, <2>3, <2>4, <2>5 DEF UsageIsOwnership
<1>3. \A b \in Boxes : ps \cap owner[b] = {}
  BY DEF UsageIsOwnership
<1>4. SecurePagesDisjoint'
  <2> SUFFICES ASSUME NEW b \in Boxes, NEW c \in Boxes, b # c,
                      NEW p \in owner'[b] \cap owner'[c]
               PROVE  p \in owner'[0]
    BY DEF SecurePagesDisjoint
  <2>1. CASE p \in ps
    <3>1. b \in OwnersFor(active) /\ c \in OwnersFor(active)
      BY <2>1, <1>0, <1>3
    <3> QED
      BY <3>1, <2>1, <1>0 DEF OwnersFor
  <2>2. CASE p \notin ps
    <3>1. p \in owner[b] /\ p \in owner[c]
      BY <2>2, <1>0
    <3> QED
      BY <3>1, <1>0 DEF SecurePagesDisjoint
  <2> QED
    BY <2>1, <2>2
<1>5. PublicPagesShared'
  BY <1>0 DEF PublicPagesShared, OwnersFor
<1>6. NoStaleAccess'
  BY <1>0 DEF NoStaleAccess
<1>7. Confidentiality'
  <2> SUFFICES ASSUME NEW p \in usage', NEW c \in content'[p]
               PROVE  p \in owner'[c]
    BY DEF Confidentiality
  <2>1. p \in usage /\ p \notin ps /\ c \in content[p] /\ c \in Boxes
    BY <1>0 DEF TypeOK
  <2> QED
    BY <2>1, <1>0 DEF Confidentiality
<1> QED
  BY <1>1, <1>2, <1>4, <1>5, <1>6, <1>7

\* Taking back pages of the caller keeps the invariant.
LEMMA RevokeKeepsPageInv ==
  ASSUME PageInv, NEW ps \in SUBSET Pages, ps \subseteq owner[active],
         active = 0 \/ ps \cap owner[0] = {},
         usage' = usage \ ps, owner' = Revoked(ps),
         count_free' \in Int, UNCHANGED <<active, loaded, content>>
  PROVE  PageInv'
<1> USE DEF PageInv
<1>0. /\ \A b \in Boxes : owner'[b] = IF b \in OwnersFor(active) THEN owner[b] \ ps ELSE owner[b]
      /\ 0 \in Boxes /\ active \in Boxes
  BY ZeroIsABox DEF Revoked, TypeOK
<1>1. TypeOK'
  BY DEF TypeOK, Revoked
\* After the step no box owns a page of ps: either every box lost it, or the
\* caller was the only box that had it.
<1>2. \A b \in Boxes : ps \cap owner'[b] = {}
  BY <1>0 DEF SecurePagesDisjoint, OwnersFor
<1>3. \A b \in Boxes : \A p : p \notin ps => (p \in owner'[b] <=> p \in owner[b])
  BY <1>0
<1>4. \A p : p \in usage <=> \E b \in Boxes : p \in owner[b]
  BY DEF UsageIsOwnership
<1>5. UsageIsOwnership'
  <2>1. \A p : p \in usage' <=> p \in usage /\ p \notin ps
    OBVIOUS
  <2>2. \A p : (\E b \in Boxes : p \in owner'[b]) <=> p \in usage /\ p \notin ps
    BY <1>2, <1>3, <1>4
  <2> QED
    BY <2>1, <2>2 DEF UsageIsOwnership
<1>6. SecurePagesDisjoint'
  BY <1>0, <1>2, <1>3 DEF SecurePagesDisjoint
<1>7. PublicPagesShared'
  BY <1>0, <1>2, <1>3 DEF PublicPagesShared
<1>8. NoStaleAccess'
  BY <1>0, <1>3 DEF NoStaleAccess, TypeOK
<1>9. Confidentiality'
  BY <1>3 DEF Confidentiality, TypeOK
<1> QED
  BY <1>1, <1>5, <1>6, <1>7, <1>8, <1>9

LEMMA PageInvInit == Init => PageInv
<1> SUFFICES ASSUME Init PROVE PageInv
  OBVIOUS
<1> USE DEF Init
<1>1. TypeOK
  BY ZeroIsABox, PageAssumption DEF TypeOK
<1>2. UsageIsOwnership
  BY DEF UsageIsOwnership
<1> QED
  BY <1>1, <1>2, ZeroIsABox
     DEF PageInv, SecurePagesDisjoint, PublicPagesShared, NoStaleAccess, Confidentiality

LEMMA PageInvStep ==
  ASSUME ~SharedFree, PageInv, [Next]_vars
  PROVE  PageInv'
<1> USE DEF PageInv
<1>1. ASSUME NEW n \in 0 .. Total + 1, NEW size_ok \in BOOLEAN, page_allocator_malloc(n, size_ok)
      PROVE  PageInv'
  <2> DEFINE ps == IF malloc_code(n, size_ok) = "OK" THEN FirstUnused(n) ELSE {}
  <2>1. ps \in SUBSET (Pages \ usage)
    BY DEF FirstUnused
  <2>2. count_free' \in Int
    BY <1>1 DEF page_allocator_malloc, TypeOK
  <2>3. /\ usage' = usage \cup ps /\ owner' = Granted(ps) /\ content' = Zeroed(ps)
        /\ UNCHANGED <<active, loaded>>
    BY <1>1 DEF page_allocator_malloc
  <2> QED
    BY <2>1, <2>2, <2>3, GrantKeepsPageInv
<1>2. ASSUME NEW table \in Tables, NEW size_ok \in BOOLEAN, Disciplined(table),
             page_allocator_free(table, size_ok)
      PROVE  PageInv'
  <2> DEFINE ps == IF check_code(table, size_ok) = "OK" THEN FreedBy(table) ELSE {}
  <2>1. ps \subseteq owner[active] /\ ps \in SUBSET Pages /\ (active = 0 \/ ps \cap owner[0] = {})
    BY <1>2, FreedIsOwned
  <2>2. /\ usage' = usage \ ps /\ owner' = Revoked(ps)
        /\ count_free' = count_free + Cardinality(ps)
        /\ UNCHANGED <<active, loaded, content>>
    BY <1>2 DEF page_allocator_free
  <2>3. count_free' \in Int
    BY <2>1, <2>2, PageCounts DEF TypeOK
  <2> QED
    BY <2>1, <2>2, <2>3, RevokeKeepsPageInv
<1>3. ASSUME NEW b \in Boxes, SwitchBox(b)
      PROVE  PageInv'
  <2>1. loaded' \subseteq owner[b]
    BY <1>3 DEF SwitchBox, vmpu_switch, PagesAtSwitch, Mask
  <2>2. TypeOK'
    BY <1>3, <2>1 DEF SwitchBox, TypeOK
  <2> QED
    BY <1>3, <2>1, <2>2
       DEF SwitchBox, UsageIsOwnership, SecurePagesDisjoint, PublicPagesShared, NoStaleAccess, Confidentiality
<1>4. ASSUME NEW p \in Pages, PageFault(p)
      PROVE  PageInv'
  <2>1. loaded' \subseteq loaded \cup owner[active]
    BY <1>4 DEF PageFault, Mask
  <2>2. TypeOK' /\ NoStaleAccess'
    BY <1>4, <2>1 DEF PageFault, TypeOK, NoStaleAccess
  <2> QED
    BY <1>4, <2>2
       DEF PageFault, UsageIsOwnership, SecurePagesDisjoint, PublicPagesShared, Confidentiality
\* A box writes to pages it owns or to pages that nobody owns.
<1>5. ASSUME NEW p \in Pages, Write(p)
      PROVE  PageInv'
  <2>1. /\ content' = [content EXCEPT ![p] = @ \cup {active}]
        /\ p \in loaded
        /\ UNCHANGED <<owner, usage, count_free, active, loaded>>
    BY <1>5 DEF Write
  <2>2. TypeOK'
    BY <2>1 DEF TypeOK
  <2>3. Confidentiality'
    <3> SUFFICES ASSUME NEW r \in usage, NEW c \in content'[r]
                 PROVE  r \in owner[c]
      BY <2>1 DEF Confidentiality
    <3>1. c \in content[r] \/ (r = p /\ c = active)
      BY <2>1 DEF TypeOK
    <3> QED
      BY <2>1, <3>1 DEF Confidentiality, NoStaleAccess, TypeOK
  <2> QED
    BY <2>1, <2>2, <2>3
       DEF UsageIsOwnership, SecurePagesDisjoint, PublicPagesShared, NoStaleAccess
<1>6. ASSUME OtherFault
      PROVE  PageInv'
  BY <1>6 DEF OtherFault, TypeOK, UsageIsOwnership, SecurePagesDisjoint, PublicPagesShared,
              NoStaleAccess, Confidentiality
<1>7. ASSUME UNCHANGED vars
      PROVE  PageInv'
  BY <1>7 DEF vars, TypeOK, UsageIsOwnership, SecurePagesDisjoint, PublicPagesShared,
              NoStaleAccess, Confidentiality
<1> QED
  BY <1>1, <1>2, <1>3, <1>4, <1>5, <1>6, <1>7 DEF Next

\* Boxes never share a page that box 0 did not allocate, the MPU never opens a
\* page to a box while another box has it, and no allocated page holds data of
\* a box that may not access it: the ownership maps of page_allocator.c and the
\* MPU regions of vmpu_armv7m.c agree although nothing refreshes the MPU.
THEOREM PagesAreIsolated ==
  ASSUME ~SharedFree
  PROVE  Spec => []PageInv
<1>1. PageInv /\ [Next]_vars => PageInv'
  BY PageInvStep
<1> QED
  BY PageInvInit, <1>1, PTL DEF Spec

\* The usage map that page_allocator_malloc searches is the union of the owner
\* maps: no page is lost, and none is handed out while a box owns it.
THEOREM UsageMapIsExact ==
  ASSUME ~SharedFree
  PROVE  Spec => []UsageIsOwnership
BY PagesAreIsolated, PTL DEF PageInv

\* Two secure boxes never own the same page, whatever page_allocator_malloc and
\* page_allocator_free were called with.
THEOREM SecureBoxesShareNoPage ==
  ASSUME ~SharedFree
  PROVE  Spec => []SecurePagesDisjoint
BY PagesAreIsolated, PTL DEF PageInv

\* The MPU, which vmpu_switch and the fault handler fill and neither malloc nor
\* free refreshes, never opens a page that belongs to another box.
THEOREM MpuOpensNoForeignPage ==
  ASSUME ~SharedFree
  PROVE  Spec => []NoStaleAccess
BY PagesAreIsolated, PTL DEF PageInv

\* page_allocator_malloc zeroes a page late enough: what is in it later comes
\* from boxes that own it.
THEOREM PagesLeakNothing ==
  ASSUME ~SharedFree
  PROVE  Spec => []Confidentiality
BY PagesAreIsolated, PTL DEF PageInv

\* A page that page_allocator_malloc gives to a secure box is accessible to no
\* other box, whatever was allocated and freed before.
THEOREM MallocIsPrivate ==
  ASSUME ~SharedFree
  PROVE  Spec => MallocPrivate
<1> DEFINE P == active # 0 => \A p \in usage' \ usage : \A b \in Boxes \ {active} : p \notin owner'[b]
<1>1. PageInv /\ [Next]_vars => [P]_vars
  <2> SUFFICES ASSUME PageInv, Next, active # 0,
                      NEW p \in usage' \ usage, NEW b \in Boxes \ {active}
               PROVE  p \notin owner'[b]
    OBVIOUS
  <2>0. p \notin owner[b]
    BY DEF PageInv, UsageIsOwnership
  <2>1. PICK n \in 0 .. Total + 1, size_ok \in BOOLEAN : page_allocator_malloc(n, size_ok)
    BY DEF Next, page_allocator_free, SwitchBox, PageFault, Write, OtherFault
  <2>2. owner'[b] = owner[b]
    BY <2>1 DEF page_allocator_malloc, Granted, OwnersFor
  <2> QED
    BY <2>0, <2>2
<1>2. Spec => []PageInv
  BY PagesAreIsolated
<1> QED
  BY <1>1, <1>2, PTL DEF Spec, MallocPrivate

LEMMA LeastElement ==
  ASSUME NEW S, S \subseteq Nat, S # {}
  PROVE  \E i \in S : \A j \in S : i <= j
<1>1. \E i \in S : \A j \in S : <<j, i>> \notin OpToRel(<, Nat)
  BY NatLessThanWellFounded, WFMin, Zenon
<1>2. ASSUME NEW i \in S, \A j \in S : <<j, i>> \notin OpToRel(<, Nat), NEW j \in S
      PROVE  i <= j
  <2>1. ~(j < i)
    BY <1>2 DEF OpToRel
  <2> QED
    BY <2>1
<1> QED
  BY <1>1, <1>2

\* Cardinalities of disjoint unions, and of what is left of a set.
LEMMA UnionCount ==
  ASSUME NEW S, NEW T, IsFiniteSet(S), IsFiniteSet(T), S \cap T = {}
  PROVE  Cardinality(S \cup T) = Cardinality(S) + Cardinality(T)
<1>1. Cardinality(S) \in Nat /\ Cardinality(T) \in Nat
  BY FS_CardinalityType
<1>2. Cardinality(S \cap T) = 0
  BY FS_EmptySet
<1>3. Cardinality(S \cup T) = Cardinality(S) + Cardinality(T) - Cardinality(S \cap T)
  BY FS_Union
<1> QED
  BY <1>1, <1>2, <1>3

LEMMA RestCount ==
  ASSUME NEW S, NEW T, IsFiniteSet(S), T \subseteq S
  PROVE  Cardinality(S \ T) = Cardinality(S) - Cardinality(T)
<1>1. S \cap T = T
  OBVIOUS
<1>2. Cardinality(S \ T) = Cardinality(S) - Cardinality(S \cap T)
  BY FS_Difference
<1> QED
  BY <1>1, <1>2

LEMMA OneMore ==
  ASSUME NEW S, NEW x, IsFiniteSet(S), x \notin S
  PROVE  Cardinality(S \cup {x}) = Cardinality(S) + 1
BY FS_AddElement

\* The n least elements of a set of at least n numbers are n.  Of the counts
\* for which this fails take the least: one fewer gives the right set, and one
\* element more is the least that this set leaves out.
LEMMA LeastAreCounted ==
  ASSUME NEW S, S \subseteq Nat, IsFiniteSet(S), NEW n \in Nat, n <= Cardinality(S)
  PROVE  Cardinality({p \in S : Cardinality({q \in S : q < p}) < n}) = n
<1> DEFINE Below(p) == {q \in S : q < p}
           First(k) == {p \in S : Cardinality(Below(p)) < k}
           Bad == {k \in Nat : k <= Cardinality(S) /\ Cardinality(First(k)) # k}
<1>0. Cardinality(S) \in Nat
  BY FS_CardinalityType
<1>1. ASSUME NEW T \in SUBSET S
      PROVE  IsFiniteSet(T) /\ Cardinality(T) \in Nat /\ Cardinality(T) <= Cardinality(S)
  BY FS_Subset, FS_CardinalityType
<1>2. \A p, q \in S : p < q => Cardinality(Below(p)) <= Cardinality(Below(q))
  <2> SUFFICES ASSUME NEW p \in S, NEW q \in S, p < q
               PROVE  Cardinality(Below(p)) <= Cardinality(Below(q))
    OBVIOUS
  <2>1. Below(p) \in SUBSET Below(q)
    <3>1. ASSUME NEW r \in S, r < p PROVE r < q
      <4>1. r \in Nat /\ p \in Nat /\ q \in Nat
        OBVIOUS
      <4> QED
        BY <3>1, <4>1
    <3> QED
      BY <3>1
  <2>2. IsFiniteSet(Below(q))
    BY <1>1
  <2> QED
    BY <2>1, <2>2, FS_Subset
<1>3. \A p \in S : Cardinality(Below(p)) \in Nat /\ Below(p) \subseteq S
  BY <1>1
<1>4. \A k \in Nat : First(k) \subseteq S /\ IsFiniteSet(First(k)) /\ Cardinality(First(k)) \in Nat
  BY <1>1
<1>5. ASSUME Bad # {}
      PROVE  FALSE
  <2>1. PICK k \in Bad : \A j \in Bad : k <= j
    BY <1>5, LeastElement
  <2>2. k # 0
    <3>1. First(0) = {}
      <4>1. \A p \in S : ~(Cardinality(Below(p)) < 0)
        BY <1>3
      <4> QED
        BY <4>1
    <3>2. Cardinality(First(0)) = 0
      BY <3>1, FS_EmptySet
    <3> QED
      BY <2>1, <3>2
  <2>3. k - 1 \in Nat /\ k - 1 < Cardinality(S) /\ k - 1 \notin Bad
    BY <2>1, <2>2, <1>0
  <2>4. Cardinality(First(k - 1)) = k - 1
    BY <2>3, <1>0
  <2>a. PICK A : A = First(k - 1)
    OBVIOUS
  <2>b. /\ IsFiniteSet(A) /\ A \subseteq S /\ Cardinality(A) = k - 1
        /\ \A p \in S : p \in A <=> Cardinality(Below(p)) < k - 1
        /\ \A p \in S : p \in First(k) <=> Cardinality(Below(p)) < k
        /\ First(k) \subseteq S
    BY <2>a, <2>3, <2>4, <1>4
  <2>d. /\ \A p \in S : Below(p) \subseteq S
        /\ \A p, q \in S : q \in Below(p) <=> q < p
        /\ k \in Nat /\ k - 1 \in Nat /\ (Cardinality(First(k)) = k => FALSE)
    BY <2>1, <2>3
  <2> HIDE DEF First, Below, Bad
  <2> USE <2>b, <2>d
  <2>5. S \ A # {}
    <3>1. A # S
      BY <2>3, <1>0
    <3> QED
      BY <3>1
  <2>6. PICK m \in S \ A : \A j \in S \ A : m <= j
    <3>1. S \ A \subseteq Nat
      OBVIOUS
    <3> QED
      BY <3>1, <2>5, LeastElement
  <2>7. Below(m) = A
    <3>1. ASSUME NEW q \in Below(m) PROVE q \in A
      <4>1. q \in S /\ q < m
        BY <2>6, <3>1
      <4> QED
        BY <4>1, <2>6
    <3>2. ASSUME NEW q \in A PROVE q \in Below(m)
      <4>1. Cardinality(Below(q)) < k - 1 /\ ~(Cardinality(Below(m)) < k - 1) /\ q \in S
        BY <2>6, <2>b
      <4>2. ~(m < q) /\ m # q
        BY <4>1, <1>2, <1>3, <2>6, <2>3
      <4> QED
        BY <4>1, <4>2, <2>6
    <3> QED
      BY <3>1, <3>2
  <2>c. Cardinality(A \cup {m}) = k
    <3>1. Cardinality(A \cup {m}) = Cardinality(A) + 1
      BY <2>6, OneMore
    <3> QED
      BY <3>1, <2>3
  <2>8. First(k) = A \cup {m}
    <3>1. ASSUME NEW p \in First(k) PROVE p \in A \cup {m}
      <4> SUFFICES ASSUME p \notin A, p # m PROVE FALSE
        OBVIOUS
      <4>0. p \in S /\ Cardinality(Below(p)) < k
        BY <3>1
      <4>1. p \in S /\ m < p /\ Cardinality(Below(p)) < k
        <5>1. m <= p /\ m \in Nat /\ p \in Nat
          BY <4>0, <2>6
        <5> QED
          BY <5>1, <4>0
      <4>2. A \cup {m} \in SUBSET Below(p)
        <5>1. \A q \in A : q \in S /\ q < m
          BY <2>7
        <5> QED
          BY <5>1, <4>1, <2>6
      <4>3. Cardinality(A \cup {m}) <= Cardinality(Below(p))
        BY <4>1, <4>2, <1>1, FS_Subset
      <4> QED
        BY <4>1, <4>3, <2>c, <1>3, <2>1
    <3>2. m \in First(k)
      <4>1. Cardinality(Below(m)) = k - 1
        BY <2>7
      <4> QED
        BY <4>1, <2>6, <2>3
    <3>3. ASSUME NEW p \in A PROVE p \in First(k)
      BY <3>3, <1>3, <2>3
    <3> QED
      BY <3>1, <3>2, <3>3
  <2>9. Cardinality(First(k)) = k
    BY <2>8, <2>c
  <2> QED
    BY <2>9
<1> QED
  BY <1>5

\* page_allocator_malloc finds as many pages as it subtracted.
LEMMA MallocCounts ==
  ASSUME TypeOK, FreeCount, NEW n \in 0 .. Total + 1, NEW size_ok \in BOOLEAN,
         page_allocator_malloc(n, size_ok)
  PROVE  FreeCount'
<1>1. IsFiniteSet(Pages) /\ Pages \subseteq Nat
  BY FS_Interval, PageAssumption DEF Pages
<1>2. IsFiniteSet(Pages \ usage) /\ Pages \ usage \subseteq Nat
  BY <1>1, FS_Difference
<1>3. CASE malloc_code(n, size_ok) = "OK"
  <2>1. n \in Nat /\ n <= Cardinality(Pages \ usage)
    <3>1. ~(n > count_free)
      BY <1>3 DEF malloc_code
    <3> QED
      BY <3>1, PageAssumption, <1>2, FS_CardinalityType DEF FreeCount
  <2>2. Cardinality(FirstUnused(n)) = n
    BY <2>1, <1>2, LeastAreCounted DEF FirstUnused
  <2>3. FirstUnused(n) \subseteq Pages \ usage
    BY DEF FirstUnused
  <2>4. Cardinality((Pages \ usage) \ FirstUnused(n)) = Cardinality(Pages \ usage) - n
    BY <2>2, <2>3, <1>2, RestCount
  <2>5. Pages \ usage' = (Pages \ usage) \ FirstUnused(n) /\ count_free' = count_free - n
    BY <1>3 DEF page_allocator_malloc
  <2> QED
    BY <2>4, <2>5 DEF FreeCount
<1>4. CASE malloc_code(n, size_ok) # "OK"
  BY <1>4 DEF page_allocator_malloc, FreeCount
<1> QED
  BY <1>3, <1>4

\* page_allocator_free adds one for each page it takes out of the usage map.
LEMMA FreeCounts ==
  ASSUME ~SharedFree, PageInv, FreeCount, NEW table \in Tables, NEW size_ok \in BOOLEAN,
         Disciplined(table), page_allocator_free(table, size_ok)
  PROVE  FreeCount'
<1> DEFINE ps == IF check_code(table, size_ok) = "OK" THEN FreedBy(table) ELSE {}
<1>1. ps \subseteq usage /\ ps \subseteq Pages /\ usage \subseteq Pages
  BY FreedIsOwned DEF PageInv, UsageIsOwnership, TypeOK
<1>2. usage' = usage \ ps /\ count_free' = count_free + Cardinality(ps)
  BY DEF page_allocator_free
<1> HIDE DEF ps
<1>3. IsFiniteSet(Pages)
  BY FS_Interval, PageAssumption DEF Pages
<1>4. IsFiniteSet(Pages \ usage) /\ IsFiniteSet(ps)
  BY <1>1, <1>3, FS_Difference, FS_Subset
<1>5. Pages \ usage' = (Pages \ usage) \cup ps /\ (Pages \ usage) \cap ps = {}
  BY <1>1, <1>2
<1>6. Cardinality((Pages \ usage) \cup ps) = Cardinality(Pages \ usage) + Cardinality(ps)
  BY <1>4, <1>5, UnionCount
<1> QED
  BY <1>2, <1>5, <1>6 DEF FreeCount

\* The counter that guards page_allocator_malloc is the number of pages it can
\* hand out, although malloc subtracts before it searches and free adds one for
\* each entry it accepts, also in a table that it rejects half way.
THEOREM FreePagesAreCounted ==
  ASSUME ~SharedFree
  PROVE  Spec => []FreeCount
<1>1. Init => FreeCount
  <2>1. Cardinality(0 .. Total - 1) = Total
    BY FS_Interval, PageAssumption
  <2>2. Pages \ {} = 0 .. Total - 1
    BY DEF Pages
  <2> QED
    BY <2>1, <2>2 DEF Init, FreeCount
<1>2. PageInv /\ FreeCount /\ [Next]_vars => FreeCount'
  <2> SUFFICES ASSUME PageInv, FreeCount, [Next]_vars
               PROVE  FreeCount'
    OBVIOUS
  <2>1. ASSUME NEW n \in 0 .. Total + 1, NEW size_ok \in BOOLEAN, page_allocator_malloc(n, size_ok)
        PROVE  FreeCount'
    BY <2>1, MallocCounts DEF PageInv
  <2>2. ASSUME NEW table \in Tables, NEW size_ok \in BOOLEAN, Disciplined(table),
               page_allocator_free(table, size_ok)
        PROVE  FreeCount'
    BY <2>2, FreeCounts
  <2>3. ASSUME UNCHANGED <<usage, count_free>>
        PROVE  FreeCount'
    BY <2>3 DEF FreeCount
  <2> QED
    BY <2>1, <2>2, <2>3 DEF Next, SwitchBox, PageFault, Write, OtherFault, vars
<1>3. Spec => []PageInv
  BY PagesAreIsolated
<1> QED
  BY <1>1, <1>2, <1>3, PTL DEF Spec
=============================================================================
