---------------------------- MODULE Paging_proofs ----------------------------
(***************************************************************************)
(* Lemmas about the arithmetic of pages, for every width of int.           *)
(***************************************************************************)
EXTENDS Paging, TLAPS

(* Quotient and remainder.                                                 *)
LEMMA Division ==
    ASSUME NEW x \in Int, NEW m \in Nat, m > 0
    PROVE  /\ x % m \in 0 .. m - 1 /\ x \div m \in Int
           /\ x = (m * (x \div m)) + (x % m)
OBVIOUS

(* They are unique.                                                        *)
LEMMA UniqueRemainder ==
    ASSUME NEW m \in Nat, m > 0, NEW a \in Int, NEW b \in Int,
           NEW c \in 0 .. m - 1, NEW d \in 0 .. m - 1, (m * a) + c = (m * b) + d
    PROVE  c = d
<1>1. CASE a = b
  BY <1>1
<1>2. CASE a >= b + 1
  <2>1. m * a >= m * (b + 1)
    BY <1>2
  <2> QED
    BY <2>1
<1>3. CASE b >= a + 1
  <2>1. m * b >= m * (a + 1)
    BY <1>3
  <2> QED
    BY <2>1
<1> QED
  BY <1>1, <1>2, <1>3

(* What is added to a number is added to its remainder, as long as that is *)
(* a remainder.                                                            *)
LEMMA RemainderOfSum ==
    ASSUME NEW m \in Nat, m > 0, NEW a \in Int, NEW k \in Int, (a % m) + k \in 0 .. m - 1
    PROVE  (a + k) % m = (a % m) + k
<1> DEFINE b == a + k
           p == m * (b \div m)
           q == m * (a \div m)
<1>1. /\ a % m \in 0 .. m - 1 /\ a \div m \in Int /\ a = q + (a % m) /\ q \in Int
      /\ b % m \in 0 .. m - 1 /\ b \div m \in Int /\ b = p + (b % m) /\ p \in Int
  BY Division
<1> HIDE DEF b, p, q
<1>2. p + (b % m) = q + ((a % m) + k)
  BY <1>1 DEF b
<1>3. b % m = (a % m) + k
  BY <1>1, <1>2, UniqueRemainder DEF p, q
<1> QED
  BY <1>3 DEF b

LEMMA RemainderIsPeriodic ==
    ASSUME NEW m \in Nat, m > 0, NEW a \in Int
    PROVE  (a + m) % m = a % m
<1> DEFINE b == a + m
           p == m * (b \div m)
           q == m * (a \div m)
<1>1. /\ a % m \in 0 .. m - 1 /\ a \div m \in Int /\ a = q + (a % m) /\ q \in Int
      /\ b % m \in 0 .. m - 1 /\ b \div m \in Int /\ b = p + (b % m) /\ p \in Int
  BY Division
<1>2. m * ((a \div m) + 1) = q + m
  BY <1>1
<1> HIDE DEF b, p, q
<1>3. p + (b % m) = (q + m) + (a % m)
  BY <1>1 DEF b
<1>4. (m * (b \div m)) + (b % m) = (m * ((a \div m) + 1)) + (a % m)
  BY <1>2, <1>3 DEF p
<1>5. b % m = a % m
  <2>1. (a \div m) + 1 \in Int
    BY <1>1
  <2> QED
    BY <1>1, <1>4, <2>1, UniqueRemainder
<1> QED
  BY <1>5 DEF b

LEMMA SpanType == Span \in Nat /\ Span > 0 /\ Span = (MaxInt + 1) + (MaxInt + 1)
BY MaxIntAssumption DEF Span

LEMMA ToIntType == ASSUME NEW x \in Int PROVE ToInt(x) \in Int
BY MaxIntAssumption, SpanType DEF ToInt

(* An int stays what it is.                                                *)
LEMMA ToIntExact == ASSUME NEW x \in 0 .. MaxInt PROVE ToInt(x) = x
BY MaxIntAssumption, SpanType DEF ToInt, Span

(* A step from an int that is not negative leads to the int that it should *)
(* lead to, or to a negative one: never to another place.                  *)
LEMMA ToIntNext ==
    ASSUME NEW x \in Int, NEW k \in 1 .. MaxInt, ToInt(x) >= 0
    PROVE  ToInt(x + k) = ToInt(x) + k \/ ToInt(x + k) < 0
<1> DEFINE a == x + MaxInt + 1
           c == a % Span
<1>1. a \in Int /\ x + k + MaxInt + 1 = a + k /\ c \in 0 .. Span - 1
  BY MaxIntAssumption, SpanType, Division
<1>2. ToInt(x) = c - (MaxInt + 1) /\ ToInt(x + k) = ((a + k) % Span) - (MaxInt + 1)
  BY <1>1 DEF ToInt
<1> HIDE DEF a, c
<1>3. MaxInt + 1 <= c
  BY <1>1, <1>2, MaxIntAssumption, SpanType
<1>4. CASE c + k <= Span - 1
  <2>1. (a + k) % Span = c + k
    BY <1>1, <1>4, SpanType, MaxIntAssumption, RemainderOfSum DEF c
  <2> QED
    BY <1>1, <1>2, <2>1, MaxIntAssumption
<1>5. CASE ~ (c + k <= Span - 1)
  <2>1. c + (k - Span) \in 0 .. Span - 1 /\ c + (k - Span) < MaxInt + 1
    BY <1>1, <1>3, <1>5, SpanType, MaxIntAssumption
  <2>2. (a + (k - Span)) % Span = c + (k - Span)
    BY <1>1, <2>1, SpanType, MaxIntAssumption, RemainderOfSum DEF c
  <2>3. (a + k) % Span = c + (k - Span)
    <3>1. a + (k - Span) \in Int /\ (a + (k - Span)) + Span = a + k
      BY <1>1, SpanType, MaxIntAssumption
    <3> QED
      BY <2>2, <3>1, RemainderIsPeriodic, SpanType
  <2> QED
    BY <1>1, <1>2, <2>1, <2>3, MaxIntAssumption, SpanType
<1> QED
  BY <1>4, <1>5, <1>1, SpanType, MaxIntAssumption

(* The offset of the next page is the end of this one, or negative.        *)
LEMMA NextOffset ==
    ASSUME NEW p \in Nat \ {0}, NEW l \in 1 .. MaxInt, OffsetOf(p, l) >= 0
    PROVE  OffsetOf(p + 1, l) = OffsetOf(p, l) + l \/ OffsetOf(p + 1, l) < 0
<1>1. (p - 1) * l \in Int /\ ((p + 1) - 1) * l = ((p - 1) * l) + l
  BY MaxIntAssumption
<1> QED
  BY <1>1, ToIntNext DEF OffsetOf

(* An offset that fits is the number of the first row of the page.         *)
LEMMA OffsetThatFits ==
    ASSUME NEW p \in Nat \ {0}, NEW l \in Nat, Fits(p, l)
    PROVE  OffsetOf(p, l) = (p - 1) * l
<1>1. (p - 1) * l \in 0 .. MaxInt
  BY MaxIntAssumption DEF Fits
<1> QED
  BY <1>1, ToIntExact DEF OffsetOf

LEMMA OffsetType ==
    ASSUME NEW p \in Int, NEW l \in Int PROVE OffsetOf(p, l) \in Int
BY ToIntType DEF OffsetOf

=============================================================================
