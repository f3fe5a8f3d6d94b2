------------------------- MODULE HexAggregatorProofs -------------------------
(***************************************************************************)
(* What get_dec returned is never changed by later digits, for any number  *)
(* of digits.  This needs induction over the decimals: it is stated with   *)
(* sets of numbers, each of which has a least one.                         *)
(***************************************************************************)
EXTENDS HexAggregator, WellFoundedInduction, TLAPS

-----------------------------------------------------------------------------
(* Induction and division *)

LessThan == {ss \in Nat \X Nat : ss[1] < ss[2]}

LEMMA Least ==
    ASSUME NEW T \in SUBSET Nat, T # {}
    PROVE  \E x \in T : \A y \in T : x <= y
  <1>1. IsWellFoundedOn(LessThan, Nat)
    BY NatLessThanWellFounded DEF OpToRel, LessThan
  <1>2. PICK x \in T : \A y \in T : <<y, x>> \notin LessThan
    BY <1>1, WFMin, Zenon
  <1>3. ASSUME NEW y \in T PROVE x <= y
    <2>1. <<y, x>> \in Nat \X Nat /\ ~(<<y, x>>[1] < <<y, x>>[2])
      BY <1>2, <1>3 DEF LessThan
    <2>2. x \in Nat /\ y \in Nat
      OBVIOUS
    <2> QED
      BY <2>1, <2>2
  <1> QED
    BY <1>3

(* A set of numbers that has 0, and with each number below n the next. *)
LEMMA UpToAll ==
    ASSUME NEW n \in Nat, NEW S, 0 \in S,
           \A j \in Nat : j < n /\ j \in S => j + 1 \in S
    PROVE  \A j \in 0..n : j \in S
  <1> SUFFICES ASSUME NEW k \in 0..n, k \notin S PROVE FALSE
    OBVIOUS
  <1> DEFINE T == {j \in 0..n : j \notin S}
  <1>1. PICK x \in T : \A y \in T : x <= y
    <2>1. T \in SUBSET Nat /\ T # {}
      OBVIOUS
    <2> HIDE DEF T
    <2> QED
      BY <2>1, Least
  <1>2. x # 0 /\ x \in Nat /\ x <= n /\ x \notin S
    BY <1>1
  <1>3. x - 1 \in 0..n /\ x - 1 \notin T
    BY <1>1, <1>2
  <1>4. x - 1 \in S /\ x - 1 < n /\ (x - 1) + 1 = x
    BY <1>2, <1>3
  <1> QED
    BY <1>2, <1>3, <1>4

(* The same for all numbers, and downwards. *)
LEMMA All ==
    ASSUME NEW S, 0 \in S, \A j \in Nat : j \in S => j + 1 \in S
    PROVE  \A j \in Nat : j \in S
  <1> SUFFICES ASSUME NEW k \in Nat PROVE k \in S
    OBVIOUS
  <1>1. \A j \in Nat : j < k /\ j \in S => j + 1 \in S
    OBVIOUS
  <1> QED
    BY <1>1, UpToAll

LEMMA DownToAll ==
    ASSUME NEW n \in Nat, NEW S, n \in S,
           \A j \in Nat : j < n /\ j + 1 \in S => j \in S
    PROVE  \A j \in 0..n : j \in S
  <1> DEFINE S2 == {j \in 0..n : n - j \in S}
  <1>1. 0 \in S2
    OBVIOUS
  <1>2. ASSUME NEW j \in Nat, j < n, j \in S2 PROVE j + 1 \in S2
    <2>1. n - (j + 1) \in Nat /\ n - (j + 1) < n /\ (n - (j + 1)) + 1 = n - j
      BY <1>2
    <2>2. n - j \in S
      BY <1>2
    <2>3. n - (j + 1) \in S
      BY <2>1, <2>2
    <2> QED
      BY <1>2, <2>3
  <1>3. \A j \in 0..n : j \in S2
    BY <1>1, <1>2, UpToAll
  <1>4. ASSUME NEW j \in 0..n PROVE j \in S
    <2>1. n - j \in S2
      BY <1>3
    <2>2. n - (n - j) = j
      OBVIOUS
    <2> QED
      BY <2>1, <2>2
  <1> QED
    BY <1>4

(* Quotient and remainder are the only numbers of which this is true. *)
LEMMA Division ==
    ASSUME NEW d \in Nat \ {0}, NEW x \in Nat
    PROVE  /\ x \div d \in Nat /\ x % d \in Nat
           /\ x = d * (x \div d) + (x % d) /\ x % d < d
  OBVIOUS

LEMMA DivisionIs ==
    ASSUME NEW d \in Nat \ {0}, NEW x \in Nat, NEW q \in Nat, NEW r \in Nat,
           x = d * q + r, r < d
    PROVE  x \div d = q /\ x % d = r
  <1>1. PICK p \in Nat, s \in Nat : p = x \div d /\ s = x % d /\ x = d * p + s /\ s < d
    BY Division
  <1>2. d * (p - q) = r - s /\ p - q \in Int
    BY <1>1
  <1>3. ~(p - q >= 1)
    <2>1. p - q >= 1 => d * (p - q) >= d
      BY <1>2
    <2> QED
      BY <1>1, <1>2, <2>1
  <1>4. ~(p - q <= -1)
    <2>1. p - q <= -1 => d * (p - q) <= -d
      BY <1>2
    <2> QED
      BY <1>1, <1>2, <2>1
  <1>5. p = q
    BY <1>3, <1>4
  <1> QED
    BY <1>1, <1>2, <1>5

-----------------------------------------------------------------------------
(* Long division *)

(* The first remainders, as far as the n-th. *)
Divided(num, den, n, h) ==
    /\ DOMAIN h = 0..n
    /\ h[0] = num % den
    /\ \A j \in 1..n : h[j] = (10 * h[j - 1]) % den

LEMMA DividedAlike ==
    ASSUME NEW num, NEW den, NEW m \in Nat, NEW n \in Nat, NEW g, NEW h,
           Divided(num, den, m, g), Divided(num, den, n, h), m <= n
    PROVE  \A j \in 0..m : g[j] = h[j]
  <1> DEFINE S == {j \in 0..m : g[j] = h[j]}
  <1>1. 0 \in S
    BY DEF Divided
  <1>2. ASSUME NEW j \in Nat, j < m, j \in S PROVE j + 1 \in S
    <2>1. j + 1 \in 1..m /\ j + 1 \in 1..n /\ (j + 1) - 1 = j
      BY <1>2
    <2>2. g[j + 1] = (10 * g[(j + 1) - 1]) % den
          /\ h[j + 1] = (10 * h[(j + 1) - 1]) % den
      BY <2>1 DEF Divided
    <2>3. g[j + 1] = h[j + 1]
      BY <1>2, <2>1, <2>2
    <2> QED
      BY <2>1, <2>3
  <1>3. \A j \in 0..m : j \in S
    <2> HIDE DEF S
    <2> QED
      BY <1>1, <1>2, UpToAll
  <1> QED
    BY <1>3

LEMMA SomeDivided ==
    ASSUME NEW num, NEW den
    PROVE  \A n \in Nat : \E h : Divided(num, den, n, h)
  <1> DEFINE S == {n \in Nat : \E h : Divided(num, den, n, h)}
  <1>1. 0 \in S
    <2>1. Divided(num, den, 0, [j \in 0..0 |-> num % den])
      BY DEF Divided
    <2> QED
      BY <2>1
  <1>2. ASSUME NEW n \in Nat, n \in S PROVE n + 1 \in S
    <2>1. PICK h : Divided(num, den, n, h)
      BY <1>2
    <2> DEFINE g == [j \in 0..(n + 1) |-> IF j = n + 1 THEN (10 * h[n]) % den
                                          ELSE h[j]]
    <2>2. g[0] = num % den
      BY <2>1 DEF Divided
    <2>3. ASSUME NEW j \in 1..(n + 1) PROVE g[j] = (10 * g[j - 1]) % den
      <3>1. CASE j = n + 1
        <4>1. g[j] = (10 * h[n]) % den /\ j - 1 = n /\ g[n] = h[n]
          BY <3>1
        <4> QED
          BY <4>1
      <3>2. CASE j # n + 1
        <4>1. j \in 1..n /\ j - 1 \in 0..n /\ j - 1 # n + 1
          BY <3>2
        <4>2. g[j] = h[j] /\ g[j - 1] = h[j - 1]
          BY <3>2, <4>1
        <4>3. h[j] = (10 * h[j - 1]) % den
          BY <2>1, <4>1 DEF Divided
        <4> QED
          BY <4>2, <4>3
      <3> QED
        BY <3>1, <3>2
    <2>4. DOMAIN g = 0..(n + 1)
      OBVIOUS
    <2>5. Divided(num, den, n + 1, g)
      <3> HIDE DEF g
      <3> QED
        BY <2>2, <2>3, <2>4 DEF Divided
    <2> QED
      BY <2>5
  <1>3. \A n \in Nat : n \in S
    <2> HIDE DEF S
    <2> QED
      BY <1>1, <1>2, All
  <1> QED
    BY <1>3

(* There is a function of which the recursive definition is true. *)
LEMMA RemaindersAre ==
    ASSUME NEW num, NEW den
    PROVE  Remainders(num, den) =
             [j \in Nat |-> IF j = 0 THEN num % den
                            ELSE (10 * Remainders(num, den)[j - 1]) % den]
  <1> DEFINE H(n) == CHOOSE h : Divided(num, den, n, h)
             f == [j \in Nat |-> H(j)[j]]
  <1>1. \A n \in Nat : Divided(num, den, n, H(n))
    BY SomeDivided
  <1>2. f[0] = num % den
    BY <1>1 DEF Divided
  <1>3. ASSUME NEW j \in Nat, j # 0 PROVE f[j] = (10 * f[j - 1]) % den
    <2>1. j - 1 \in Nat /\ j - 1 <= j /\ j \in 1..j /\ j - 1 \in 0..(j - 1)
      BY <1>3
    <2> HIDE DEF H
    <2>2. H(j)[j] = (10 * H(j)[j - 1]) % den
      BY <1>1, <2>1 DEF Divided
    <2>3. H(j - 1)[j - 1] = H(j)[j - 1]
      BY <1>1, <2>1, DividedAlike
    <2> QED
      BY <2>1, <2>2, <2>3
  <1>4. f = [j \in Nat |-> IF j = 0 THEN num % den ELSE (10 * f[j - 1]) % den]
    <2>1. f = [j \in Nat |-> f[j]]
      OBVIOUS
    <2> HIDE DEF f
    <2> QED
      BY <1>2, <1>3, <2>1
  <1> HIDE DEF f
  <1> QED
    BY <1>4 DEF Remainders

LEMMA Remainder ==
    ASSUME NEW num, NEW den
    PROVE  /\ Remainders(num, den)[0] = num % den
           /\ \A j \in Nat : Remainders(num, den)[j + 1] =
                             (10 * Remainders(num, den)[j]) % den
  <1> DEFINE r == Remainders(num, den)
  <1>1. r = [j \in Nat |-> IF j = 0 THEN num % den ELSE (10 * r[j - 1]) % den]
    BY RemaindersAre
  <1> HIDE DEF r
  <1>2. r[0] = num % den
    BY <1>1
  <1>3. ASSUME NEW j \in Nat PROVE r[j + 1] = (10 * r[j]) % den
    <2>1. j + 1 \in Nat /\ j + 1 # 0 /\ (j + 1) - 1 = j
      OBVIOUS
    <2> QED
      BY <1>1, <2>1
  <1> QED
    BY <1>2, <1>3 DEF r

(* A remainder is less than what is divided by, and decimals are digits. *)
LEMMA RemainderType ==
    ASSUME NEW num \in Nat, NEW den \in Nat \ {0}
    PROVE  \A j \in Nat : Remainders(num, den)[j] \in 0..(den - 1)
  <1> DEFINE r == Remainders(num, den)
             S == {j \in Nat : r[j] \in 0..(den - 1)}
  <1>1. 0 \in S
    <2>1. r[0] = num % den
      BY Remainder
    <2> HIDE DEF r
    <2> QED
      BY <2>1, Division
  <1>2. ASSUME NEW j \in Nat, j \in S PROVE j + 1 \in S
    <2>1. r[j + 1] = (10 * r[j]) % den
      BY Remainder
    <2>2. 10 * r[j] \in Nat
      BY <1>2
    <2>3. (10 * r[j]) % den \in 0..(den - 1)
      <3> HIDE DEF r
      <3> QED
        BY <2>2, Division
    <2> QED
      BY <2>1, <2>3
  <1>3. \A j \in Nat : j \in S
    <2> HIDE DEF S
    <2> QED
      BY <1>1, <1>2, All
  <1> QED
    BY <1>3

LEMMA NextRemainder ==
    ASSUME NEW num \in Nat, NEW den \in Nat \ {0}, NEW j \in Nat
    PROVE  /\ Decimal(num, den, j + 1) \in 0..9
           /\ 10 * Remainders(num, den)[j] =
                den * Decimal(num, den, j + 1) + Remainders(num, den)[j + 1]
  <1>1. PICK x, y, q : /\ x = Remainders(num, den)[j]
                       /\ y = Remainders(num, den)[j + 1]
                       /\ q = Decimal(num, den, j + 1)
    OBVIOUS
  <1>2. x \in 0..(den - 1) /\ y \in 0..(den - 1)
    BY <1>1, RemainderType
  <1>3. q = (10 * x) \div den
    <2>1. (j + 1) - 1 = j
      OBVIOUS
    <2> QED
      BY <1>1, <2>1 DEF Decimal
  <1>4. y = (10 * x) % den
    BY <1>1, Remainder
  <1>5. 10 * x \in Nat
    BY <1>2
  <1>6. q \in Nat /\ 10 * x = den * q + y
    BY <1>3, <1>4, <1>5, Division
  <1>7. q <= 9
    <2>1. q >= 10 => den * q >= 10 * den
      BY <1>6
    <2> QED
      BY <1>2, <1>6, <2>1
  <1> QED
    BY <1>1, <1>6, <1>7

-----------------------------------------------------------------------------
(* What later digits can change *)

(***************************************************************************)
(* num and den are result and power_of_16 when get_dec found n digits to   *)
(* be certain.  All that is to come is less than 16 times power_of_16, so  *)
(* it stays within what each remainder leaves of den, as far as the last   *)
(* decimal that is returned.                                               *)
(***************************************************************************)
Decimals(n) == IF n = 0 THEN 0 ELSE n - 1

Certain(num, den, n) ==
    LET a == Remainders(num, den)
        c == Remainders(1, den)
    IN  /\ c[0] = 1
        /\ \A j \in 0..(Decimals(n) - 1) : c[j + 1] = 10 * c[j]
        /\ \A j \in 0..Decimals(n) : a[j] + 16 * c[j] <= den

(* f is what power_of_16 was divided by since, and 16 * g what came in.    *)
Later(num, den, f, g, r, p) == r = f * num + 16 * g /\ p = f * den

LEMMA LaterRemainders ==
    ASSUME NEW num \in Nat, NEW den \in Nat \ {0}, NEW n \in Nat,
           Certain(num, den, n), NEW f \in Nat \ {0}, NEW g \in 0..(f - 1),
           NEW r, NEW p, Later(num, den, f, g, r, p)
    PROVE  /\ r \div p = num \div den
           /\ \A j \in 0..(Decimals(n) - 1) :
                Decimal(r, p, j + 1) = Decimal(num, den, j + 1)
  <1> DEFINE a == Remainders(num, den)
             c == Remainders(1, den)
             b == Remainders(f * num + 16 * g, f * den)
             S == {j \in 0..Decimals(n) : b[j] = f * a[j] + 16 * (c[j] * g)}
  <1>l. r = f * num + 16 * g /\ p = f * den
    BY DEF Later
  <1>n. Decimals(n) \in Nat
    BY DEF Decimals
  <1>d. f * den \in Nat \ {0} /\ f * num + 16 * g \in Nat
    OBVIOUS
  <1>a. \A j \in Nat : a[j] \in 0..(den - 1) /\ c[j] \in 0..(den - 1)
    BY RemainderType
  <1>c. /\ c[0] = 1
        /\ \A j \in 0..(Decimals(n) - 1) : c[j + 1] = 10 * c[j]
        /\ \A j \in 0..Decimals(n) : a[j] + 16 * c[j] <= den
    BY DEF Certain
  <1> HIDE DEF a, b, c
  <1>p. \A j \in 0..Decimals(n) : c[j] >= 1
    <2> DEFINE P == {j \in Nat : c[j] >= 1}
    <2>1. 0 \in P
      BY <1>c
    <2>2. ASSUME NEW j \in Nat, j < Decimals(n), j \in P PROVE j + 1 \in P
      <3>1. c[j + 1] = 10 * c[j] /\ c[j] \in Nat
        BY <1>a, <1>c, <1>n, <2>2
      <3> QED
        BY <2>2, <3>1
    <2>3. \A j \in 0..Decimals(n) : j \in P
      <3> HIDE DEF P
      <3> QED
        BY <1>n, <2>1, <2>2, UpToAll
    <2> QED
      BY <2>3
  <1>r. ASSUME NEW j \in 0..Decimals(n)
        PROVE  /\ f * a[j] + 16 * (c[j] * g) \in Nat
               /\ f * a[j] + 16 * (c[j] * g) < f * den
    <2>1. PICK x \in Nat, y \in Nat : x = a[j] /\ y = c[j] /\ y >= 1 /\ x + 16 * y <= den
      BY <1>a, <1>c, <1>p, <1>n
    <2>2. y * g < y * f
      BY <2>1
    <2>3. f * x + 16 * (y * f) <= f * den
      <3>1. f * (x + 16 * y) <= f * den
        BY <2>1
      <3> QED
        BY <2>1, <3>1
    <2>4. y * g \in Nat /\ f * x \in Nat /\ y * f \in Nat
      BY <2>1
    <2> QED
      BY <2>1, <2>2, <2>3, <2>4
  <1>1. (f * num + 16 * g) \div (f * den) = num \div den
        /\ b[0] = f * a[0] + 16 * (c[0] * g)
    <2>1. a[0] = num % den /\ b[0] = (f * num + 16 * g) % (f * den)
      BY Remainder DEF a, b
    <2>2. PICK q \in Nat, x \in Nat : q = num \div den /\ x = a[0]
                                      /\ num = den * q + x
      BY <2>1, Division
    <2>3. f * num + 16 * g = (f * den) * q + (f * x + 16 * (1 * g))
      BY <2>2
    <2>4. f * x + 16 * (1 * g) \in Nat /\ f * x + 16 * (1 * g) < f * den
      BY <1>c, <1>r, <1>n, <2>2
    <2>5. PICK N \in Nat, D \in Nat \ {0}, y \in Nat :
            /\ N = f * num + 16 * g /\ D = f * den /\ y = f * x + 16 * (1 * g)
            /\ N = D * q + y /\ y < D
      BY <1>d, <2>3, <2>4
    <2>6. N \div D = q /\ N % D = y
      <3>1. N = D * q + y /\ y < D
        BY <2>5
      <3> QED
        BY <3>1, DivisionIs
    <2>7. b[0] = y /\ f * a[0] + 16 * (c[0] * g) = y
      BY <1>c, <2>1, <2>2, <2>5, <2>6
    <2>8. (f * num + 16 * g) \div (f * den) = q
      BY <2>5, <2>6
    <2> QED
      BY <2>2, <2>7, <2>8
  <1>2. ASSUME NEW j \in Nat, j < Decimals(n), j \in S
        PROVE  /\ Decimal(f * num + 16 * g, f * den, j + 1) = Decimal(num, den, j + 1)
               /\ j + 1 \in S
    <2>1. PICK q \in Nat, x \in Nat, y \in Nat, z \in Nat :
            /\ q = Decimal(num, den, j + 1) /\ x = a[j] /\ y = c[j]
            /\ z = a[j + 1] /\ 10 * x = den * q + z
      <3>1. a[j] \in Nat /\ c[j] \in Nat /\ a[j + 1] \in Nat
        BY <1>a
      <3>2. Decimal(num, den, j + 1) \in Nat
            /\ 10 * a[j] = den * Decimal(num, den, j + 1) + a[j + 1]
        <4>1. /\ Decimal(num, den, j + 1) \in 0..9
              /\ 10 * Remainders(num, den)[j] =
                   den * Decimal(num, den, j + 1) + Remainders(num, den)[j + 1]
          BY NextRemainder
        <4> QED
          BY <4>1 DEF a
      <3> QED
        BY <3>1, <3>2
    <2>2. c[j + 1] = 10 * y
      BY <1>c, <1>n, <1>2, <2>1
    <2>3. b[j] = f * x + 16 * (y * g)
      BY <1>2, <2>1
    <2>4. 10 * (f * x + 16 * (y * g)) = (f * den) * q + (f * z + 16 * ((10 * y) * g))
      <3>1. f * (10 * x) = f * (den * q) + f * z
        BY <2>1
      <3>2. y * g \in Nat /\ f * x \in Nat
        BY <2>1
      <3>3. f * (10 * x) = 10 * (f * x) /\ f * (den * q) = (f * den) * q
            /\ (10 * y) * g = 10 * (y * g)
        BY <2>1
      <3> QED
        BY <3>1, <3>2, <3>3
    <2>5. f * z + 16 * ((10 * y) * g) \in Nat /\ f * z + 16 * ((10 * y) * g) < f * den
      BY <1>r, <1>n, <1>2, <2>1, <2>2
    <2>6. b[j] \in Nat /\ 10 * b[j] \in Nat
      BY <1>r, <1>n, <1>2, <2>1, <2>3
    <2>7. (10 * b[j]) \div (f * den) = q
          /\ (10 * b[j]) % (f * den) = f * z + 16 * ((10 * y) * g)
      <3>1. PICK N \in Nat, D \in Nat \ {0}, w \in Nat :
              /\ N = 10 * b[j] /\ D = f * den /\ w = f * z + 16 * ((10 * y) * g)
              /\ N = D * q + w /\ w < D
        BY <1>d, <2>3, <2>4, <2>5, <2>6
      <3>2. N \div D = q /\ N % D = w
        <4>1. N = D * q + w /\ w < D
          BY <3>1
        <4> QED
          BY <4>1, DivisionIs
      <3> QED
        BY <3>1, <3>2
    <2>8. b[j + 1] = (10 * b[j]) % (f * den)
      BY Remainder DEF b
    <2>9. Decimal(f * num + 16 * g, f * den, j + 1) = (10 * b[j]) \div (f * den)
      <3>1. (j + 1) - 1 = j
        OBVIOUS
      <3> QED
        BY <3>1 DEF Decimal, b
    <2> QED
      BY <1>2, <1>n, <2>1, <2>2, <2>7, <2>8, <2>9
  <1>3. \A j \in 0..Decimals(n) : j \in S
    <2>1. 0 \in S
      BY <1>1, <1>n
    <2> HIDE DEF S
    <2> QED
      BY <1>2, <1>n, <2>1, UpToAll
  <1> QED
    BY <1>1, <1>2, <1>3, <1>l, <1>n

-----------------------------------------------------------------------------
(* What get_dec finds to be certain *)

LEMMA MaxIs ==
    ASSUME NEW n \in Nat, NEW T \in SUBSET (0..n), T # {}
    PROVE  Max(T) \in T
  <1> DEFINE U == {n - x : x \in T}
  <1>1. U \in SUBSET Nat /\ U # {}
    <2>1. \A x \in T : n - x \in Nat
      OBVIOUS
    <2>2. PICK x \in T : TRUE
      OBVIOUS
    <2>3. n - x \in U
      OBVIOUS
    <2> QED
      BY <2>1, <2>3
  <1>2. PICK u \in U : \A y \in U : u <= y
    <2> HIDE DEF U
    <2> QED
      BY <1>1, Least
  <1>3. PICK x \in T : u = n - x
    BY <1>2
  <1>4. ASSUME NEW y \in T PROVE x >= y
    <2>1. n - x <= n - y
      BY <1>2, <1>3, <1>4
    <2>2. x \in Int /\ y \in Int
      BY <1>3, <1>4
    <2> QED
      BY <2>1, <2>2
  <1>5. \E z \in T : \A y \in T : z >= y
    BY <1>4
  <1> QED
    BY <1>5 DEF Max

LEMMA MinIs ==
    ASSUME NEW T \in SUBSET Nat, T # {}
    PROVE  Min(T) \in T /\ \A y \in T : Min(T) <= y
  BY Least DEF Min

(* The powers of ten are remainders of 1 as long as its decimals are 0. *)
LEMMA ZerosAre ==
    ASSUME NEW den \in Nat \ {0}, power_of_16 = den, digit_count \in Nat \ {0}
    PROVE  /\ FirstNonZero \in 2..Length
           /\ \A j \in Nat : j < FirstNonZero - 2 =>
                Remainders(1, den)[j + 1] = 10 * Remainders(1, den)[j]
  <1> DEFINE T == {n \in 2..Length : n = Length \/ Decimal(1, power_of_16, n - 1) # 0}
  <1>1. Length \in Nat /\ Length >= 3
    BY DEF Length
  <1>2. FirstNonZero = Min(T)
    <2>1. T \union (IF Length < 2 THEN {2} ELSE {}) = T
      BY <1>1
    <2> QED
      BY <2>1 DEF FirstNonZero
  <1>3. T \in SUBSET Nat /\ T # {}
    <2>1. Length \in T
      BY <1>1
    <2> QED
      BY <2>1
  <1>4. Min(T) \in T /\ \A y \in T : Min(T) <= y
    <2> HIDE DEF T
    <2> QED
      BY <1>3, MinIs
  <1>5. PICK p : p = FirstNonZero
    OBVIOUS
  <1>6. p \in 2..Length /\ \A y \in T : p <= y
    BY <1>2, <1>4, <1>5
  <1>7. ASSUME NEW j \in Nat, j < p - 2
        PROVE  Remainders(1, den)[j + 1] = 10 * Remainders(1, den)[j]
    <2>1. j + 2 \in 2..Length /\ j + 2 \notin T /\ j + 2 # Length
      BY <1>1, <1>6, <1>7
    <2>2. Decimal(1, den, j + 1) = 0
      <3>1. (j + 2) - 1 = j + 1
        OBVIOUS
      <3> QED
        BY <2>1, <3>1
    <2>3. /\ 10 * Remainders(1, den)[j] = den * 0 + Remainders(1, den)[j + 1]
          /\ Remainders(1, den)[j + 1] \in 0..(den - 1)
      BY <2>2, NextRemainder, RemainderType
    <2> QED
      BY <2>3
  <1> QED
    BY <1>5, <1>6, <1>7

(* Both are whole multiples of what a digit more is worth. *)
LEMMA GotCertain ==
    ASSUME NEW num \in Nat, NEW den \in Nat \ {0}, digit_count \in Nat \ {0},
           result = 16 * num, power_of_16 = 16 * den
    PROVE  n_digits_dec \in Nat /\ Certain(result, power_of_16, n_digits_dec)
  <1> DEFINE a == Remainders(result, power_of_16)
             c == Remainders(1, power_of_16)
  <1>d. result \in Nat /\ power_of_16 \in Nat \ {0} /\ power_of_16 >= 16
    OBVIOUS
  <1>a. \A j \in Nat : a[j] \in 0..(power_of_16 - 1) /\ c[j] \in 0..(power_of_16 - 1)
    BY <1>d, RemainderType
  <1>p. PICK p \in Nat : /\ p = FirstNonZero /\ p >= 2
                         /\ \A j \in Nat : j < p - 2 => c[j + 1] = 10 * c[j]
    <2>1. FirstNonZero \in 2..Length /\ Length \in Nat
      BY <1>d, ZerosAre DEF Length
    <2> QED
      BY <1>d, <2>1, ZerosAre
  <1>l. Places \in Nat /\ (Places > 0 => Places = p - 3)
    <2>1. Max({p, 3}) = IF p >= 3 THEN p ELSE 3
      <3>1. Max({p, 3}) \in {p, 3} /\ Max({p, 3}) >= p /\ Max({p, 3}) >= 3
        <4>1. \E x \in {p, 3} : \A y \in {p, 3} : x >= y
          BY <1>p
        <4> QED
          BY <4>1 DEF Max
      <3> QED
        BY <1>p, <3>1
    <2> QED
      BY <1>p, <2>1 DEF Places
  <1>n. PICK n \in 0..Places : /\ n = n_digits_dec
                               /\ n = 0 \/ Decimal(result, power_of_16, n) \notin {8, 9}
    <2> DEFINE T == {n \in 0..Places :
                       n = 0 \/ Decimal(result, power_of_16, n) \notin {8, 9}}
    <2>1. T \in SUBSET (0..Places) /\ T # {}
      <3>1. 0 \in T
        BY <1>l
      <3> QED
        BY <3>1
    <2>2. Max(T) \in T
      <3> HIDE DEF T
      <3> QED
        BY <1>l, <2>1, MaxIs
    <2> QED
      BY <2>2 DEF n_digits_dec
  <1>m. PICK m \in Nat : /\ m = Decimals(n) /\ n \in Nat
                         /\ n = 0 => m = 0
                         /\ n # 0 => m = n - 1 /\ n <= p - 3
    BY <1>l, <1>n DEF Decimals
  <1>1. a[0] = 16 * (num % den) /\ c[0] = 1
    <2>1. num % den \in Nat /\ num = den * (num \div den) + (num % den)
          /\ num % den < den /\ num \div den \in Nat
      BY Division
    <2>2. 16 * num = (16 * den) * (num \div den) + 16 * (num % den)
      <3>1. PICK q \in Nat, x \in Nat : q = num \div den /\ x = num % den
                                        /\ num = den * q + x
        BY <2>1
      <3>2. den * q \in Nat /\ (16 * den) * q = 16 * (den * q)
        OBVIOUS
      <3>3. 16 * num = (16 * den) * q + 16 * x
        BY <3>1, <3>2
      <3> QED
        BY <3>1, <3>3
    <2>3. (16 * num) % (16 * den) = 16 * (num % den)
      <3>1. 16 * (num % den) \in Nat /\ 16 * (num % den) < 16 * den
        BY <2>1
      <3> QED
        BY <1>d, <2>1, <2>2, <3>1, DivisionIs
    <2>4. 1 % power_of_16 = 1
      <3>1. 1 = power_of_16 * 0 + 1 /\ 1 < power_of_16
        BY <1>d
      <3> QED
        BY <1>d, <3>1, DivisionIs
    <2> QED
      BY <2>3, <2>4, Remainder
  <1>2. ASSUME NEW j \in Nat, j < m PROVE c[j + 1] = 10 * c[j]
    BY <1>p, <1>m, <1>2
  <1>3. a[m] + 16 * c[m] <= power_of_16
    <2>1. CASE n = 0
      <3>1. num % den \in Nat /\ num % den < den
        BY Division
      <3> QED
        BY <1>1, <1>m, <2>1, <3>1
    <2>2. CASE n # 0
      <3>1. n \in Nat /\ m = n - 1 /\ m + 1 = n /\ m < p - 2 /\ n < p - 2
        BY <1>m, <1>p, <2>2
      <3>2. c[n] = 10 * c[m] /\ c[n + 1] = 10 * c[n]
        BY <1>p, <3>1
      <3>3. PICK q : q = Decimal(result, power_of_16, n)
        OBVIOUS
      <3>4. q \in 0..9 /\ 10 * a[m] = power_of_16 * q + a[n]
        <4>1. /\ Decimal(result, power_of_16, m + 1) \in 0..9
              /\ 10 * Remainders(result, power_of_16)[m] =
                   power_of_16 * Decimal(result, power_of_16, m + 1)
                     + Remainders(result, power_of_16)[m + 1]
          BY <1>d, NextRemainder
        <4> QED
          BY <3>1, <3>3, <4>1
      <3>5. q \in 0..7
        BY <1>n, <2>2, <3>3, <3>4
      <3>6. power_of_16 * q <= 7 * power_of_16
        BY <1>d, <3>5
      <3>7. /\ c[m] \in Nat /\ c[n + 1] < power_of_16
            /\ a[m] \in Nat /\ a[n] \in Nat /\ a[n] < power_of_16
        BY <1>a, <1>d, <3>1
      <3>8. power_of_16 * q \in Nat
        BY <1>d, <3>5
      <3> HIDE DEF a, c
      <3> QED
        BY <1>d, <3>2, <3>4, <3>6, <3>7, <3>8
    <2> QED
      BY <2>1, <2>2
  <1>4. \A j \in 0..m : a[j] + 16 * c[j] <= power_of_16
    <2> DEFINE S == {j \in 0..m : a[j] + 16 * c[j] <= power_of_16}
    <2>1. m \in S
      BY <1>m, <1>3
    <2>2. ASSUME NEW j \in Nat, j < m, j + 1 \in S PROVE j \in S
      <3>1. PICK q : q = Decimal(result, power_of_16, j + 1)
        OBVIOUS
      <3>2. q \in 0..9 /\ 10 * a[j] = power_of_16 * q + a[j + 1]
        <4>1. /\ Decimal(result, power_of_16, j + 1) \in 0..9
              /\ 10 * Remainders(result, power_of_16)[j] =
                   power_of_16 * Decimal(result, power_of_16, j + 1)
                     + Remainders(result, power_of_16)[j + 1]
          BY <1>d, NextRemainder
        <4> QED
          BY <3>1, <4>1
      <3>3. power_of_16 * q <= 9 * power_of_16 /\ power_of_16 * q \in Nat
        BY <1>d, <3>2
      <3>4. c[j + 1] = 10 * c[j] /\ a[j + 1] + 16 * c[j + 1] <= power_of_16
        BY <1>2, <2>2
      <3>5. a[j] \in Nat /\ a[j + 1] \in Nat /\ c[j] \in Nat
        BY <1>a
      <3> HIDE DEF a, c
      <3>6. a[j] + 16 * c[j] <= power_of_16
        BY <1>d, <3>2, <3>3, <3>4, <3>5
      <3> QED
        BY <1>m, <2>2, <3>6
    <2>3. \A j \in 0..m : j \in S
      <3> HIDE DEF S
      <3> QED
        BY <1>m, <2>1, <2>2, DownToAll
    <2> QED
      BY <2>3
  <1>5. Certain(result, power_of_16, n)
    <2>1. \A j \in 0..(Decimals(n) - 1) : c[j + 1] = 10 * c[j]
      BY <1>2, <1>m
    <2>2. \A j \in 0..Decimals(n) : a[j] + 16 * c[j] <= power_of_16
      BY <1>4, <1>m
    <2> QED
      BY <1>1, <2>1, <2>2 DEF Certain
  <1> QED
    BY <1>5, <1>n, <1>m

-----------------------------------------------------------------------------
(* The invariant *)

(* With a digit, both numbers are whole multiples of what one more is worth. *)
Counted ==
    /\ digit_count \in Nat
    /\ digit_count = 0 => result = 0 /\ power_of_16 = 1
    /\ digit_count # 0 =>
         \E num \in Nat, den \in Nat \ {0} :
             result = 16 * num /\ power_of_16 = 16 * den

(* The string of num / den, with n - 1 decimals. *)
String(num, den, n) ==
    <<num \div den>> \o [i \in 1..(n - 1) |-> Decimal(num, den, i)]

(* What was returned was certain then, and all that came in since is less  *)
(* than one more at the last digit there was.                              *)
GotEarlier ==
    got.after > 0 =>
        /\ digit_count # 0
        /\ \E num \in Nat, den \in Nat \ {0}, n \in Nat, f \in Nat \ {0} :
             \E g \in 0..(f - 1) :
                /\ Certain(num, den, n)
                /\ got.dec = String(num, den, n)
                /\ Later(num, den, f, g, result, power_of_16)

CertainInv == Counted /\ GotEarlier

LEMMA CertainInit == Init => CertainInv
  BY DEF Init, CertainInv, Counted, GotEarlier

LEMMA CertainInsert ==
    ASSUME CertainInv, NEW digit \in 0..15, insert_digit(digit)
    PROVE  CertainInv'
  <1>1. /\ digit_count' = digit_count + 1 /\ digit_count \in Nat
        /\ result' = 16 * (result + digit)
        /\ power_of_16' = 16 * power_of_16 /\ got' = got
    BY DEF insert_digit, CertainInv, Counted
  <1>2. result \in Nat /\ power_of_16 \in Nat \ {0}
    <2>1. CASE digit_count = 0
      BY <2>1 DEF CertainInv, Counted
    <2>2. CASE digit_count # 0
      BY <2>2 DEF CertainInv, Counted
    <2> QED
      BY <2>1, <2>2
  <1>3. Counted'
    <2>1. result + digit \in Nat /\ digit_count' \in Nat /\ digit_count' # 0
      BY <1>1, <1>2
    <2> QED
      BY <1>1, <1>2, <2>1 DEF Counted
  <1>4. GotEarlier'
    <2> SUFFICES ASSUME got.after > 0 PROVE GotEarlier'
      BY <1>1 DEF GotEarlier
    <2>1. PICK num \in Nat, den \in Nat \ {0}, n \in Nat, f \in Nat \ {0} :
            \E g \in 0..(f - 1) :
              /\ Certain(num, den, n)
              /\ got.dec = String(num, den, n)
              /\ Later(num, den, f, g, result, power_of_16)
      BY DEF CertainInv, GotEarlier
    <2>2. PICK g \in 0..(f - 1) :
            /\ Certain(num, den, n)
            /\ got.dec = String(num, den, n)
            /\ Later(num, den, f, g, result, power_of_16)
      BY <2>1
    <2>3. 16 * f \in Nat \ {0} /\ 16 * g + digit \in 0..(16 * f - 1)
      OBVIOUS
    <2>4. result' = (16 * f) * num + 16 * (16 * g + digit)
      BY <1>1, <2>2 DEF Later
    <2>5. power_of_16' = (16 * f) * den
      BY <1>1, <2>2 DEF Later
    <2>6. digit_count' # 0
      BY <1>1
    <2>7. \E e \in 0..(16 * f - 1) :
            /\ Certain(num, den, n)
            /\ got'.dec = String(num, den, n)
            /\ Later(num, den, 16 * f, e, result', power_of_16')
      BY <1>1, <2>2, <2>3, <2>4, <2>5 DEF Later
    <2> QED
      BY <2>3, <2>6, <2>7 DEF GotEarlier
  <1> QED
    BY <1>3, <1>4 DEF CertainInv

LEMMA CertainGet ==
    ASSUME CertainInv, get_dec
    PROVE  CertainInv'
  <1>1. /\ got' = [dec |-> get_dec_string(n_digits_dec), after |-> digit_count]
        /\ UNCHANGED <<digit_count, result, power_of_16>>
    BY DEF get_dec
  <1>2. Counted'
    BY <1>1 DEF CertainInv, Counted
  <1>3. GotEarlier'
    <2> SUFFICES ASSUME digit_count > 0 PROVE GotEarlier'
      BY <1>1 DEF GotEarlier
    <2>1. PICK num \in Nat, den \in Nat \ {0} :
            result = 16 * num /\ power_of_16 = 16 * den
      BY DEF CertainInv, Counted
    <2>2. digit_count \in Nat \ {0}
      BY DEF CertainInv, Counted
    <2>3. n_digits_dec \in Nat /\ Certain(result, power_of_16, n_digits_dec)
      BY <2>1, <2>2, GotCertain
    <2>4. PICK n \in Nat : n = n_digits_dec
      BY <2>3
    <2>5. got'.dec = String(result, power_of_16, n)
      BY <1>1, <2>4 DEF get_dec_string, String
    <2>6. result \in Nat /\ power_of_16 \in Nat \ {0}
      BY <2>1
    <2>7. result = 1 * result + 16 * 0 /\ power_of_16 = 1 * power_of_16
      BY <2>6
    <2>8. \E f \in Nat \ {0} : \E g \in 0..(f - 1) :
            /\ Certain(result, power_of_16, n)
            /\ got'.dec = String(result, power_of_16, n)
            /\ Later(result, power_of_16, f, g, result', power_of_16')
      <3>1. 1 \in Nat \ {0} /\ 0 \in 0..(1 - 1)
        OBVIOUS
      <3> QED
        BY <1>1, <2>3, <2>4, <2>5, <2>7, <3>1 DEF Later
    <2> QED
      BY <1>1, <2>2, <2>6, <2>8 DEF GotEarlier
  <1> QED
    BY <1>2, <1>3 DEF CertainInv

LEMMA CertainNext == CertainInv /\ [Next]_vars => CertainInv'
  <1> SUFFICES ASSUME CertainInv, [Next]_vars PROVE CertainInv'
    OBVIOUS
  <1>1. CASE \E digit \in IF digit_count = 0 THEN {3} ELSE HexDigits :
               insert_digit(digit)
    <2>1. PICK digit \in 0..15 : insert_digit(digit)
      BY <1>1, HexDigitsAssumption
    <2> QED
      BY <2>1, CertainInsert
  <1>2. CASE get_dec
    BY <1>2, CertainGet
  <1>3. CASE UNCHANGED vars
    BY <1>3 DEF vars, CertainInv, Counted, GotEarlier
  <1> QED
    BY <1>1, <1>2, <1>3 DEF Next

LEMMA StringLength ==
    ASSUME NEW num \in Nat, NEW den \in Nat \ {0}, NEW n \in Nat
    PROVE  /\ 1..(n - 1) = 1..Decimals(n) /\ Decimals(n) \in Nat
           /\ String(num, den, n) \in Seq(Nat)
           /\ Len(String(num, den, n)) = Decimals(n) + 1
  <1> DEFINE t == [i \in 1..Decimals(n) |-> Decimal(num, den, i)]
  <1>1. 1..(n - 1) = 1..Decimals(n) /\ Decimals(n) \in Nat
    BY DEF Decimals
  <1>2. ASSUME NEW i \in 1..Decimals(n) PROVE Decimal(num, den, i) \in Nat
    <2>1. i - 1 \in Nat /\ (i - 1) + 1 = i
      BY <1>1
    <2>2. Decimal(num, den, (i - 1) + 1) \in 0..9
      BY <2>1, NextRemainder
    <2> QED
      BY <2>1, <2>2
  <1>3. t \in Seq(Nat) /\ Len(t) = Decimals(n)
    BY <1>1, <1>2
  <1>4. String(num, den, n) = <<num \div den>> \o t
    BY <1>1 DEF String
  <1>5. num \div den \in Nat
    BY Division
  <1> HIDE DEF t
  <1>6. <<num \div den>> \in Seq(Nat) /\ Len(<<num \div den>>) = 1
    BY <1>5
  <1> QED
    BY <1>1, <1>3, <1>4, <1>6

(* The string is now what it was then, as far as it was returned. *)
LEMMA CertainImplies == CertainInv => DigitsCertain
  <1> SUFFICES ASSUME CertainInv, got.after > 0
               PROVE  IsPrefix(got.dec, get_dec_string(Len(got.dec)))
    BY DEF DigitsCertain
  <1>1. PICK num \in Nat, den \in Nat \ {0}, n \in Nat, f \in Nat \ {0} :
          \E g \in 0..(f - 1) :
            /\ Certain(num, den, n)
            /\ got.dec = String(num, den, n)
            /\ Later(num, den, f, g, result, power_of_16)
    BY DEF CertainInv, GotEarlier
  <1>2. PICK g \in 0..(f - 1) :
          /\ Certain(num, den, n)
          /\ got.dec = String(num, den, n)
          /\ Later(num, den, f, g, result, power_of_16)
    BY <1>1
  <1>3. /\ 1..(n - 1) = 1..Decimals(n) /\ Decimals(n) \in Nat
        /\ got.dec \in Seq(Nat) /\ Len(got.dec) = Decimals(n) + 1
    BY <1>2, StringLength
  <1>4. /\ result \div power_of_16 = num \div den
        /\ \A j \in 0..(Decimals(n) - 1) :
             Decimal(result, power_of_16, j + 1) = Decimal(num, den, j + 1)
    BY <1>2, LaterRemainders
  <1>5. ASSUME NEW i \in 1..Decimals(n)
        PROVE  Decimal(result, power_of_16, i) = Decimal(num, den, i)
    <2>1. i - 1 \in 0..(Decimals(n) - 1) /\ (i - 1) + 1 = i
      BY <1>3
    <2>2. Decimal(result, power_of_16, (i - 1) + 1) = Decimal(num, den, (i - 1) + 1)
      BY <1>4, <2>1
    <2> QED
      BY <2>1, <2>2
  <1>6. 1..(Len(got.dec) - 1) = 1..Decimals(n)
    BY <1>3
  <1>7. get_dec_string(Len(got.dec)) =
          <<num \div den>> \o [i \in 1..Decimals(n) |-> Decimal(num, den, i)]
    BY <1>4, <1>5, <1>6 DEF get_dec_string
  <1>8. got.dec = get_dec_string(Len(got.dec))
    BY <1>2, <1>3, <1>7 DEF String
  <1>9. IsPrefix(got.dec, got.dec)
    BY <1>3 DEF IsPrefix
  <1> QED
    BY <1>8, <1>9

(***************************************************************************)
(* "Get string of certain decimal digits": what get_dec returned are the   *)
(* first digits of result ever after, however many and whatever digits are *)
(* inserted.                                                               *)
(***************************************************************************)
THEOREM AlwaysCertain == Spec => []DigitsCertain
  BY CertainInit, CertainNext, CertainImplies, PTL DEF Spec
=============================================================================
