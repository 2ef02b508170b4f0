-------------------------- MODULE OperationProofs --------------------------
(***************************************************************************)
(* Proofs about operations that are pure functions of their arguments.     *)
(*                                                                         *)
(*   - FixedWidth: the machine arithmetic, for words of any width;         *)
(*   - Verification (VE): equivalence and constraint checks, for any       *)
(*     probes, values, candidates and constraints;                         *)
(*   - Catalog (CA): search, schema variants and assurance labels, for any *)
(*     vocabulary;                                                         *)
(*   - ExactNumbers (EN): the rounding of decimals, for any decimals;      *)
(*   - Finance (FI): how long a document of the rate cache is fresh.       *)
(*                                                                         *)
(* Their modules keep one request or answer as state and forget it at the  *)
(* next step, so a theorem says that whatever a step answers is right. The *)
(* run that checks them composes them in MCOperations, with modules that   *)
(* are out of the provers' reach: the theorems are about the properties    *)
(* each of these modules states of itself.                                 *)
(***************************************************************************)
EXTENDS FixedWidth, FiniteSetTheorems, NaturalsInduction, WellFoundedInduction, TLAPS

CONSTANTS
    Probes, Others, Values, Candidates, MaxItems,           \* those of Verification,
    Latin, Cjk, MaxVariants,                                \* of Catalog,
    Decimals, Increments, Integers_, MaxDecimal, MaxInteger, MaxCounted, Precision,
    Narrow, Wide, UnitExponent, Magnitudes,                 \* of ExactNumbers,
    Amounts, Rates, Brackets, Grid, MaxPeriods, MaxIterations, MaxCoefficient,
    Day, Release, MinimumRateCount                          \* and of Finance

VE == INSTANCE Verification
CA == INSTANCE Catalog
EN == INSTANCE ExactNumbers WITH MaxCount <- MaxCounted
FI == INSTANCE Finance

----------------------------------------------------------------------------
(* Arithmetic.                                                             *)

\* A set with one more element has twice as many subsets.
LEMMA PowerOfTwo ==
    ASSUME NEW n \in Nat
    PROVE  /\ 2^n \in Nat \ {0}
           /\ 2^(n + 1) = 2 * 2^n
<1> DEFINE S == 1..n
           T == 1..(n + 1)
           A == SUBSET S
           with == [X \in A |-> X \cup {n + 1}]
           B == {X \cup {n + 1} : X \in A}
<1>1. n \in Int /\ n + 1 \in Int /\ 1 \in Int
  OBVIOUS
<1>2. IsFiniteSet(S) /\ Cardinality(S) = n
  BY <1>1, FS_Interval
<1>3. IsFiniteSet(T) /\ Cardinality(T) = n + 1
  BY <1>1, FS_Interval
<1>4. IsFiniteSet(A) /\ Cardinality(A) = 2^n
  BY <1>2, FS_SUBSET
<1>5. Cardinality(SUBSET T) = 2^(n + 1)
  BY <1>3, FS_SUBSET
<1>6. n + 1 \notin S /\ T = S \cup {n + 1}
  OBVIOUS
<1> HIDE DEF S, T
<1>7. with \in Bijection(A, B)
  <2>1. with \in [A -> B]
    OBVIOUS
  <2>2. \A X, Y \in A : with[X] = with[Y] => X = Y
    BY <1>6
  <2>3. \A Y \in B : \E X \in A : with[X] = Y
    OBVIOUS
  <2> QED
    BY <2>1, <2>2, <2>3 DEF Bijection, Injection, Surjection, IsInjective
<1>8. IsFiniteSet(B) /\ Cardinality(B) = 2^n
  BY <1>4, <1>7, FS_Bijection DEF ExistsBijection
<1>9. SUBSET T = A \cup B
  <2>1. ASSUME NEW X \in SUBSET T PROVE X \in A \cup B
    <3>1. CASE n + 1 \in X
      <4>1. X \ {n + 1} \in A /\ X = (X \ {n + 1}) \cup {n + 1}
        BY <1>6, <3>1
      <4> QED
        BY <4>1
    <3>2. CASE n + 1 \notin X
      BY <1>6, <3>2
    <3> QED
      BY <3>1, <3>2
  <2>2. ASSUME NEW X \in A \cup B PROVE X \in SUBSET T
    BY <1>6
  <2> QED
    BY <2>1, <2>2
<1>10. A \cap B = {}
  BY <1>6
<1>11. Cardinality(A \cup B) = Cardinality(A) + Cardinality(B) - Cardinality({})
  <2>1. IsFiniteSet(A) /\ IsFiniteSet(B)
    BY <1>4, <1>8
  <2> HIDE DEF A, B
  <2>2. Cardinality(A \cup B) = Cardinality(A) + Cardinality(B) - Cardinality(A \cap B)
    BY <2>1, FS_Union
  <2> QED
    BY <1>10, <2>2
<1>12. 2^n \in Nat /\ 2^n # 0
  <2>1. A # {}
    OBVIOUS
  <2> QED
    BY <1>4, <2>1, FS_EmptySet, FS_CardinalityType
<1>13. Cardinality({}) = 0
  BY FS_EmptySet
<1> HIDE DEF A, B
<1> DEFINE p == 2^n
           q == 2^(n + 1)
<1>14. q = p + p - 0 /\ p \in Nat /\ p # 0
  BY <1>4, <1>5, <1>8, <1>9, <1>11, <1>12, <1>13
<1> HIDE DEF p, q
<1>15. q = 2 * p /\ p \in Nat \ {0}
  BY <1>14
<1> QED
  BY <1>15 DEF p, q

\* Quotient and remainder are determined by what they are for.
LEMMA DivisionUnique ==
    ASSUME NEW M \in Nat \ {0}, NEW v \in Int, NEW q \in Int, NEW r \in 0..(M - 1),
           v = q * M + r
    PROVE  v \div M = q /\ v % M = r
<1> DEFINE k == v \div M
           s == v % M
<1>1. k \in Int /\ s \in 0..(M - 1) /\ v = k * M + s
  OBVIOUS
<1> HIDE DEF k, s
<1> DEFINE d == q - k
<1>2. d \in Int /\ d * M = s - r
  BY <1>1
<1>3. d * M < M /\ d * M > -M
  BY <1>1, <1>2
<1> HIDE DEF d
<1>4. ASSUME d >= 1 PROVE FALSE
  <2>1. d * M >= M
    BY <1>2, <1>4
  <2> QED
    BY <1>2, <1>3, <2>1
<1>5. ASSUME d <= -1 PROVE FALSE
  <2>1. d * M <= -M
    BY <1>2, <1>5
  <2> QED
    BY <1>2, <1>3, <2>1
<1>6. d = 0
  BY <1>2, <1>4, <1>5
<1>7. q = k /\ s = r
  BY <1>1, <1>2, <1>6 DEF d
<1> QED
  BY <1>7 DEF k, s

\* A number and its remainder differ by a multiple.
LEMMA Residue ==
    ASSUME NEW M \in Nat \ {0}, NEW v \in Int
    PROVE  v % M \in 0..(M - 1) /\ ((v % M) - v) % M = 0
<1> DEFINE k == v \div M
           s == v % M
<1>1. k \in Int /\ s \in 0..(M - 1) /\ v = k * M + s
  OBVIOUS
<1> HIDE DEF k, s
<1>2. s - v = (-k) * M + 0 /\ -k \in Int /\ s - v \in Int /\ 0 \in 0..(M - 1)
  BY <1>1
<1>3. (s - v) % M = 0
  BY <1>2, DivisionUnique
<1> QED
  BY <1>1, <1>3 DEF s

----------------------------------------------------------------------------
(* Words.                                                                  *)

\* The bits of a word, read as a number of the selected range, and back.
LEMMA Readings ==
    ASSUME NEW w \in Nat \ {0}, NEW sign \in Signedness
    PROVE  /\ 2^w \in Nat \ {0}
           /\ \E low, high \in Int : low <= high /\ selected_range(w, sign) = low..high
           /\ \A raw \in 0..(2^w - 1) : selected_value(raw, w, sign) \in selected_range(w, sign)
           /\ \A v \in selected_range(w, sign) : selected_value(v % 2^w, w, sign) = v
<1> DEFINE H == 2^(w - 1)
           M == 2^w
<1>1. w - 1 \in Nat /\ (w - 1) + 1 = w
  OBVIOUS
<1>2. 2^(w - 1) \in Nat \ {0} /\ 2^((w - 1) + 1) = 2 * 2^(w - 1)
  BY <1>1, PowerOfTwo
<1>3. H \in Nat \ {0} /\ M = 2 * H
  BY <1>1, <1>2
<1>4. selected_range(w, sign) = IF sign = "unsigned" THEN 0..(M - 1) ELSE -H..(H - 1)
  BY DEF selected_range
<1>5. \A raw : selected_value(raw, w, sign) =
                  IF sign = "unsigned" THEN raw
                  ELSE IF (raw \div H) % 2 = 1 THEN raw - M ELSE raw
  BY DEF selected_value, signed_value, Bit, Signedness
<1> HIDE DEF H, M
<1>6. M \in Nat \ {0}
  BY <1>3
<1>7. \A raw \in 0..(M - 1) : (raw \div H) % 2 = 1 <=> raw >= H
  <2> SUFFICES ASSUME NEW raw \in 0..(M - 1) PROVE (raw \div H) % 2 = 1 <=> raw >= H
    OBVIOUS
  <2>1. CASE raw < H
    <3>1. raw \in 0..(H - 1) /\ raw = 0 * H + raw /\ raw \in Int
      BY <1>3, <2>1
    <3>2. raw \div H = 0
      BY <1>3, <3>1, DivisionUnique
    <3> QED
      BY <1>3, <2>1, <3>1, <3>2
  <2>2. CASE raw >= H
    <3>1. raw - H \in 0..(H - 1) /\ raw = 1 * H + (raw - H) /\ raw \in Int
      BY <1>3, <2>2
    <3>2. raw \div H = 1
      BY <1>3, <3>1, DivisionUnique
    <3> QED
      BY <1>3, <2>2, <3>1, <3>2
  <2>3. raw < H \/ raw >= H
    BY <1>3
  <2> QED
    BY <2>1, <2>2, <2>3
<1>8. \E low, high \in Int : low <= high /\ selected_range(w, sign) = low..high
  <2>1. CASE sign = "unsigned"
    <3>1. 0 \in Int /\ M - 1 \in Int /\ 0 <= M - 1
      BY <1>6
    <3> QED
      BY <1>4, <2>1, <3>1
  <2>2. CASE sign # "unsigned"
    <3>1. -H \in Int /\ H - 1 \in Int /\ -H <= H - 1
      BY <1>3
    <3> QED
      BY <1>4, <2>2, <3>1
  <2> QED
    BY <2>1, <2>2
<1>9. \A raw \in 0..(M - 1) : selected_value(raw, w, sign) \in selected_range(w, sign)
  <2> SUFFICES ASSUME NEW raw \in 0..(M - 1)
               PROVE  selected_value(raw, w, sign) \in selected_range(w, sign)
    OBVIOUS
  <2>1. CASE sign = "unsigned"
    BY <1>4, <1>5, <2>1
  <2>2. CASE sign # "unsigned" /\ raw >= H
    <3>1. selected_value(raw, w, sign) = raw - M
      BY <1>5, <1>7, <2>2
    <3>2. raw - M \in -H..(H - 1)
      BY <1>3, <2>2
    <3> QED
      BY <1>4, <2>2, <3>1, <3>2
  <2>3. CASE sign # "unsigned" /\ ~ (raw >= H)
    <3>1. selected_value(raw, w, sign) = raw
      BY <1>5, <1>7, <2>3
    <3>2. raw \in -H..(H - 1)
      BY <1>3, <2>3
    <3> QED
      BY <1>4, <2>3, <3>1, <3>2
  <2> QED
    BY <2>1, <2>2, <2>3
<1>10. \A v \in selected_range(w, sign) : selected_value(v % M, w, sign) = v
  <2> SUFFICES ASSUME NEW v \in selected_range(w, sign)
               PROVE  selected_value(v % M, w, sign) = v
    OBVIOUS
  <2>1. CASE v >= 0
    <3>1. /\ v \in Int /\ v \in 0..(M - 1) /\ v = 0 * M + v
          /\ sign # "unsigned" => v < H
      BY <1>3, <1>4, <2>1
    <3>2. v % M = v
      BY <1>6, <3>1, DivisionUnique
    <3> QED
      BY <1>3, <1>5, <1>7, <3>1, <3>2
  <2>2. CASE v < 0
    <3>1. /\ v \in Int /\ sign # "unsigned" /\ -1 \in Int
          /\ v + M \in 0..(M - 1) /\ v = (-1) * M + (v + M) /\ v + M >= H
      BY <1>3, <1>4, <2>2
    <3>2. v % M = v + M
      BY <1>6, <3>1, DivisionUnique
    <3>3. ((v + M) \div H) % 2 = 1
      BY <1>7, <3>1
    <3> QED
      BY <1>5, <1>6, <3>1, <3>2, <3>3
  <2>3. v \in Int
    BY <1>3, <1>4
  <2> QED
    BY <2>1, <2>2, <2>3
<1> QED
  BY <1>6, <1>8, <1>9, <1>10 DEF M

\* Each mode of division leaves a remainder smaller than the divisor, of the sign
\* it promises.
LEMMA DivisionModesHold ==
    ASSUME NEW a \in Int, NEW b \in Int \ {0}, NEW mode \in DivisionModes
    PROVE  LET q == divide(a, b, mode)
               rem == a - b * q
           IN  /\ q \in Int
               /\ Abs(rem) < Abs(b)
               /\ (b * q) % Abs(b) = 0
               /\ mode = "truncating" => Sign(rem) \in {0, Sign(a)}
               /\ mode = "floor" => Sign(rem) \in {0, Sign(b)}
               /\ mode = "euclidean" => rem >= 0
<1> DEFINE c == IF b > 0 THEN b ELSE -b
           q == divide(a, b, mode)
<1>1. c \in Nat \ {0} /\ Abs(b) = c /\ (b > 0 => b = c) /\ (~ (b > 0) => b = -c)
  BY DEF Abs
<1>2. ASSUME NEW x \in Int
      PROVE  /\ x \div c \in Int /\ x % c \in 0..(c - 1)
             /\ x = (x \div c) * c + (x % c)
  <2> HIDE DEF c
  <2>1. c \in Nat \ {0}
    BY <1>1
  <2> QED
    BY <2>1
<1>3. ASSUME NEW k \in Int, q = k \/ q = -k PROVE (b * q) % c = 0
  <2>1. \E j \in Int : b * q = j * c + 0
    <3>1. b * q = k * c + 0 \/ b * q = (-k) * c + 0
      BY <1>1, <1>3
    <3>2. k \in Int /\ -k \in Int
      OBVIOUS
    <3> QED
      BY <3>1, <3>2
  <2>2. PICK j \in Int : b * q = j * c + 0
    BY <2>1
  <2>3. j * c + 0 \in Int /\ 0 \in 0..(c - 1)
    BY <1>1
  <2> QED
    BY <1>1, <2>2, <2>3, DivisionUnique
<1>4. CASE mode = "floor" /\ b > 0
  <2> DEFINE k == a \div c
             s == a % c
  <2>1. q = k
    BY <1>1, <1>4 DEF divide
  <2>2. k \in Int /\ s \in 0..(c - 1) /\ a = k * c + s
    BY <1>2
  <2>3. (b * q) % c = 0
    BY <1>3, <2>1, <2>2
  <2> HIDE DEF k, s, c, q
  <2>4. a - b * q = s
    BY <1>1, <1>4, <2>1, <2>2
  <2> QED
    BY <1>1, <1>4, <2>1, <2>2, <2>3, <2>4 DEF q, Abs, Sign
<1>5. CASE mode = "floor" /\ ~ (b > 0)
  <2> DEFINE k == (-a) \div c
             s == (-a) % c
  <2>1. q = k
    BY <1>1, <1>5 DEF divide
  <2>2. k \in Int /\ s \in 0..(c - 1) /\ -a = k * c + s
    BY <1>2
  <2>3. (b * q) % c = 0
    BY <1>3, <2>1, <2>2
  <2> HIDE DEF k, s, c, q
  <2>4. a - b * q = -s
    BY <1>1, <1>5, <2>1, <2>2
  <2> QED
    BY <1>1, <1>5, <2>1, <2>2, <2>3, <2>4 DEF q, Abs, Sign
<1>6. CASE mode = "euclidean"
  <2> DEFINE k == a \div c
             s == a % c
  <2>1. q = IF b > 0 THEN k ELSE -k
    BY <1>1, <1>6 DEF divide
  <2>2. k \in Int /\ s \in 0..(c - 1) /\ a = k * c + s
    BY <1>2
  <2>3. (b * q) % c = 0
    BY <1>3, <2>1, <2>2
  <2> HIDE DEF k, s, c, q
  <2>4. a - b * q = s
    BY <1>1, <1>6, <2>1, <2>2
  <2>5. q \in Int
    BY <2>1, <2>2
  <2> QED
    BY <1>1, <1>6, <2>2, <2>3, <2>4, <2>5 DEF q, Abs, Sign
<1>7. CASE mode = "truncating"
  <2> DEFINE k == Abs(a) \div c
             s == Abs(a) % c
  <2>0. Abs(a) \in Int
    BY DEF Abs
  <2>1. q = IF (a < 0) # (b < 0) THEN -k ELSE k
    BY <1>1, <1>7 DEF divide
  <2>2. k \in Int /\ s \in 0..(c - 1) /\ Abs(a) = k * c + s
    BY <1>2, <2>0
  <2>3. (b * q) % c = 0
    BY <1>3, <2>1, <2>2
  <2> HIDE DEF k, s, c, q
  <2>4. CASE a < 0
    <3>1. a - b * q = -s
      BY <1>1, <2>1, <2>2, <2>4 DEF Abs
    <3>2. q \in Int
      BY <2>1, <2>2
    <3> QED
      BY <1>1, <1>7, <2>2, <2>3, <2>4, <3>1, <3>2 DEF q, Abs, Sign
  <2>5. CASE ~ (a < 0)
    <3>1. a - b * q = s
      BY <1>1, <2>1, <2>2, <2>5 DEF Abs
    <3>2. q \in Int
      BY <2>1, <2>2
    <3>3. a > 0 \/ s = 0
      <4>1. ASSUME a = 0 PROVE s = 0
        <5>1. 0 = k * c + s /\ 0 = 0 * c + 0 /\ 0 \in 0..(c - 1) /\ 0 \in Int
          BY <1>1, <2>2, <4>1 DEF Abs
        <5>2. 0 % c = s /\ 0 % c = 0
          BY <1>1, <2>2, <5>1, DivisionUnique
        <5> QED
          BY <5>2
      <4> QED
        BY <2>5, <4>1
    <3> QED
      BY <1>1, <1>7, <2>2, <2>3, <2>5, <3>1, <3>2, <3>3 DEF q, Abs, Sign
  <2> QED
    BY <2>4, <2>5
<1> QED
  BY <1>4, <1>5, <1>6, <1>7 DEF DivisionModes

----------------------------------------------------------------------------
(* Checks.                                                                 *)

\* A set of naturals that is not empty has a least element, and Min is it.
LEMMA LeastIndex ==
    ASSUME NEW S \in SUBSET Nat, S # {}
    PROVE  Min(S) \in S
<1>1. PICK u \in S : \A v \in S : ~ (<<v, u>> \in OpToRel(<, Nat))
  BY NatLessThanWellFounded, WFMin
<1>2. \A y \in S : u <= y
  <2> SUFFICES ASSUME NEW y \in S, y < u PROVE FALSE
    OBVIOUS
  <2>1. <<y, u>> \in Nat \X Nat /\ <<y, u>>[1] < <<y, u>>[2]
    OBVIOUS
  <2> QED
    BY <1>1, <2>1 DEF OpToRel
<1> QED
  BY <1>2 DEF Min

\* When no check is reported, every check holds.
LEMMA ChecksPassed ==
    ASSUME NEW X, \A x \in X : x[2] # "ok",
           NEW checks \in Seq(X), FirstFailure(checks) = "ok"
    PROVE  \A i \in DOMAIN checks : checks[i][1]
<1> DEFINE failing == {i \in DOMAIN checks : ~ checks[i][1]}
<1>1. failing \in SUBSET Nat
  OBVIOUS
<1>2. \A i \in DOMAIN checks : checks[i][2] # "ok"
  OBVIOUS
<1>3. ASSUME failing # {} PROVE FALSE
  <2>1. Min(failing) \in failing
    BY <1>1, <1>3, LeastIndex
  <2>2. checks[Min(failing)][2] = "ok"
    BY <1>3 DEF FirstFailure
  <2> HIDE DEF failing
  <2>3. Min(failing) \in DOMAIN checks
    BY <2>1 DEF failing
  <2> QED
    BY <1>2, <2>2, <2>3
<1> QED
  BY <1>3

\* An answer is given only when every check holds.
LEMMA AnsweredChecked ==
    ASSUME NEW X, \A x \in X : x[2] # "ok",
           NEW checks \in Seq(X), NEW result, Handled(checks, result).status = "ok"
    PROVE  /\ Handled(checks, result) = [status |-> "ok", result |-> result]
           /\ \A i \in DOMAIN checks : checks[i][1]
<1>1. FirstFailure(checks) = "ok"
  <2> SUFFICES ASSUME FirstFailure(checks) # "ok" PROVE FALSE
    OBVIOUS
  <2>1. Handled(checks, result) = Refused(FirstFailure(checks))
    BY DEF Handled
  <2>2. Refused(FirstFailure(checks)).status = "error"
    BY DEF Refused
  <2> QED
    BY <2>1, <2>2
<1>2. Handled(checks, result) = Answered(result)
  BY <1>1 DEF Handled
<1> QED
  BY <1>1, <1>2, ChecksPassed DEF Answered

\* The checks of machine_arithmetic.
ArithmeticChecks(r, right) ==
    common(r) \o decode_checks(r.left, r) \o decode_checks(r.right, r)
    \o << <<r.action \in {"divide", "remainder"} => right # 0, "E_DOMAIN">> >>

\* An answer of machine_arithmetic is about words of a known width, and divides by
\* something.
LEMMA ArithmeticChecked ==
    ASSUME NEW r, NEW right, NEW result,
           Handled(ArithmeticChecks(r, right), result).status = "ok"
    PROVE  /\ Handled(ArithmeticChecks(r, right), result) = [status |-> "ok", result |-> result]
           /\ r.width \in BitWidths
           /\ r.action \in {"divide", "remainder"} => right # 0
<1> DEFINE parsed(x) == <<x # NotANumber, "E_INPUT">>
           signless(x) == <<r.mode = "bits" => x >= 0, "E_INPUT">>
           fits(x) == <<x \in IF r.mode = "bits" THEN 0..(2^r.width - 1)
                              ELSE selected_range(r.width, r.sign), "E_LIMIT">>
           c1 == <<r.width \in BitWidths, "E_INPUT">>
           c2 == parsed(r.left)
           c3 == signless(r.left)
           c4 == fits(r.left)
           c5 == parsed(r.right)
           c6 == signless(r.right)
           c7 == fits(r.right)
           c8 == <<r.action \in {"divide", "remainder"} => right # 0, "E_DOMAIN">>
           X == {c1, c2, c3, c4, c5, c6, c7, c8}
           checks == ArithmeticChecks(r, right)
<1>1. checks = <<c1>> \o <<c2, c3, c4>> \o <<c5, c6, c7>> \o <<c8>>
  BY DEF ArithmeticChecks, common, decode_checks
<1>2. c1[2] # "ok" /\ c2[2] # "ok" /\ c3[2] # "ok" /\ c4[2] # "ok"
  OBVIOUS
<1>3. c5[2] # "ok" /\ c6[2] # "ok" /\ c7[2] # "ok" /\ c8[2] # "ok"
  OBVIOUS
<1>4. c1[1] => r.width \in BitWidths
  OBVIOUS
<1>5. c8[1] => (r.action \in {"divide", "remainder"} => right # 0)
  OBVIOUS
<1> HIDE DEF c1, c2, c3, c4, c5, c6, c7, c8, checks
<1>6. \A x \in X : x[2] # "ok"
  BY <1>2, <1>3
<1>7. checks \in Seq(X) /\ DOMAIN checks = 1..8 /\ checks[1] = c1 /\ checks[8] = c8
  BY <1>1
<1> HIDE DEF X
<1>8. Handled(checks, result).status = "ok"
  BY DEF checks
<1>9. /\ Handled(checks, result) = [status |-> "ok", result |-> result]
      /\ \A i \in DOMAIN checks : checks[i][1]
  BY <1>6, <1>7, <1>8, AnsweredChecked
<1>10. c1[1] /\ c8[1]
  BY <1>7, <1>9
<1> QED
  BY <1>4, <1>5, <1>9, <1>10 DEF checks

----------------------------------------------------------------------------
(* integer.machine_arithmetic.                                             *)

\* An element that bounds a set is its extremum.
LEMMA Extremes ==
    ASSUME NEW S \in SUBSET Int, NEW x \in S
    PROVE  /\ (\A y \in S : x <= y) => Min(S) = x
           /\ (\A y \in S : x >= y) => Max(S) = x
<1>1. ASSUME \A y \in S : x <= y PROVE Min(S) = x
  <2>1. Min(S) \in S /\ \A y \in S : Min(S) <= y
    BY <1>1 DEF Min
  <2>2. Min(S) \in Int /\ x \in Int /\ Min(S) <= x /\ x <= Min(S)
    BY <1>1, <2>1
  <2> QED
    BY <2>2
<1>2. ASSUME \A y \in S : x >= y PROVE Max(S) = x
  <2>1. Max(S) \in S /\ \A y \in S : Max(S) >= y
    BY <1>2 DEF Max
  <2>2. Max(S) \in Int /\ x \in Int /\ Max(S) <= x /\ x <= Max(S)
    BY <1>2, <2>1
  <2> QED
    BY <2>2
<1> QED
  BY <1>1, <1>2

\* What saturation selects is the nearest number of the range.
LEMMA Saturated ==
    ASSUME NEW low \in Int, NEW high \in Int, low <= high, NEW v \in Int
    PROVE  LET range == low..high
               s == Min({Max({v, Min(range)}), Max(range)})
           IN  /\ s \in range
               /\ v \in range => s = v
               /\ \A x \in range : Abs(s - v) <= Abs(x - v)
<1> DEFINE m == IF v < low THEN low ELSE v
           s == IF m > high THEN high ELSE m
<1>1. low..high \in SUBSET Int /\ low \in low..high /\ high \in low..high
  OBVIOUS
<1>2. Min(low..high) = low /\ Max(low..high) = high
  <2>1. (\A y \in low..high : low <= y) /\ (\A y \in low..high : high >= y)
    OBVIOUS
  <2> QED
    BY <1>1, <2>1, Extremes
<1>3. Max({v, low}) = m
  <2>1. {v, low} \in SUBSET Int /\ m \in {v, low} /\ \A y \in {v, low} : m >= y
    OBVIOUS
  <2> QED
    BY <2>1, Extremes
<1>4. Min({m, high}) = s
  <2>1. {m, high} \in SUBSET Int /\ s \in {m, high} /\ \A y \in {m, high} : s <= y
    OBVIOUS
  <2> QED
    BY <2>1, Extremes
<1>5. Min({Max({v, Min(low..high)}), Max(low..high)}) = s
  BY <1>2, <1>3, <1>4
<1>6. s \in low..high /\ (v \in low..high => s = v)
  OBVIOUS
<1>7. \A x \in low..high : Abs(s - v) <= Abs(x - v)
  BY DEF Abs
<1> HIDE DEF m, s
<1> QED
  BY <1>5, <1>6, <1>7

Actions == {"add", "subtract", "multiply", "divide", "remainder"}
Overflows == {"checked", "wrapping", "saturating"}

\* What an answer of machine_arithmetic promises.
LEMMA ArithmeticAnswer ==
    ASSUME BitWidths \subseteq Nat \ {0},
           NEW r, r.sign \in Signedness, r.left \in Int, r.right \in Int,
           r.action \in Actions, r.overflow \in Overflows, r.division \in DivisionModes,
           call' = [op |-> "machine_arithmetic", r |-> r, out |-> machine_arithmetic(r)],
           call'.out.status = "ok"
    PROVE  ArithmeticFaithful'
<1> DEFINE w == r.width
           M == 2^w
           left == selected_value(decode_literal(r.left, r), r.width, r.sign)
           right == selected_value(decode_literal(r.right, r), r.width, r.sign)
           value == Mathematical(r, left, right)
           range == selected_range(r.width, r.sign)
           selected == IF r.overflow = "saturating"
                       THEN Min({Max({value, Min(range)}), Max(range)}) ELSE value
           result == [mathematical |-> value, overflow |-> value \notin range,
                      outcome |-> IF value \notin range /\ r.overflow = "checked"
                                  THEN "overflow" ELSE "value",
                      word |-> representation(selected % 2^r.width, r)]
<1>1. machine_arithmetic(r) = Handled(ArithmeticChecks(r, right), result)
  BY DEF machine_arithmetic, ArithmeticChecks
<1>2. call'.out = machine_arithmetic(r) /\ call'.r = r
  OBVIOUS
<1> HIDE DEF result
<1>3. /\ call'.out.result = result
      /\ w \in BitWidths
      /\ r.action \in {"divide", "remainder"} => right # 0
  <2>1. Handled(ArithmeticChecks(r, right), result).status = "ok"
    BY <1>1, <1>2
  <2> HIDE DEF right
  <2>2. /\ Handled(ArithmeticChecks(r, right), result) = [status |-> "ok", result |-> result]
        /\ w \in BitWidths
        /\ r.action \in {"divide", "remainder"} => right # 0
    BY <2>1, ArithmeticChecked
  <2> QED
    BY <1>1, <1>2, <2>2
<1>4. w \in Nat \ {0}
  BY <1>3
<1>5. /\ M \in Nat \ {0}
      /\ \E low, high \in Int : low <= high /\ range = low..high
      /\ \A raw \in 0..(M - 1) : selected_value(raw, w, r.sign) \in range
      /\ \A v \in range : selected_value(v % M, w, r.sign) = v
  BY <1>4, Readings
<1>6. PICK low \in Int, high \in Int : low <= high /\ range = low..high
  BY <1>5
<1>7. /\ result.mathematical = value /\ result.overflow = (value \notin range)
      /\ result.word.unsigned = selected % M
      /\ result.word.decimal = selected_value(selected % M, w, r.sign)
  BY DEF result, representation
<1> HIDE DEF M, range
<1>8. left \in range /\ right \in range
  <2>1. r.left % M \in 0..(M - 1) /\ r.right % M \in 0..(M - 1)
    BY <1>5, Residue
  <2> QED
    BY <1>5, <2>1 DEF decode_literal, M
<1> HIDE DEF left, right
<1>9. left \in Int /\ right \in Int
  BY <1>6, <1>8
<1> DEFINE q == divide(left, right, r.division)
           rem == left - right * q
<1>10. ASSUME r.action \in {"divide", "remainder"}
       PROVE  /\ q \in Int
              /\ Abs(rem) < Abs(right)
              /\ (right * q) % Abs(right) = 0
              /\ r.division = "truncating" => Sign(rem) \in {0, Sign(left)}
              /\ r.division = "floor" => Sign(rem) \in {0, Sign(right)}
              /\ r.division = "euclidean" => rem >= 0
  <2>1. right \in Int \ {0}
    BY <1>3, <1>9, <1>10
  <2> QED
    BY <1>9, <2>1, DivisionModesHold
<1> HIDE DEF q
<1>11. /\ r.action = "add" => value = left + right
       /\ r.action = "subtract" => value = left - right
       /\ r.action = "multiply" => value = left * right
       /\ r.action = "divide" => value = q
       /\ r.action = "remainder" => value = rem
  BY DEF Mathematical, q
<1>12. value \in Int
  <2>1. left + right \in Int /\ left - right \in Int /\ left * right \in Int
    BY <1>9
  <2>2. ASSUME r.action \in {"divide", "remainder"} PROVE q \in Int /\ rem \in Int
    BY <1>9, <1>10, <2>2
  <2> HIDE DEF rem, value
  <2> QED
    BY <1>11, <2>1, <2>2 DEF Actions
<1> HIDE DEF value
<1>13. /\ selected \in Int
       /\ r.overflow # "saturating" => selected = value
       /\ r.overflow = "saturating" => selected \in range
       /\ value \in range => selected = value
       /\ r.overflow = "saturating" =>
             \A x \in range : Abs(selected - value) <= Abs(x - value)
  <2>1. CASE r.overflow = "saturating"
    <3>1. selected = Min({Max({value, Min(low..high)}), Max(low..high)})
      BY <1>6, <2>1
    <3> HIDE DEF selected
    <3>2. /\ selected \in low..high
          /\ value \in low..high => selected = value
          /\ \A x \in low..high : Abs(selected - value) <= Abs(x - value)
      BY <1>6, <1>12, <3>1, Saturated
    <3> QED
      BY <1>6, <2>1, <3>2
  <2>2. CASE r.overflow # "saturating"
    BY <1>12, <2>2
  <2> QED
    BY <2>1, <2>2
<1> HIDE DEF selected
<1>14. selected % M \in 0..(M - 1) /\ ((selected % M) - selected) % M = 0
  BY <1>5, <1>13, Residue
<1>15. result.word.decimal \in range
  BY <1>5, <1>7, <1>14
<1>16. selected \in range => result.word.decimal = selected
  BY <1>5, <1>7
<1>17. result.overflow <=> result.word.decimal # result.mathematical
  BY <1>7, <1>13, <1>15, <1>16
<1>18. r.overflow # "saturating" => (result.word.unsigned - result.mathematical) % 2^r.width = 0
  BY <1>7, <1>13, <1>14 DEF M
<1>19. r.overflow = "saturating" =>
          \A x \in selected_range(r.width, r.sign) :
             Abs(result.word.decimal - result.mathematical) <= Abs(x - result.mathematical)
  BY <1>7, <1>13, <1>16 DEF range
<1> DEFINE remainder == IF r.action = "divide" THEN left - right * result.mathematical
                        ELSE result.mathematical
<1>20. r.action \in {"divide", "remainder"} =>
         /\ Abs(remainder) < Abs(right) /\ (left - remainder) % Abs(right) = 0
         /\ r.division = "truncating" => Sign(remainder) \in {0, Sign(left)}
         /\ r.division = "floor" => Sign(remainder) \in {0, Sign(right)}
         /\ r.division = "euclidean" => remainder >= 0
  <2> SUFFICES ASSUME r.action \in {"divide", "remainder"}
               PROVE  /\ Abs(remainder) < Abs(right) /\ (left - remainder) % Abs(right) = 0
                      /\ r.division = "truncating" => Sign(remainder) \in {0, Sign(left)}
                      /\ r.division = "floor" => Sign(remainder) \in {0, Sign(right)}
                      /\ r.division = "euclidean" => remainder >= 0
    OBVIOUS
  <2>1. remainder = rem
    BY <1>7, <1>11
  <2>2. left - rem = right * q
    BY <1>9, <1>10
  <2> HIDE DEF rem, remainder
  <2> QED
    BY <1>10, <2>1, <2>2
<1> DEFINE Mode == CASE r.division = "truncating" -> Sign(remainder) \in {0, Sign(left)}
                     [] r.division = "floor" -> Sign(remainder) \in {0, Sign(right)}
                     [] r.division = "euclidean" -> remainder >= 0
<1>21. r.action \in {"divide", "remainder"} =>
         /\ Abs(remainder) < Abs(right) /\ (left - remainder) % Abs(right) = 0
         /\ Mode
  BY <1>20 DEF DivisionModes
<1> QED
  BY <1>2, <1>3, <1>17, <1>18, <1>19, <1>21 DEF ArithmeticFaithful, Accepted, left, right

\* Whatever word widths the handler supports and whatever numbers a request holds: an
\* answer of integer.machine_arithmetic flags overflow exactly when its word does not
\* read as the mathematical result, wraps to a congruent word, saturates to the nearest
\* one, and leaves remainders of the sign its division mode promises
\* (machine_arithmetic, divide and represent of operations/programmer.py).
THEOREM MachineArithmeticIsFaithful ==
    ASSUME BitWidths \subseteq Nat \ {0}, Literals \subseteq Int
    PROVE  Next => ArithmeticFaithful'
<1>1. ASSUME ArithmeticCall PROVE ArithmeticFaithful'
  <2>1. PICK f \in Formats, a \in {"add", "subtract", "multiply", "divide", "remainder"},
             x, y \in Literals, o \in {"checked", "wrapping", "saturating"},
             d \in DivisionModes :
          /\ a \in {"divide", "remainder"} \/ d = "truncating"
          /\ LET r == [width |-> f.width, sign |-> f.sign, mode |-> f.mode, action |-> a,
                          left |-> x, right |-> y, overflow |-> o, division |-> d]
             IN  call' = [op |-> "machine_arithmetic", r |-> r, out |-> machine_arithmetic(r)]
    BY <1>1, Zenon DEF ArithmeticCall
  <2> DEFINE r == [width |-> f.width, sign |-> f.sign, mode |-> f.mode, action |-> a,
                   left |-> x, right |-> y, overflow |-> o, division |-> d]
  <2>2. f.sign \in Signedness
    BY DEF Formats
  <2>3. /\ r.sign = f.sign
        /\ r.action = a /\ r.left = x /\ r.right = y
        /\ r.overflow = o /\ r.division = d
    OBVIOUS
  <2>4. /\ r.sign \in Signedness /\ r.left \in Int /\ r.right \in Int
        /\ r.action \in Actions /\ r.overflow \in Overflows /\ r.division \in DivisionModes
    BY <2>2, <2>3 DEF Actions, Overflows
  <2> HIDE DEF r
  <2>5. call' = [op |-> "machine_arithmetic", r |-> r, out |-> machine_arithmetic(r)]
    BY <2>1 DEF r
  <2>6. CASE call'.out.status = "ok"
    BY <2>4, <2>5, <2>6, ArithmeticAnswer
  <2>7. CASE call'.out.status # "ok"
    BY <2>7 DEF ArithmeticFaithful, Accepted
  <2> QED
    BY <2>6, <2>7
<1>2. ASSUME RepresentCall \/ BinaryCall \/ UnaryCall \/ ShiftCall \/ FieldCall \/ AlignCall
      PROVE  ArithmeticFaithful'
  <2>1. ASSUME NEW r, BitwiseCall(r) PROVE call'.op = "bitwise"
    BY <2>1 DEF BitwiseCall
  <2>2. ASSUME RepresentCall PROVE call'.op = "represent"
    BY <2>2 DEF RepresentCall
  <2>3. call'.op \in {"represent", "bitwise"}
    BY <1>2, <2>1, <2>2 DEF BinaryCall, UnaryCall, ShiftCall, FieldCall, AlignCall
  <2> QED
    BY <2>3 DEF ArithmeticFaithful, Accepted
<1> QED
  BY <1>1, <1>2 DEF Next

----------------------------------------------------------------------------
(* expression.equivalent and solution.verify.                              *)

\* What expression.equivalent calls proven is so.
LEMMA EquivalentAnswer ==
    ASSUME VE!Points \subseteq Nat, VE!EquivalentCall
    PROVE  VE!VerificationSound'
<1>0. PICK f, g \in VE!Expressions, d \in {"real", "complex"}, p \in {"strict", "common_domain"} :
        \E same \in {FALSE, f = g} :
        LET r == [left |-> f, right |-> g, domain |-> d, policy |-> p, identical |-> same]
        IN \E definedness \in VE!compare_definedness(r), zero \in VE!DifferenceIsZero(r) :
             call' = [op |-> "equivalent", r |-> r,
                      out |-> VE!Answered(VE!expression_equivalent(r, definedness, zero))]
  BY Zenon DEF VE!EquivalentCall
<1>1. PICK same \in {FALSE, f = g} :
        LET r == [left |-> f, right |-> g, domain |-> d, policy |-> p, identical |-> same]
        IN \E definedness \in VE!compare_definedness(r), zero \in VE!DifferenceIsZero(r) :
             call' = [op |-> "equivalent", r |-> r,
                      out |-> VE!Answered(VE!expression_equivalent(r, definedness, zero))]
  BY <1>0
<1> DEFINE r == [left |-> f, right |-> g, domain |-> d, policy |-> p, identical |-> same]
<1>2. PICK definedness \in VE!compare_definedness(r), zero \in VE!DifferenceIsZero(r) :
        call' = [op |-> "equivalent", r |-> r,
                 out |-> VE!Answered(VE!expression_equivalent(r, definedness, zero))]
  BY <1>1
<1>3. r.left = f /\ r.right = g /\ r.domain = d /\ r.policy = p /\ (r.identical <=> same)
  OBVIOUS
<1> HIDE DEF r
<1> DEFINE both == VE!Domain(r.left, r.domain) \cap VE!Domain(r.right, r.domain)
           equal == VE!Domain(r.left, r.domain) = VE!Domain(r.right, r.domain)
           res == VE!expression_equivalent(r, definedness, zero)
           witnesses == {x \in Probes : VE!Distinguishes(r, x)}
<1>4. r.identical => equal
  BY <1>1, <1>3
<1>5. /\ definedness = "same" => equal
      /\ definedness \in {"same", "different", "unknown"}
  BY <1>2, <1>4 DEF VE!compare_definedness
<1>6. zero => \A x \in both : r.left[x] = r.right[x]
  BY <1>2 DEF VE!DifferenceIsZero, VE!Domain
<1>7. /\ witnesses \subseteq both
      /\ \A x \in witnesses : r.left[x] # r.right[x]
  BY DEF VE!Distinguishes, VE!Domain, VE!Points
<1>8. witnesses # {} => VE!Min(witnesses) \in witnesses
  <2>1. witnesses \in SUBSET Nat
    BY DEF VE!Points
  <2>2. VE!Min(witnesses) = Min(witnesses)
    BY DEF VE!Min, Min
  <2> QED
    BY <2>1, <2>2, LeastIndex
<1>9. /\ res.equivalence = "equivalent" =>
            (\A x \in both : r.left[x] = r.right[x]) /\ (r.policy = "strict" => equal)
      /\ res.equivalence = "not_equivalent" =>
            \/ \E x \in both \cap res.counterexample : r.left[x] # r.right[x]
            \/ r.policy = "strict" /\ res.definedness = "different"
      /\ res.definedness = "same" => equal
  <2> HIDE DEF both, equal, witnesses
  <2>1. r.policy = "strict" \/ r.policy = "common_domain"
    BY <1>3
  <2> DEFINE differ == r.policy = "strict" /\ definedness = "different"
             certain == r.policy = "common_domain" \/ definedness = "same"
  <2>2. res = CASE differ -> VE!Equivalence("not_equivalent", definedness, {})
                [] ~differ /\ zero /\ certain ->
                     VE!Equivalence("equivalent", definedness, {})
                [] ~differ /\ ~zero /\ witnesses # {} ->
                     VE!Equivalence("not_equivalent", definedness, {VE!Min(witnesses)})
                [] OTHER -> VE!Equivalence("unknown", definedness, {})
    BY DEF VE!expression_equivalent, witnesses
  <2>3. ASSUME NEW verdict, NEW w
        PROVE  LET e == VE!Equivalence(verdict, definedness, w) IN
               /\ e.equivalence = verdict
               /\ e.definedness = definedness
               /\ e.counterexample = w
    BY DEF VE!Equivalence
  <2> HIDE DEF res
  <2>4. CASE differ
    BY <1>5, <2>2, <2>3, <2>4
  <2>5. CASE ~differ /\ zero /\ certain
    <3>1. res = VE!Equivalence("equivalent", definedness, {})
      BY <2>2, <2>5
    <3> QED
      BY <1>3, <1>5, <1>6, <2>1, <2>3, <2>5, <3>1
  <2>6. CASE ~differ /\ ~zero /\ witnesses # {}
    <3>1. res = VE!Equivalence("not_equivalent", definedness, {VE!Min(witnesses)})
      BY <2>2, <2>6
    <3> QED
      BY <1>5, <1>7, <1>8, <2>3, <2>6, <3>1
  <2>7. CASE ~differ /\ ~(zero /\ certain) /\ ~(~zero /\ witnesses # {})
    <3>1. res = VE!Equivalence("unknown", definedness, {})
      BY <2>2, <2>7
    <3> QED
      BY <1>5, <2>3, <3>1
  <2> QED
    BY <2>4, <2>5, <2>6, <2>7
<1>10. call'.op = "equivalent" /\ call'.r = r /\ call'.out.result = res
  BY <1>2 DEF VE!Answered
<1> QED
  BY <1>9, <1>10 DEF VE!VerificationSound

\* A constraint on numbers, as solution.verify gets it.
IsConstraint(c) ==
    /\ c.relation \in VE!Relations
    /\ c.form \in VE!Forms
    /\ \A x \in VE!Points : c.left[x] \in Int /\ c.right[x] \in Int

\* What counts as zero is near, exactly so for an exact value; what does not is
\* not zero.
LEMMA ZeroIsNear ==
    ASSUME NEW n \in Int, NEW tolerance \in Nat, NEW form \in VE!Forms
    PROVE  LET zero == VE!zero_with_tolerance(n, tolerance, form) IN
           /\ zero \in {"true", "false", VE!Undecided}
           /\ zero = "true" => VE!Near(n, form, tolerance)
           /\ zero = "false" => n # 0
<1>1. VE!Abs(0) = 0 /\ VE!Abs(n) \in Int
  BY DEF VE!Abs
<1> QED
  BY <1>1 DEF VE!zero_with_tolerance, VE!Forms, VE!Undecided, VE!Near

\* One constraint at one candidate.
LEMMA ConstraintVerdict ==
    ASSUME NEW c, IsConstraint(c), NEW x \in VE!Points, NEW tolerance \in Nat
    PROVE  /\ VE!verify_constraint(c, x, tolerance) = "true" => VE!Met(x, c, tolerance)
           /\ VE!verify_constraint(c, x, tolerance) = "false" => VE!Failed(x, c, tolerance)
<1> DEFINE l == c.left[x]
           r == c.right[x]
           zero == VE!zero_with_tolerance(l - r, tolerance, c.form)
           less == IF c.form = "undecided" THEN VE!Undecided
                   ELSE IF l < r THEN "true" ELSE "false"
           verdict == VE!verify_constraint(c, x, tolerance)
<1>1. l \in Int /\ r \in Int /\ c.relation \in {"=", "!=", "<"} /\ c.form \in VE!Forms
  BY DEF IsConstraint, VE!Relations
<1>2. /\ verdict = IF l = VE!Undefined \/ r = VE!Undefined THEN "false"
                   ELSE CASE c.relation = "=" -> zero
                          [] c.relation = "!=" -> VE!Opposite(zero)
                          [] c.relation = "<" -> less
      /\ VE!HasValues(x, c) <=> ~(l = VE!Undefined \/ r = VE!Undefined)
  BY DEF VE!verify_constraint, VE!HasValues
<1>3. l - r \in Int /\ VE!Residual(x, c) = l - r
  BY <1>1 DEF VE!Residual
<1>4. /\ zero \in {"true", "false", VE!Undecided}
      /\ zero = "true" => VE!Near(l - r, c.form, tolerance)
      /\ zero = "false" => l - r # 0
  BY <1>1, <1>3, ZeroIsNear
<1>5. /\ less = "true" => l - r < 0
      /\ less = "false" => l - r >= 0
  BY <1>1 DEF VE!Undecided
<1>6. /\ VE!Opposite(zero) = "true" => zero = "false"
      /\ VE!Opposite(zero) = "false" => zero = "true"
  BY <1>4 DEF VE!Opposite, VE!Undecided
<1> HIDE DEF l, r, zero, less, verdict
<1>7. CASE ~VE!HasValues(x, c)
  BY <1>2, <1>7 DEF verdict, VE!Failed
<1>8. CASE VE!HasValues(x, c) /\ c.relation = "="
  BY <1>2, <1>3, <1>4, <1>8 DEF verdict, VE!Met, VE!Failed
<1>9. CASE VE!HasValues(x, c) /\ c.relation = "!="
  BY <1>2, <1>3, <1>4, <1>6, <1>9 DEF verdict, VE!Met, VE!Failed
<1>10. CASE VE!HasValues(x, c) /\ c.relation = "<"
  BY <1>2, <1>3, <1>5, <1>10 DEF verdict, VE!Met, VE!Failed
<1> QED
  BY <1>1, <1>7, <1>8, <1>9, <1>10

\* What solution.verify answers, for any constraints on numbers and any candidates.
LEMMA VerifyAnswer ==
    ASSUME NEW r, r.tolerance \in Nat, r.form \in {"exact", "numeric"},
           VE!Points \subseteq Nat,
           \A k \in DOMAIN r.constraints : IsConstraint(r.constraints[k]),
           \A i \in DOMAIN r.candidates : r.candidates[i] \in VE!Points,
           call' = [op |-> "verify", r |-> r, out |-> VE!solution_verify(r)]
    PROVE  VE!VerificationSound'
<1> DEFINE verdict(i, k) == VE!verify_constraint(r.constraints[k], r.candidates[i], r.tolerance)
           verdicts(i) == {verdict(i, k) : k \in DOMAIN r.constraints}
           valid == [i \in DOMAIN r.candidates |-> VE!Conjunction(verdicts(i))]
           coverage == VE!assess_completeness(r)
           all == VE!Conjunction({valid[i] : i \in DOMAIN valid})
           result == [valid |-> valid, allValid |-> all, coverage |-> coverage]
<1>1. /\ call'.op = "verify" /\ call'.r = r
      /\ call'.out.status = "ok" => call'.out.result = result
  <2>1. PICK checks : VE!solution_verify(r) = VE!Handled(checks, result)
    BY DEF VE!solution_verify
  <2>2. VE!Handled(checks, result).status = "ok" => VE!Handled(checks, result).result = result
    BY DEF VE!Handled, VE!Answered, VE!Refused
  <2> QED
    BY <2>1, <2>2
<1>2. ASSUME NEW states
      PROVE  /\ VE!Conjunction(states) = "true" => \A s \in states : s = "true"
             /\ VE!Conjunction(states) = "false" => "false" \in states
  BY DEF VE!Conjunction, VE!Undecided
<1>3. all = "true" =>
        \A i \in DOMAIN r.candidates, k \in DOMAIN r.constraints : verdict(i, k) = "true"
  <2> SUFFICES ASSUME all = "true", NEW i \in DOMAIN r.candidates, NEW k \in DOMAIN r.constraints
               PROVE  verdict(i, k) = "true"
    OBVIOUS
  <2>1. valid[i] = "true"
    <3>1. VE!Conjunction({valid[j] : j \in DOMAIN valid}) = "true"
      OBVIOUS
    <3>2. i \in DOMAIN valid
      OBVIOUS
    <3> HIDE DEF valid
    <3>3. \A s \in {valid[j] : j \in DOMAIN valid} : s = "true"
      BY <1>2, <3>1
    <3> QED
      BY <3>2, <3>3
  <2>2. VE!Conjunction(verdicts(i)) = "true"
    BY <2>1
  <2> HIDE DEF verdict
  <2>3. \A s \in verdicts(i) : s = "true"
    BY <1>2, <2>2
  <2> QED
    BY <2>3
<1>4. all = "false" =>
        \E i \in DOMAIN r.candidates, k \in DOMAIN r.constraints : verdict(i, k) = "false"
  <2> SUFFICES ASSUME all = "false"
               PROVE  \E i \in DOMAIN r.candidates, k \in DOMAIN r.constraints : verdict(i, k) = "false"
    OBVIOUS
  <2>1. PICK i \in DOMAIN r.candidates : VE!Conjunction(verdicts(i)) = "false"
    <3>1. "false" \in {valid[i] : i \in DOMAIN valid}
      BY <1>2
    <3> QED
      BY <3>1
  <2> HIDE DEF verdict
  <2>2. "false" \in verdicts(i)
    BY <1>2, <2>1
  <2> QED
    BY <2>2
<1>5. \A i \in DOMAIN r.candidates, k \in DOMAIN r.constraints :
        /\ verdict(i, k) = "true" => VE!Met(r.candidates[i], r.constraints[k], r.tolerance)
        /\ verdict(i, k) = "false" => VE!Failed(r.candidates[i], r.constraints[k], r.tolerance)
  BY ConstraintVerdict
<1>6. /\ coverage.completeness = "complete" =>
            \A s \in VE!SolutionSet(r.constraints[1]) :
               \E i \in DOMAIN r.candidates : VE!Abs(r.candidates[i] - s) <= r.tolerance
      /\ \A s \in coverage.omitted, i \in DOMAIN r.candidates : r.candidates[i] # s
  <2> DEFINE covered(s) ==
               \E i \in DOMAIN r.candidates :
                  VE!zero_with_tolerance(r.candidates[i] - s, r.tolerance, r.form) = "true"
             omitted == {s \in VE!SolutionSet(r.constraints[1]) : ~covered(s)}
  <2>1. ASSUME NEW s \in VE!Points, NEW i \in DOMAIN r.candidates
        PROVE  LET zero == VE!zero_with_tolerance(r.candidates[i] - s, r.tolerance, r.form) IN
               /\ zero = "true" => VE!Abs(r.candidates[i] - s) <= r.tolerance
               /\ r.candidates[i] = s => zero = "true"
    <3>0. r.candidates[i] \in VE!Points /\ s \in VE!Points
      OBVIOUS
    <3>1. r.candidates[i] - s \in Int
      <4> HIDE DEF VE!Points
      <4>1. r.candidates[i] \in Nat /\ s \in Nat
        BY <3>0
      <4> QED
        BY <4>1
    <3>2. r.candidates[i] = s => r.candidates[i] - s = 0
      OBVIOUS
    <3>3. VE!zero_with_tolerance(r.candidates[i] - s, r.tolerance, r.form) = "true" =>
             VE!Near(r.candidates[i] - s, r.form, r.tolerance)
      BY <3>1, ZeroIsNear DEF VE!Forms
    <3>4. VE!zero_with_tolerance(0, r.tolerance, r.form) = "true"
      <4>1. VE!Abs(0) = 0
        BY DEF VE!Abs
      <4> QED
        BY <4>1 DEF VE!zero_with_tolerance
    <3> QED
      BY <3>2, <3>3, <3>4 DEF VE!Near
  <2>2. VE!SolutionSet(r.constraints[1]) \subseteq VE!Points
    BY DEF VE!SolutionSet
  <2>3. \/ coverage.completeness \in {"not_checked", "unknown"} /\ coverage.omitted = {}
        \/ /\ coverage.omitted = omitted
           /\ coverage.completeness = "complete" => omitted = {}
    BY DEF VE!assess_completeness
  <2> HIDE DEF coverage
  <2> QED
    BY <2>1, <2>2, <2>3
<1> HIDE DEF verdict, all, coverage
<1>7. /\ all = "true" =>
            \A i \in DOMAIN r.candidates, k \in DOMAIN r.constraints :
               VE!Met(r.candidates[i], r.constraints[k], r.tolerance)
      /\ all = "false" =>
            \E i \in DOMAIN r.candidates, k \in DOMAIN r.constraints :
               VE!Failed(r.candidates[i], r.constraints[k], r.tolerance)
  BY <1>3, <1>4, <1>5
<1>8. result.allValid = all /\ result.coverage = coverage
  OBVIOUS
<1> HIDE DEF result
<1> QED
  BY <1>1, <1>6, <1>7, <1>8
     DEF VE!VerificationSound

\* Whatever SymPy decides or leaves undecided, and though equal domains may be told
\* apart: what expression.equivalent calls equivalent agrees at every point, what it
\* calls not equivalent differs at its counterexample or rests on the comparison of the
\* domains; solution.verify calls valid only candidates that meet every constraint,
\* exactly where the residual is exact, invalid only ones that fail some, and complete
\* only candidates near every solution
\* (expression_equivalent, verify_constraint and assess_completeness of
\* operations/verification.py).
THEOREM VerificationIsSound ==
    ASSUME VE!Points \subseteq Nat, Candidates \subseteq VE!Points
    PROVE  VE!Next => VE!VerificationSound'
<1>1. ASSUME VE!VerifyCall PROVE VE!VerificationSound'
  <2>1. PICK n \in 0..2, m \in 0..3, t \in 0..1, d \in {"real", "complex"}, q, u \in BOOLEAN,
             form \in {"exact", "numeric"} :
          \E cs \in [1..n -> VE!Constraints], xs \in [1..m -> Candidates] :
            LET r == [constraints |-> cs, candidates |-> xs, tolerance |-> t, domain |-> d,
                      requested |-> q, unsolved |-> u, form |-> form]
            IN  /\ m # 2 \/ n = 1
                /\ n = 1 \/ form = "exact"
                /\ m # 3 \/ n = 0
                /\ call' = [op |-> "verify", r |-> r, out |-> VE!solution_verify(r)]
    BY <1>1, Zenon DEF VE!VerifyCall
  <2>2. PICK cs \in [1..n -> VE!Constraints], xs \in [1..m -> Candidates] :
          LET r == [constraints |-> cs, candidates |-> xs, tolerance |-> t, domain |-> d,
                    requested |-> q, unsolved |-> u, form |-> form]
          IN  call' = [op |-> "verify", r |-> r, out |-> VE!solution_verify(r)]
    BY <2>1
  <2> DEFINE r == [constraints |-> cs, candidates |-> xs, tolerance |-> t, domain |-> d,
                   requested |-> q, unsolved |-> u, form |-> form]
  <2>3. /\ r.constraints = cs /\ r.candidates = xs /\ r.tolerance \in Nat
        /\ r.form \in {"exact", "numeric"}
    OBVIOUS
  <2>4. \A c \in VE!Constraints : IsConstraint(c)
    <3>1. SUFFICES ASSUME NEW c \in VE!Constraints PROVE IsConstraint(c)
      OBVIOUS
    <3>2. PICK hole \in {0, 1}, rel \in VE!Relations, v \in {1, 4}, w \in VE!Forms :
            c = VE!Square(hole, rel, v, w)
      BY SMTT(60) DEF VE!Constraints
    <3>3. c.relation \in VE!Relations /\ c.form \in VE!Forms
      BY <3>2 DEF VE!Square
    <3>4. ASSUME NEW x \in VE!Points PROVE c.left[x] \in Int /\ c.right[x] \in Int
      <4>1. c.left[x] = (IF x = hole THEN VE!Undefined ELSE x * x) /\ c.right[x] = v
        BY <3>2 DEF VE!Square
      <4>2. x * x \in Int /\ v \in Int
        OBVIOUS
      <4> QED
        BY <4>1, <4>2 DEF VE!Undefined, VE!NotANumber
    <3> QED
      BY <3>3, <3>4 DEF IsConstraint
  <2>5. \A k \in DOMAIN cs : IsConstraint(cs[k])
    BY <2>4
  <2>6. \A i \in DOMAIN xs : xs[i] \in VE!Points
    OBVIOUS
  <2> HIDE DEF r
  <2>7. call' = [op |-> "verify", r |-> r, out |-> VE!solution_verify(r)]
    BY <2>2 DEF r
  <2> QED
    BY <2>3, <2>5, <2>6, <2>7, VerifyAnswer
<1> QED
  BY <1>1, EquivalentAnswer DEF VE!Next

----------------------------------------------------------------------------
(* The catalog.                                                            *)

\* The catalog counts as everyone does.
LEMMA SameCount ==
    ASSUME NEW S
    PROVE  CA!Cardinality(S) = Cardinality(S)
  BY DEF CA!Cardinality, Cardinality

\* A finite set with one element is the singleton of any of its elements.
LEMMA OnlyElement ==
    ASSUME NEW S, IsFiniteSet(S), Cardinality(S) = 1, NEW x \in S
    PROVE  S = {x}
<1>1. \E y : S = {y}
  BY FS_Singleton
<1> QED
  BY <1>1

\* The variants of a schema are finitely many.
LEMMA SchemasFinite ==
    ASSUME NEW schema \in CA!Schemas
    PROVE  schema \subseteq CA!Variants /\ IsFiniteSet(schema)
<1> DEFINE A == {{"a"}, {"a", "b"}, {}}
           P == {{1}, {1, 2}}
           make == [x \in (CA!Kinds \X A) \X P |->
                      [kind |-> x[1][1], actions |-> x[1][2], payloads |-> x[2]]]
<1>1. schema \subseteq CA!Variants
  BY DEF CA!Schemas, CA!kSubset
<1>2. IsFiniteSet(CA!Kinds) /\ IsFiniteSet(A) /\ IsFiniteSet(P)
  <2>1. IsFiniteSet({"k1"}) /\ IsFiniteSet({{"a"}}) /\ IsFiniteSet({{1}})
    BY FS_Singleton
  <2>2. IsFiniteSet({"k1"} \cup {"k2"}) /\ IsFiniteSet({{"a"}} \cup {{"a", "b"}})
        /\ IsFiniteSet({{1}} \cup {{1, 2}})
    BY <2>1, FS_AddElement
  <2>3. IsFiniteSet(({{"a"}} \cup {{"a", "b"}}) \cup {{}})
    BY <2>2, FS_AddElement
  <2>4. /\ {"k1"} \cup {"k2"} = CA!Kinds
        /\ ({{"a"}} \cup {{"a", "b"}}) \cup {{}} = A
        /\ {{1}} \cup {{1, 2}} = P
    BY DEF CA!Kinds
  <2> QED
    BY <2>2, <2>3, <2>4
<1> HIDE DEF A, P
<1>3. IsFiniteSet((CA!Kinds \X A) \X P)
  BY <1>2, FS_Product
<1>4. make \in Surjection((CA!Kinds \X A) \X P, CA!Variants)
  <2>1. CA!Variants = [kind : CA!Kinds, actions : A, payloads : P]
    BY DEF CA!Variants, A, P
  <2>2. make \in [(CA!Kinds \X A) \X P -> CA!Variants]
    BY <2>1
  <2>3. ASSUME NEW v \in CA!Variants
        PROVE  \E x \in (CA!Kinds \X A) \X P : make[x] = v
    <3>1. <<<<v.kind, v.actions>>, v.payloads>> \in (CA!Kinds \X A) \X P
      BY <2>1, <2>3
    <3>2. v = [kind |-> v.kind, actions |-> v.actions, payloads |-> v.payloads]
      BY <2>1, <2>3
    <3>3. make[<<<<v.kind, v.actions>>, v.payloads>>] = v
      BY <3>1, <3>2
    <3> QED
      BY <3>1, <3>3
  <2> QED
    BY <2>2, <2>3 DEF Surjection
<1>5. IsFiniteSet(CA!Variants)
  BY <1>3, <1>4, FS_Surjection
<1>6. IsFiniteSet(schema)
  BY <1>1, <1>5, FS_Subset
<1> QED
  BY <1>1, <1>6

\* The shortcut to one variant of a schema accepts only what the union accepts.
LEMMA ShortcutSound ==
    ASSUME NEW schema \in CA!Schemas, NEW r \in CA!Results, CA!result_validator(schema, r)
    PROVE  CA!UnionAccepts(schema, r)
<1> DEFINE candidates == {v \in schema : v.kind = r.kind}
           matching == {v \in candidates : r.action \in v.actions}
           accepting == {v \in schema : CA!Accepts(v, r)}
<1>1. schema \subseteq CA!Variants /\ IsFiniteSet(schema)
  BY SchemasFinite
<1>2. \A v, w \in schema : v # w /\ v.kind = w.kind => v.actions # {}
  BY DEF CA!Schemas
<1>3. IsFiniteSet(candidates) /\ IsFiniteSet(matching)
  <2>1. candidates \in SUBSET schema /\ matching \in SUBSET schema
    OBVIOUS
  <2> QED
    BY <1>1, <2>1, FS_Subset
<1>4. CA!UnionAccepts(schema, r) <=>
        Cardinality(accepting) + (IF CA!ErrorAccepts(r) THEN 1 ELSE 0) = 1
  BY SameCount DEF CA!UnionAccepts
<1>5. \/ r.status = "error" /\ CA!ErrorAccepts(r)
      \/ r.status # "error" /\ Cardinality(candidates) = 1 /\ \E v \in candidates : CA!Accepts(v, r)
      \/ r.status # "error" /\ Cardinality(matching) = 1 /\ \E v \in matching : CA!Accepts(v, r)
      \/ CA!UnionAccepts(schema, r)
  <2>1. CA!Cardinality(candidates) = Cardinality(candidates)
        /\ CA!Cardinality(matching) = Cardinality(matching)
    BY SameCount
  <2> QED
    BY <2>1, Zenon DEF CA!result_validator
<1>6. CASE r.status = "error" /\ CA!ErrorAccepts(r)
  <2>1. accepting = {}
    BY <1>6 DEF CA!Accepts
  <2>2. Cardinality(accepting) = 0
    BY <2>1, FS_EmptySet
  <2> QED
    BY <1>4, <1>6, <2>2
<1>7. ASSUME r.status # "error", NEW v \in schema, accepting = {v} PROVE CA!UnionAccepts(schema, r)
  <2>1. Cardinality(accepting) = 1
    BY <1>7, FS_Singleton
  <2>2. ~ CA!ErrorAccepts(r)
    BY <1>7 DEF CA!ErrorAccepts
  <2> QED
    BY <1>4, <2>1, <2>2
<1>8. CASE r.status # "error" /\ Cardinality(candidates) = 1 /\ \E v \in candidates : CA!Accepts(v, r)
  <2>1. PICK v \in candidates : CA!Accepts(v, r)
    BY <1>8
  <2>2. candidates = {v}
    BY <1>3, <1>8, OnlyElement
  <2>3. accepting = {v}
    BY <2>1, <2>2 DEF CA!Accepts
  <2> QED
    BY <1>7, <1>8, <2>3
<1>9. CASE r.status # "error" /\ Cardinality(matching) = 1 /\ \E v \in matching : CA!Accepts(v, r)
  <2>1. PICK v \in matching : CA!Accepts(v, r)
    BY <1>9
  <2>2. matching = {v}
    BY <1>3, <1>9, OnlyElement
  <2>3. \A w \in accepting : w = v
    <3> SUFFICES ASSUME NEW w \in accepting, w # v PROVE FALSE
      OBVIOUS
    <3>1. w.kind = r.kind /\ v.kind = r.kind
      BY DEF CA!Accepts
    <3>2. w.actions # {}
      BY <1>2, <3>1
    <3>3. r.action \in w.actions
      BY <3>2 DEF CA!Accepts
    <3> QED
      BY <2>2, <3>1, <3>3
  <2>4. accepting = {v}
    BY <2>1, <2>3
  <2> QED
    BY <1>7, <1>9, <2>4
<1> QED
  BY <1>5, <1>6, <1>8, <1>9

\* Handlers of the catalog are the handlers of the other operations.
LEMMA SameHandler ==
    ASSUME NEW checks, NEW result
    PROVE  CA!Handled(checks, result) = Handled(checks, result)
<1>1. CA!FirstFailure(checks) = FirstFailure(checks)
  BY DEF CA!FirstFailure, FirstFailure, CA!Min, Min
<1>2. \A code : CA!DefaultPhase(code) = DefaultPhase(code)
  BY Zenon DEF CA!DefaultPhase, DefaultPhase, CA!InputCodes, InputCodes
<1>3. \A code : CA!DefaultAction(code) = DefaultAction(code)
  BY Zenon DEF CA!DefaultAction, DefaultAction, CA!InputCodes, InputCodes,
               CA!RetryableCodes, RetryableCodes
<1>4. \A code : CA!Refused(code) = Refused(code)
  BY <1>2, <1>3 DEF CA!Refused, Refused, CA!RetryableCodes, RetryableCodes
<1>5. CA!Answered(result) = Answered(result)
  BY DEF CA!Answered, Answered
<1> QED
  BY <1>1, <1>4, <1>5 DEF CA!Handled, Handled

\* An operation that is found without the literal phrase has every word of the query.
LEMMA FoundHasWords ==
    ASSUME IsFiniteSet(Latin), IsFiniteSet(Cjk),
           NEW q \in CA!Queries, NEW s \in CA!Specs, ~ q.phrase, CA!eligible(q, s)
    PROVE  q.tokens \cap Latin \subseteq s.haystack
<1>1. /\ q.tokens \subseteq Latin \cup Cjk
      /\ s.alias \subseteq s.haystack /\ s.alias \subseteq Latin \cup Cjk
  BY DEF CA!Queries, CA!Specs, CA!Tokens
<1>2. IsFiniteSet(Latin \cup Cjk)
  BY FS_Union
<1>3. IsFiniteSet(q.tokens) /\ IsFiniteSet(s.alias)
  BY <1>1, <1>2, FS_Subset
<1>4. Cardinality(q.tokens) \in Nat /\ Cardinality(s.alias) \in Nat
  BY <1>3, FS_CardinalityType
<1>5. CA!Cardinality(q.tokens) = Cardinality(q.tokens)
      /\ CA!Cardinality(s.alias) = Cardinality(s.alias)
  BY SameCount
<1>6. CASE ~ (Cardinality(q.tokens) <= 1)
  <2>1. CA!cjk_alias_covers_query(q, s) \/ q.tokens \subseteq s.haystack
    BY <1>5, <1>6 DEF CA!eligible
  <2>2. CA!cjk_alias_covers_query(q, s) => q.tokens \cap Latin \subseteq s.haystack
    BY DEF CA!cjk_alias_covers_query
  <2> QED
    BY <2>1, <2>2
<1>7. CASE Cardinality(q.tokens) <= 1
  <2>1. CA!strong_alias(q, s) \/ q.tokens \cap s.haystack # {}
    BY <1>5, <1>7 DEF CA!eligible
  <2>2. \A x, y \in q.tokens : x = y
    <3>1. CASE Cardinality(q.tokens) = 0
      <4>1. q.tokens = {}
        BY <1>3, <3>1, FS_EmptySet
      <4> QED
        BY <4>1
    <3>2. CASE Cardinality(q.tokens) = 1
      <4>1. \E x : q.tokens = {x}
        BY <1>3, <3>2, FS_Singleton
      <4> QED
        BY <4>1
    <3> QED
      BY <1>4, <1>7, <3>1, <3>2
  <2>3. ASSUME CA!strong_alias(q, s) PROVE \E x \in s.alias : x \in q.tokens
    <3>1. s.alias \subseteq q.tokens
      BY <2>3 DEF CA!strong_alias
    <3>2. s.alias # {} \/ Cardinality(s.alias) > 1
      BY <1>5, <2>3 DEF CA!strong_alias, CA!isCjkTerm
    <3>3. s.alias # {}
      <4>1. CASE s.alias = {}
        <5>1. Cardinality(s.alias) = 0
          BY <4>1, FS_EmptySet
        <5> QED
          BY <3>2, <4>1, <5>1
      <4> QED
        BY <4>1
    <3> QED
      BY <3>1, <3>3
  <2>4. \E x \in q.tokens : x \in s.haystack
    BY <1>1, <2>1, <2>3
  <2> QED
    BY <2>2, <2>4
<1> QED
  BY <1>6, <1>7

\* Only operations that are eligible have a place in the answer to a text.
LEMMA PlacedEligible ==
    ASSUME NEW q \in CA!Queries, NEW s, q.route # "empty",
           CA!search_operations(q, s).status = "ok", CA!search_operations(q, s).result > 0
    PROVE  CA!eligible(q, s)
<1> DEFINE place == IF q.category # "any" /\ q.category # s.category THEN 0
                    ELSE CASE q.route = "native" -> 0
                           [] q.route = "empty" -> 1
                           [] q.route = "text" /\ q.tokens = {} -> 0
                           [] OTHER -> IF CA!eligible(q, s) THEN CA!Score(q, s) ELSE 0
<1>1. PICK checks : CA!search_operations(q, s) = CA!Handled(checks, place)
  BY DEF CA!search_operations
<1>2. CA!search_operations(q, s).result = place
  <2>1. CA!Handled(checks, place).status = "ok" => CA!Handled(checks, place).result = place
    BY DEF CA!Handled, CA!Answered, CA!Refused
  <2> QED
    BY <1>1, <2>1
<1>3. ASSUME ~ CA!eligible(q, s) PROVE place = 0
  <2>1. q.route \in {"text", "native"}
    BY DEF CA!Queries
  <2>2. CASE q.route = "native"
    BY <2>2
  <2>3. CASE q.route = "text" /\ q.tokens = {}
    BY <2>3
  <2>4. CASE q.route = "text" /\ q.tokens # {}
    BY <1>3, <2>4
  <2> QED
    BY <2>1, <2>2, <2>3, <2>4
<1> QED
  BY <1>2, <1>3

\* No label above the registered one leaves the assurance envelope.
LEMMA LabelEarned ==
    ASSUME NEW a \in CA!Annotations, a.status # "error",
           CA!apply_research_contract(a).status = "ok"
    PROVE  LET label == CA!apply_research_contract(a).result
           IN  /\ label \in {a.registered, "heuristic"}
               /\ label = "certified" => a.certificate
<1> DEFINE label == CA!result_assurance(a)
           c1 == <<a.backends \in {"absent", "registered"}, "E_RUNTIME">>
           c2 == <<label = "certified" => a.certificate, "E_RUNTIME">>
           c3 == <<label = "kernel_checked" => a.checkedBy, "E_RUNTIME">>
           X == {c1, c2, c3}
<1>1. a.status \in {"ok", "uncertain"}
  BY DEF CA!Annotations
<1>2. CA!apply_research_contract(a) = CA!Handled(<<c1, c2, c3>>, label)
  BY <1>1 DEF CA!apply_research_contract
<1>3. CA!apply_research_contract(a) = Handled(<<c1, c2, c3>>, label)
  BY <1>2, SameHandler
<1>4. c1[2] # "ok" /\ c2[2] # "ok" /\ c3[2] # "ok"
  OBVIOUS
<1>5. c2[1] => (label = "certified" => a.certificate)
  OBVIOUS
<1> HIDE DEF c1, c2, c3
<1>6. \A x \in X : x[2] # "ok"
  BY <1>4
<1>7. <<c1, c2, c3>> \in Seq(X)
  OBVIOUS
<1>8. Handled(<<c1, c2, c3>>, label).status = "ok"
  BY <1>3
<1> HIDE DEF X, label
<1>9. /\ Handled(<<c1, c2, c3>>, label) = [status |-> "ok", result |-> label]
      /\ \A i \in DOMAIN <<c1, c2, c3>> : <<c1, c2, c3>>[i][1]
  BY <1>6, <1>7, <1>8, AnsweredChecked
<1>10. c2[1]
  <2>1. 2 \in DOMAIN <<c1, c2, c3>> /\ <<c1, c2, c3>>[2] = c2
    OBVIOUS
  <2> QED
    BY <1>9, <2>1
<1>11. label \in {a.registered, "heuristic"}
  BY DEF label, CA!result_assurance
<1>12. CA!apply_research_contract(a).result = label
  BY <1>3, <1>9
<1> QED
  BY <1>5, <1>10, <1>11, <1>12

\* For any vocabulary: an operation found without the literal phrase has every word of
\* the query, the shortcut to one variant of a result schema accepts only what the whole
\* union accepts, and no assurance label leaves the envelope that is neither the
\* registered one nor weaker (search_operations of catalog_search.py,
\* _result_validator of contracts.py, apply_research_contract of research_contract.py).
THEOREM CatalogNeverOverstates ==
    ASSUME IsFiniteSet(Latin), IsFiniteSet(Cjk)
    PROVE  CA!Next => CA!NoNearMatch' /\ CA!SelectionNeverWeakens'
<1>1. ASSUME CA!SearchCall PROVE CA!NoNearMatch' /\ CA!SelectionNeverWeakens'
  <2>1. PICK q \in CA!Queries, s \in CA!Specs :
          call' = [op |-> "search", q |-> q, s |-> s, out |-> CA!search_operations(q, s)]
    BY <1>1 DEF CA!SearchCall
  <2>2. /\ call'.op = "search" /\ call'.q = q /\ call'.s = s
        /\ call'.out = CA!search_operations(q, s)
    BY <2>1
  <2>3. /\ q.route # "empty" /\ CA!search_operations(q, s).status = "ok"
        /\ CA!search_operations(q, s).result > 0 /\ ~ q.phrase
        => q.tokens \cap Latin \subseteq s.haystack
    BY PlacedEligible, FoundHasWords
  <2> QED
    BY <2>2, <2>3 DEF CA!NoNearMatch, CA!SelectionNeverWeakens
<1>2. ASSUME CA!DescribeCall PROVE CA!NoNearMatch' /\ CA!SelectionNeverWeakens'
  <2>1. call'.op = "describe"
    BY <1>2 DEF CA!DescribeCall
  <2> QED
    BY <2>1 DEF CA!NoNearMatch, CA!SelectionNeverWeakens
<1>3. ASSUME CA!ValidateCall PROVE CA!NoNearMatch' /\ CA!SelectionNeverWeakens'
  <2>1. PICK schema \in CA!Schemas, r \in CA!Results :
          call' = [op |-> "validate", schema |-> schema, r |-> r,
                   out |-> <<CA!result_validator(schema, r),
                             CA!select_discriminated_schema(schema, r)>>]
    BY <1>3 DEF CA!ValidateCall
  <2>2. /\ call'.op = "validate" /\ call'.schema = schema /\ call'.r = r
        /\ call'.out[1] = CA!result_validator(schema, r)
    BY <2>1
  <2>3. CA!result_validator(schema, r) => CA!UnionAccepts(schema, r)
    BY ShortcutSound
  <2> QED
    BY <2>2, <2>3 DEF CA!NoNearMatch, CA!SelectionNeverWeakens
<1>4. ASSUME CA!AnnotateCall PROVE CA!NoNearMatch' /\ CA!SelectionNeverWeakens'
  <2>1. PICK a \in CA!Annotations :
          call' = [op |-> "annotate", a |-> a, out |-> CA!apply_research_contract(a)]
    BY <1>4 DEF CA!AnnotateCall
  <2>2. call'.op = "annotate" /\ call'.a = a /\ call'.out = CA!apply_research_contract(a)
    BY <2>1
  <2>3. a.status # "error" /\ CA!apply_research_contract(a).status = "ok" =>
          /\ CA!apply_research_contract(a).result \in {a.registered, "heuristic"}
          /\ CA!apply_research_contract(a).result = "certified" => a.certificate
    BY LabelEarned
  <2> QED
    BY <2>2, <2>3 DEF CA!NoNearMatch, CA!SelectionNeverWeakens
<1> QED
  BY <1>1, <1>2, <1>3, <1>4 DEF CA!Next

----------------------------------------------------------------------------
(* decimal.quantize.                                                       *)

\* The multiple of the quantum that a rounding mode chooses is next to the value, and
\* nearest or on the promised side.
LEMMA MultipleIsNearest ==
    ASSUME NEW v \in Int, NEW q \in Nat \ {0}, NEW mode \in EN!RoundingModes
    PROVE  LET y == q * EN!Multiple(v, q, mode)
               tie == 2 * EN!Abs(y - v) = q
           IN  /\ y \in Int /\ y % q = 0 /\ EN!Abs(y - v) < q
               /\ mode \in {"half_even", "half_up", "half_down"} =>
                    /\ \A z \in {y - q, y + q} : ~ EN!Closer(z, y, v)
                    /\ tie => CASE mode = "half_even" -> (y \div q) % 2 = 0
                                [] mode = "half_up" -> EN!Abs(y) > EN!Abs(v)
                                [] mode = "half_down" -> EN!Abs(y) < EN!Abs(v)
               /\ CASE mode = "floor" -> y <= v
                    [] mode = "ceiling" -> y >= v
                    [] mode = "toward_zero" -> EN!Abs(y) <= EN!Abs(v)
                    [] mode = "away_from_zero" -> EN!Abs(y) >= EN!Abs(v)
                    [] OTHER -> TRUE
<1> DEFINE k == v \div q
           p == v % q
           m == EN!Multiple(v, q, mode)
           b == q * k
           y == q * m
<1>1. k \in Int /\ p \in 0..(q - 1) /\ v = k * q + p
  OBVIOUS
<1>2. m \in {k, k + 1}
  BY DEF EN!Multiple
<1>3. /\ mode = "floor" => m = k
      /\ mode = "ceiling" => m = IF p > 0 THEN k + 1 ELSE k
      /\ mode = "toward_zero" => m = IF p > 0 /\ v < 0 THEN k + 1 ELSE k
      /\ mode = "away_from_zero" => m = IF p > 0 /\ v > 0 THEN k + 1 ELSE k
      /\ mode = "half_even" => m = IF 2 * p > q \/ (2 * p = q /\ k % 2 = 1) THEN k + 1 ELSE k
      /\ mode = "half_up" => m = IF 2 * p > q \/ (2 * p = q /\ v > 0) THEN k + 1 ELSE k
      /\ mode = "half_down" => m = IF 2 * p > q \/ (2 * p = q /\ v < 0) THEN k + 1 ELSE k
  BY Zenon DEF EN!Multiple
<1> HIDE DEF k, p, m
<1>4. b \in Int /\ v = b + p /\ (v >= 0 => b >= 0) /\ (v < 0 => b + q <= 0)
  <2>1. b \in Int /\ v = b + p
    BY <1>1
  <2>2. k >= 0 => b >= 0
    BY <1>1
  <2>3. k <= -1 => b <= -q
    BY <1>1
  <2>4. k >= 0 \/ k <= -1
    BY <1>1
  <2> HIDE DEF b
  <2> QED
    BY <1>1, <2>1, <2>2, <2>3, <2>4
<1>5. y = IF m = k THEN b ELSE b + q
  BY <1>1, <1>2
<1>6. y \in Int /\ y = m * q + 0 /\ m \in Int /\ 0 \in 0..(q - 1)
  BY <1>1, <1>2
<1>7. y \div q = m /\ y % q = 0
  BY <1>6, DivisionUnique
<1> HIDE DEF y, b
<1>8. EN!Abs(y - v) < q
  BY <1>1, <1>3, <1>4, <1>5 DEF EN!Abs, EN!RoundingModes
<1>9. ASSUME mode \in {"half_even", "half_up", "half_down"}
      PROVE  /\ \A z \in {y - q, y + q} : ~ EN!Closer(z, y, v)
             /\ 2 * EN!Abs(y - v) = q =>
                   /\ mode = "half_even" => (y \div q) % 2 = 0
                   /\ mode = "half_up" => EN!Abs(y) > EN!Abs(v)
                   /\ mode = "half_down" => EN!Abs(y) < EN!Abs(v)
  <2>1. 2 * p > q => y = b + q
    BY <1>1, <1>3, <1>5, <1>9
  <2>2. 2 * p < q => y = b
    BY <1>1, <1>3, <1>5, <1>9
  <2>3. y \in {b, b + q}
    BY <1>5
  <2>4. \A z \in {y - q, y + q} : ~ EN!Closer(z, y, v)
    BY <1>1, <1>4, <2>1, <2>2, <2>3 DEF EN!Closer, EN!Abs
  <2>5. ASSUME 2 * EN!Abs(y - v) = q PROVE 2 * p = q
    BY <1>1, <1>4, <2>1, <2>2, <2>3, <2>5 DEF EN!Abs
  <2>6. ASSUME 2 * p = q, mode = "half_even" PROVE m % 2 = 0
    <3>1. k % 2 = 1 => (k + 1) % 2 = 0
      BY <1>1
    <3>2. k % 2 \in {0, 1}
      BY <1>1
    <3> QED
      BY <1>1, <1>3, <2>6, <3>1, <3>2
  <2>7. ASSUME 2 * p = q, mode = "half_up" PROVE EN!Abs(y) > EN!Abs(v)
    BY <1>1, <1>3, <1>4, <1>5, <2>7 DEF EN!Abs
  <2>8. ASSUME 2 * p = q, mode = "half_down" PROVE EN!Abs(y) < EN!Abs(v)
    BY <1>1, <1>3, <1>4, <1>5, <2>8 DEF EN!Abs
  <2> QED
    BY <1>7, <2>4, <2>5, <2>6, <2>7, <2>8
<1>10. /\ mode = "floor" => y <= v
       /\ mode = "ceiling" => y >= v
       /\ mode = "toward_zero" => EN!Abs(y) <= EN!Abs(v)
       /\ mode = "away_from_zero" => EN!Abs(y) >= EN!Abs(v)
  BY <1>1, <1>3, <1>4, <1>5 DEF EN!Abs
<1>11. ASSUME mode \in {"half_even", "half_up", "half_down"}, 2 * EN!Abs(y - v) = q
       PROVE  CASE mode = "half_even" -> (y \div q) % 2 = 0
                [] mode = "half_up" -> EN!Abs(y) > EN!Abs(v)
                [] mode = "half_down" -> EN!Abs(y) < EN!Abs(v)
  BY <1>9, <1>11, Zenon
<1>12. (CASE mode = "floor" -> y <= v
          [] mode = "ceiling" -> y >= v
          [] mode = "toward_zero" -> EN!Abs(y) <= EN!Abs(v)
          [] mode = "away_from_zero" -> EN!Abs(y) >= EN!Abs(v)
          [] OTHER -> TRUE)
  BY <1>10, Zenon
<1> QED
  BY <1>6, <1>7, <1>8, <1>9, <1>11, <1>12, Zenon DEF y, m

\* The first powers of ten.
LEMMA PowersOfTen ==
    ASSUME NEW e \in 0..9
    PROVE  10^e \in Nat \ {0}
<1> DEFINE positive(n) == 10^n \in Nat \ {0}
<1>1. positive(0) /\ positive(1) /\ positive(2) /\ positive(3) /\ positive(4)
  OBVIOUS
<1>2. positive(5) /\ positive(6) /\ positive(7) /\ positive(8) /\ positive(9)
  OBVIOUS
<1> HIDE DEF positive
<1>3. e \in {0, 1, 2, 3, 4} \/ e \in {5, 6, 7, 8, 9}
  OBVIOUS
<1>4. positive(e)
  BY <1>1, <1>2, <1>3, Zenon
<1> QED
  BY <1>4 DEF positive

\* A number of at most nine digits has as many.
LEMMA DigitsCounted ==
    ASSUME NEW n \in Nat, n < 10^9
    PROVE  EN!Digits(n) \in 1..9
<1> DEFINE S == {k \in 1..9 : n < 10^k}
<1>1. S \in SUBSET Nat /\ S # {}
  <2>1. 9 \in 1..9
    OBVIOUS
  <2>2. \E k \in 1..9 : n < 10^k
    BY <2>1, Zenon
  <2>3. S # {}
    BY <2>2, Zenon
  <2> QED
    BY <2>3
<1>2. EN!Digits(n) = Min(S)
  BY DEF EN!Digits, EN!Min, Min
<1> HIDE DEF S
<1>3. Min(S) \in S
  BY <1>1, LeastIndex
<1> QED
  BY <1>2, <1>3 DEF S

\* The handlers of an instance are those of Handlers.
LEMMA SameNumbers ==
    ASSUME NEW checks, NEW result
    PROVE  EN!Handled(checks, result) = Handled(checks, result)
<1>1. EN!FirstFailure(checks) = FirstFailure(checks)
  BY DEF EN!FirstFailure, FirstFailure, EN!Min, Min
<1>2. \A code : EN!DefaultPhase(code) = DefaultPhase(code)
  BY Zenon DEF EN!DefaultPhase, DefaultPhase, EN!InputCodes, InputCodes
<1>3. \A code : EN!DefaultAction(code) = DefaultAction(code)
  BY Zenon DEF EN!DefaultAction, DefaultAction, EN!InputCodes, InputCodes,
                EN!RetryableCodes, RetryableCodes
<1>4. \A code : EN!Refused(code) = Refused(code)
  BY <1>2, <1>3 DEF EN!Refused, Refused, EN!RetryableCodes, RetryableCodes
<1> QED
  BY <1>1, <1>4 DEF EN!Handled, Handled, EN!Answered, Answered

\* The checks of decimal.quantize.
QuantizeChecks(r) ==
    EN!finite_decimal(r.value)
    \o (CASE r.action = "decimal_places" -> EN!integer_arg(r.amount, -1, 3)
          [] r.action = "significant_digits" -> EN!integer_arg(r.amount, 1, 3)
          [] r.action = "increment" ->
               EN!finite_decimal(r.amount) \o << <<r.amount > 0, "E_DOMAIN">> >>)

\* An answer of decimal.quantize is about a number in range, and has a quantum.
LEMMA QuantumPositive ==
    ASSUME MaxDecimal \in Nat, MaxDecimal < 10^9,
           NEW r, r.value \in Int, r.amount \in Int,
           r.action \in {"decimal_places", "significant_digits", "increment"},
           NEW result, EN!Handled(QuantizeChecks(r), result).status = "ok"
    PROVE  /\ EN!Handled(QuantizeChecks(r), result) = [status |-> "ok", result |-> result]
           /\ EN!Quantum(r) \in Nat \ {0}
<1> DEFINE v == r.value
           n == r.amount
           low == IF r.action = "decimal_places" THEN -1 ELSE 1
           c1 == <<v # EN!NotANumber, "E_INPUT">>
           c2 == <<v # EN!Infinite, "E_DOMAIN">>
           c3 == <<EN!Abs(v) <= MaxDecimal, "E_LIMIT">>
           a1 == <<n # EN!NotANumber, "E_INPUT">>
           a2 == <<low <= n /\ n <= 3, "E_LIMIT">>
           i2 == <<n # EN!Infinite, "E_DOMAIN">>
           i3 == <<EN!Abs(n) <= MaxDecimal, "E_LIMIT">>
           i4 == <<n > 0, "E_DOMAIN">>
           X == {c1, c2, c3, a1, a2, i2, i3, i4}
           checks == QuantizeChecks(r)
<1>1. CASE r.action \in {"decimal_places", "significant_digits"}
  <2>1. checks = <<c1, c2, c3>> \o <<a1, a2>>
    <3>1. CASE r.action = "decimal_places"
      <4>1. low = -1
        BY <3>1
      <4>2. checks = EN!finite_decimal(v) \o EN!integer_arg(n, -1, 3)
        BY <3>1 DEF QuantizeChecks
      <4> QED
        BY <4>1, <4>2 DEF EN!finite_decimal, EN!integer_arg
    <3>2. CASE r.action = "significant_digits"
      <4>1. low = 1
        BY <3>2
      <4>2. checks = EN!finite_decimal(v) \o EN!integer_arg(n, 1, 3)
        BY <3>2 DEF QuantizeChecks
      <4> QED
        BY <4>1, <4>2 DEF EN!finite_decimal, EN!integer_arg
    <3> QED
      BY <1>1, <3>1, <3>2
  <2>2. \A x \in X : x[2] # "ok"
    OBVIOUS
  <2>3. c3[1] => EN!Abs(v) <= MaxDecimal
    OBVIOUS
  <2>4. a2[1] => low <= n /\ n <= 3
    OBVIOUS
  <2> HIDE DEF c1, c2, c3, a1, a2, i2, i3, i4, checks
  <2>5. checks \in Seq(X) /\ DOMAIN checks = 1..5 /\ checks[3] = c3 /\ checks[5] = a2
    BY <2>1
  <2> HIDE DEF X
  <2>6. Handled(checks, result).status = "ok"
    BY SameNumbers DEF checks
  <2>7. /\ Handled(checks, result) = [status |-> "ok", result |-> result]
        /\ \A i \in DOMAIN checks : checks[i][1]
    BY <2>2, <2>5, <2>6, AnsweredChecked
  <2>8. EN!Handled(QuantizeChecks(r), result) = [status |-> "ok", result |-> result]
    BY <2>7, SameNumbers DEF checks
  <2>9. EN!Abs(v) <= MaxDecimal /\ low <= n /\ n <= 3
    BY <2>3, <2>4, <2>5, <2>7
  <2>10. EN!Quantum(r) \in Nat \ {0}
    <3>1. 1 \in Nat \ {0}
      OBVIOUS
    <3>2. CASE r.action = "decimal_places"
      <4>1. EN!Quantum(r) = IF n >= 2 THEN 1 ELSE 10^(2 - n)
        BY <3>2 DEF EN!Quantum
      <4> DEFINE e == 2 - n
      <4>2. n < 2 => e \in 0..9
        BY <2>9, <3>2
      <4>3. e \in 0..9 => 10^e \in Nat \ {0}
        BY PowersOfTen, Zenon
      <4>4. CASE n < 2
        <5>1. EN!Quantum(r) = 10^e
          BY <4>1, <4>4
        <5> QED
          BY <4>2, <4>3, <4>4, <5>1, Zenon
      <4>5. CASE ~ n < 2
        BY <3>1, <4>1, <4>5
      <4> QED
        BY <4>4, <4>5
    <3>3. CASE r.action = "significant_digits"
      <4> DEFINE e == IF v = 0 THEN 3 - n ELSE EN!Digits(EN!Abs(v)) - n
      <4>1. EN!Quantum(r) = IF e <= 0 THEN 1 ELSE 10^e
        BY <3>3 DEF EN!Quantum
      <4>2. EN!Abs(v) \in Nat /\ EN!Abs(v) < 10^9
        BY <2>9 DEF EN!Abs
      <4>3. EN!Digits(EN!Abs(v)) \in 1..9
        BY <4>2, DigitsCounted
      <4>4. e > 0 => e \in 0..9
        BY <2>9, <3>3, <4>3
      <4> HIDE DEF e
      <4>5. e \in 0..9 => 10^e \in Nat \ {0}
        BY PowersOfTen, Zenon
      <4>6. CASE e > 0
        <5>1. ~ e <= 0
          BY <4>4, <4>6
        <5> QED
          BY <4>1, <4>4, <4>5, <4>6, <5>1, Zenon
      <4>7. CASE ~ e > 0
        <5>1. e <= 0
          BY <2>9, <3>3, <4>3, <4>7 DEF e
        <5> QED
          BY <3>1, <4>1, <5>1, Zenon
      <4> QED
        BY <4>6, <4>7
    <3> QED
      BY <1>1, <3>2, <3>3
  <2> QED
    BY <2>8, <2>10
<1>2. CASE r.action = "increment"
  <2>1. checks = <<c1, c2, c3>> \o <<a1, i2, i3>> \o <<i4>>
    <3>1. checks = EN!finite_decimal(v) \o (EN!finite_decimal(n) \o << <<n > 0, "E_DOMAIN">> >>)
      BY <1>2 DEF QuantizeChecks
    <3> QED
      BY <3>1 DEF EN!finite_decimal
  <2>2. \A x \in X : x[2] # "ok"
    OBVIOUS
  <2>3. i4[1] => n > 0
    OBVIOUS
  <2> HIDE DEF c1, c2, c3, a1, a2, i2, i3, i4, checks
  <2>4. checks \in Seq(X) /\ DOMAIN checks = 1..7 /\ checks[7] = i4
    BY <2>1
  <2> HIDE DEF X
  <2>5. Handled(checks, result).status = "ok"
    BY SameNumbers DEF checks
  <2>6. /\ Handled(checks, result) = [status |-> "ok", result |-> result]
        /\ \A i \in DOMAIN checks : checks[i][1]
    BY <2>2, <2>4, <2>5, AnsweredChecked
  <2>7. EN!Handled(QuantizeChecks(r), result) = [status |-> "ok", result |-> result]
    BY <2>6, SameNumbers DEF checks
  <2>8. n > 0
    BY <2>3, <2>4, <2>6
  <2>9. EN!Quantum(r) = n
    BY <1>2 DEF EN!Quantum
  <2> QED
    BY <2>7, <2>8, <2>9
<1> QED
  BY <1>1, <1>2

\* Whatever decimals and increments a request holds: an answer of decimal.quantize is a
\* multiple of its quantum next to the value; in the half modes no multiple is nearer and
\* a tie goes where the mode says, and the directed modes stay on their side
\* (quantize of operations/rounding.py).
THEOREM QuantizeIsNearest ==
    ASSUME Decimals \subseteq Int, Increments \subseteq Int, MaxDecimal \in Nat, MaxDecimal < 10^9
    PROVE  EN!Next => EN!QuantizeNearest'
<1>1. ASSUME EN!QuantizeCall PROVE EN!QuantizeNearest'
  <2>1. PICK a \in {"decimal_places", "significant_digits", "increment"}, v \in Decimals,
             n \in Increments \cup {-2, -1, 1, 2, 3, 4}, m \in EN!RoundingModes :
          LET r == [action |-> a, value |-> v, amount |-> n, mode |-> m]
          IN call' = [op |-> "quantize", r |-> r, out |-> EN!quantize(r)]
    BY <1>1, Zenon DEF EN!QuantizeCall, EN!Serve
  <2> DEFINE r == [action |-> a, value |-> v, amount |-> n, mode |-> m]
             q == EN!Quantum(r)
             y == q * EN!Multiple(v, q, m)
             result == [rounded |-> y, quantum |-> q,
                        direction |-> CASE y > v -> "up" [] y < v -> "down" [] OTHER -> "unchanged",
                        negativeZero |-> y = 0 /\ v < 0]
  <2>2. r.action = a /\ r.value = v /\ r.amount = n /\ r.mode = m
    OBVIOUS
  <2>3. v \in Int /\ n \in Int
    OBVIOUS
  <2>4. EN!quantize(r) = EN!Handled(QuantizeChecks(r), result)
    BY <2>2, Zenon DEF EN!quantize, QuantizeChecks
  <2>5. call' = [op |-> "quantize", r |-> r, out |-> EN!quantize(r)]
    BY <2>1
  <2>6. CASE EN!quantize(r).status = "ok"
    <3> HIDE DEF r, result
    <3>1. /\ EN!quantize(r) = [status |-> "ok", result |-> result]
          /\ q \in Nat \ {0}
      BY <2>2, <2>3, <2>4, <2>6, QuantumPositive
    <3>2. call'.r = r /\ call'.out.result = result
      BY <2>5, <3>1
    <3>3. result.quantum = q /\ result.rounded = y /\ result.negativeZero = (y = 0 /\ v < 0)
      BY Zenon DEF result
    <3> HIDE DEF q
    <3> DEFINE tie == 2 * EN!Abs(y - v) = q
    <3>4. /\ y % q = 0 /\ EN!Abs(y - v) < q
          /\ m \in {"half_even", "half_up", "half_down"} =>
               /\ \A z \in {y - q, y + q} : ~ EN!Closer(z, y, v)
               /\ tie => CASE m = "half_even" -> (y \div q) % 2 = 0
                           [] m = "half_up" -> EN!Abs(y) > EN!Abs(v)
                           [] m = "half_down" -> EN!Abs(y) < EN!Abs(v)
          /\ CASE m = "floor" -> y <= v
               [] m = "ceiling" -> y >= v
               [] m = "toward_zero" -> EN!Abs(y) <= EN!Abs(v)
               [] m = "away_from_zero" -> EN!Abs(y) >= EN!Abs(v)
               [] OTHER -> TRUE
      BY <2>3, <3>1, MultipleIsNearest, Zenon
    <3> HIDE DEF y
    <3>5. result.negativeZero => v < 0
      BY <3>3
    <3>6. r.value = v /\ r.mode = m
      BY <2>2
    <3> QED
      BY <3>2, <3>3, <3>4, <3>5, <3>6, Zenon DEF EN!QuantizeNearest
  <2>7. CASE EN!quantize(r).status # "ok"
    BY <2>5, <2>7 DEF EN!QuantizeNearest, EN!Accepted
  <2> QED
    BY <2>6, <2>7
<1>2. ASSUME EN!Next, ~ EN!QuantizeCall PROVE EN!QuantizeNearest'
  <2>1. EN!DivideCall => \E r, out : call' = [op |-> "divide_integer", r |-> r, out |-> out]
    BY Zenon DEF EN!DivideCall, EN!Serve
  <2>2. EN!FactorCall => \E r, out : call' = [op |-> "factorization", r |-> r, out |-> out]
    BY Zenon DEF EN!FactorCall, EN!Serve
  <2>3. EN!GcdCall => \E r, out : call' = [op |-> "gcd_lcm", r |-> r, out |-> out]
    BY Zenon DEF EN!GcdCall, EN!Serve
  <2>4. EN!ModularCall => \E r, out : call' = [op |-> "modular", r |-> r, out |-> out]
    BY Zenon DEF EN!ModularCall, EN!Serve
  <2>5. EN!CountCall => \E r, out : call' = [op |-> "count", r |-> r, out |-> out]
    BY Zenon DEF EN!CountCall, EN!Serve
  <2>6. call'.op # "quantize"
    BY <1>2, <2>1, <2>2, <2>3, <2>4, <2>5 DEF EN!Next
  <2> QED
    BY <2>6 DEF EN!QuantizeNearest, EN!Accepted
<1> QED
  BY <1>1, <1>2

----------------------------------------------------------------------------
(* The rate cache.                                                         *)

\* The earlier of two times.
LEMMA LesserTime ==
    ASSUME NEW a \in Int, NEW b \in Int
    PROVE  /\ FI!Min({a, b}) \in Int
           /\ FI!Min({a, b}) <= a
           /\ FI!Min({a, b}) <= b
<1>1. \E x \in {a, b} : \A y \in {a, b} : x <= y
  OBVIOUS
<1>2. FI!Min({a, b}) \in {a, b} /\ \A y \in {a, b} : FI!Min({a, b}) <= y
  BY <1>1 DEF FI!Min
<1> QED
  BY <1>2

\* One of three days in a row is a business day, and the first such day is no later than
\* any business day of the week that follows.
LEMMA NextBusinessDay ==
    ASSUME NEW day \in Int
    PROVE  /\ FI!next_business_day(day) \in Int
           /\ \A later \in (day + 1)..(day + 7) : later % 7 < 5 => FI!next_business_day(day) <= later
<1> DEFINE S == {d \in (day + 1)..(day + 3) : d % 7 < 5}
<1>1. day + 1 \in S \/ day + 2 \in S \/ day + 3 \in S
  OBVIOUS
<1>2. \A x \in S : x \in Int /\ day + 1 <= x /\ x <= day + 3
  OBVIOUS
<1>3. \A x \in Int : x \in day + 1..day + 3 /\ x \notin S => x % 7 >= 5
  OBVIOUS
<1>4. \E x \in S : \A y \in S : x <= y
  <2> HIDE DEF S
  <2>1. CASE day + 1 \in S
    BY <1>2, <2>1
  <2>2. CASE day + 1 \notin S /\ day + 2 \in S
    <3>1. \A y \in S : day + 2 <= y
      BY <1>2, <2>2
    <3> QED
      BY <2>2, <3>1
  <2>3. CASE day + 1 \notin S /\ day + 2 \notin S
    <3>1. day + 3 \in S
      BY <1>1, <2>3
    <3>2. \A y \in S : day + 3 <= y
      BY <1>2, <2>3
    <3> QED
      BY <3>1, <3>2
  <2> QED
    BY <2>1, <2>2, <2>3
<1>5. FI!next_business_day(day) \in S /\ \A y \in S : FI!next_business_day(day) <= y
  BY <1>4 DEF FI!next_business_day, FI!Min
<1> DEFINE next == FI!next_business_day(day)
<1> HIDE DEF next
<1>6. next \in S /\ \A y \in S : next <= y
  BY <1>5 DEF next
<1>7. next \in Int /\ next <= day + 3
  BY <1>6, <1>2
<1>8. ASSUME NEW later \in (day + 1)..(day + 7), later % 7 < 5 PROVE next <= later
  <2>1. CASE later <= day + 3
    <3>1. later \in S
      BY <1>8, <2>1
    <3> QED
      BY <1>6, <3>1
  <2>2. CASE later > day + 3
    BY <1>7, <2>2
  <2> QED
    BY <2>1, <2>2
<1> QED
  BY <1>7, <1>8 DEF next

\* A document that is accepted is fresh until the next release at the latest, and no
\* longer than a day.
LEMMA DocumentExpires ==
    ASSUME Day \in Nat, Release \in Int,
           NEW payload, payload.date \in Int, payload.checked \in Int, payload.expires \in Int,
           FI!load_cache(payload).status = "ok"
    PROVE  LET result == FI!load_cache(payload).result
           IN  /\ result.expires <= result.checked + Day
               /\ \A later \in (result.date + 1)..(result.date + 7) :
                     later % 7 < 5 => result.expires <= (later * Day) + Release
<1> DEFINE date == payload.date
           checked == payload.checked
           next == FI!next_business_day(date)
           until == FI!fresh_until(date, checked)
           expires == FI!Min({payload.expires, until})
<1>1. FI!load_cache(payload).result.date = date /\ FI!load_cache(payload).result.checked = checked
      /\ FI!load_cache(payload).result.expires = expires
  <2>1. FI!FirstFailure(FI!snapshot_from_json(payload)) = "ok"
    <3> DEFINE verdict == FI!FirstFailure(FI!snapshot_from_json(payload))
    <3>1. verdict # "ok" => FI!load_cache(payload) = FI!Refused(verdict)
      BY DEF FI!load_cache
    <3> HIDE DEF verdict
    <3>2. FI!Refused(verdict).status = "error"
      BY DEF FI!Refused
    <3>3. verdict = "ok"
      BY <3>1, <3>2
    <3> QED
      BY <3>3 DEF verdict
  <2>2. FI!load_cache(payload) =
          FI!Answered([date |-> date, checked |-> checked, rates |-> payload.rates, expires |-> expires])
    BY <2>1 DEF FI!load_cache
  <2> HIDE DEF date, checked, expires
  <2> QED
    BY <2>2 DEF FI!Answered
<1>2. next \in Int /\ \A later \in (date + 1)..(date + 7) : later % 7 < 5 => next <= later
  BY NextBusinessDay
<1> HIDE DEF next
<1> DEFINE a == checked + Day
           b == (next * Day) + Release
<1>3. a \in Int /\ b \in Int
  BY <1>2
<1>4. until = FI!Min({a, b})
  BY DEF FI!fresh_until, next
<1> HIDE DEF a, b
<1>5. until \in Int /\ until <= a /\ until <= b
  BY <1>3, <1>4, LesserTime
<1> HIDE DEF until
<1>6. expires \in Int /\ expires <= until
  BY <1>5, LesserTime
<1> HIDE DEF expires
<1>7. expires <= checked + Day
  BY <1>3, <1>5, <1>6 DEF a
<1>8. ASSUME NEW later \in (date + 1)..(date + 7), later % 7 < 5
      PROVE  expires <= (later * Day) + Release
  <2>1. next <= later /\ later \in Int
    BY <1>2, <1>8
  <2>2. next * Day <= later * Day /\ next * Day \in Int /\ later * Day \in Int
    BY <1>2, <2>1
  <2> DEFINE x == next * Day
             y == later * Day
  <2>3. b = x + Release
    BY DEF b
  <2> HIDE DEF x, y
  <2>4. x <= y /\ x \in Int /\ y \in Int
    BY <2>2 DEF x, y
  <2>5. expires <= y + Release
    BY <1>5, <1>6, <1>3, <2>3, <2>4
  <2> QED
    BY <2>5 DEF y
<1> QED
  BY <1>1, <1>7, <1>8

\* However long a day is and whenever rates are released: a cache document that is read
\* back is fresh for a day at most, and not after the first business day's release that
\* follows its date, whoever wrote the file (_load_cache and _fresh_until of currency.py).
THEOREM CachedRatesExpire ==
    ASSUME Day \in Nat, Release \in Int
    PROVE  FI!Next => FI!CacheExpires'
<1>1. ASSUME NEW payload, payload.date \in Int, payload.checked \in Int, payload.expires \in Int,
             call'.out = FI!load_cache(payload)
      PROVE  FI!CacheExpires'
  <2>1. call'.out.status = "ok" =>
          LET result == call'.out.result
          IN  /\ result.expires <= result.checked + Day
              /\ \A later \in (result.date + 1)..(result.date + 7) :
                    later % 7 < 5 => result.expires <= (later * Day) + Release
    BY <1>1, DocumentExpires, Zenon
  <2> QED
    BY <2>1, Zenon DEF FI!CacheExpires
<1>2. ASSUME FI!FileCall PROVE FI!CacheExpires'
  <2>1. PICK object, current \in BOOLEAN, date \in {0, 4, FI!NotANumber},
             checked, expires \in {0, 8, 40, 60, FI!NotANumber},
             rates \in FI!FileRates :
          LET payload == [object |-> object, current |-> current, date |-> date,
                          checked |-> checked, expires |-> expires, rates |-> rates]
          IN  call' = [op |-> "file", r |-> payload, out |-> FI!load_cache(payload)]
    BY <1>2, Zenon DEF FI!FileCall
  <2> DEFINE payload == [object |-> object, current |-> current, date |-> date,
                         checked |-> checked, expires |-> expires, rates |-> rates]
  <2>2. payload.date \in Int /\ payload.checked \in Int /\ payload.expires \in Int
    BY DEF FI!NotANumber
  <2>3. call'.out = FI!load_cache(payload)
    BY <2>1
  <2> HIDE DEF payload
  <2> QED
    BY <1>1, <2>2, <2>3
<1>3. ASSUME FI!FeedCall PROVE FI!CacheExpires'
  <2>1. PICK xml \in BOOLEAN, date \in {0, 4, 5, 6, FI!NotANumber}, 
             rates \in UNION {[1..n -> FI!Entries] : n \in 0..2}, since \in {0, 3, 7, 19} :
          LET feed == [xml |-> xml, date |-> date, rates |-> rates]
              checks == FI!parse_ecb_rates(feed)
              snapshot == FI!FetchedSnapshot(feed, (Day * date) + since)
          IN  call' = [op |-> "feed", r |-> feed,
                       snapshot |-> IF FI!FirstFailure(checks) = "ok" THEN snapshot ELSE <<>>,
                       out |-> IF FI!FirstFailure(checks) = "ok" THEN FI!load_cache(FI!SavedPayload(snapshot))
                               ELSE FI!Refused(FI!FirstFailure(checks))]
    BY <1>3, Zenon DEF FI!FeedCall
  <2> DEFINE feed == [xml |-> xml, date |-> date, rates |-> rates]
             verdict == FI!FirstFailure(FI!parse_ecb_rates(feed))
             checked == (Day * date) + since
             snapshot == FI!FetchedSnapshot(feed, checked)
             payload == FI!SavedPayload(snapshot)
  <2>2. call'.out = IF verdict = "ok" THEN FI!load_cache(payload) ELSE FI!Refused(verdict)
    BY <2>1
  <2> HIDE DEF verdict
  <2>3. CASE verdict = "ok"
    <3>1. date \in Int /\ checked \in Int
      <4>1. date \in Int /\ since \in Int
        BY DEF FI!NotANumber
      <4> QED
        BY <4>1
    <3> HIDE DEF checked
    <3>2. FI!fresh_until(date, checked) \in Int
      <4> DEFINE next == FI!next_business_day(date)
      <4>1. next \in Int
        BY <3>1, NextBusinessDay
      <4> HIDE DEF next
      <4>2. checked + Day \in Int /\ (next * Day) + Release \in Int
        BY <3>1, <4>1
      <4>3. FI!fresh_until(date, checked) = FI!Min({checked + Day, (next * Day) + Release})
        BY DEF FI!fresh_until, next
      <4> QED
        BY <4>2, <4>3, LesserTime
    <3> DEFINE until == FI!fresh_until(date, checked)
    <3> HIDE DEF until
    <3>3. /\ payload.date = date
          /\ payload.checked = checked - (checked % 2)
          /\ payload.expires = until - (until % 2)
      BY DEF FI!SavedPayload, FI!FetchedSnapshot, FI!iso_text, until
    <3>4. until \in Int
      BY <3>2 DEF until
    <3> HIDE DEF payload
    <3>5. payload.date \in Int /\ payload.checked \in Int /\ payload.expires \in Int
      BY <3>1, <3>3, <3>4
    <3> QED
      BY <1>1, <2>2, <2>3, <3>5
  <2>4. CASE verdict # "ok"
    <3>1. call'.out.status = "error"
      BY <2>2, <2>4 DEF FI!Refused
    <3> QED
      BY <3>1 DEF FI!CacheExpires
  <2> QED
    BY <2>3, <2>4
<1>4. ASSUME FI!GrowthCall \/ FI!NpvCall \/ FI!IrrCall PROVE FI!CacheExpires'
  <2>1. FI!GrowthCall => call'.op \in {"compound", "effective", "loan"}
    <3> SUFFICES ASSUME FI!GrowthCall PROVE call'.op \in {"compound", "effective", "loan"}
      OBVIOUS
    <3>1. PICK op \in {"compound", "effective", "loan"} :
            \E r, out : call' = [op |-> op, r |-> r, out |-> out]
      BY Zenon DEF FI!GrowthCall
    <3> QED
      BY <3>1
  <2>2. FI!NpvCall => \E r, out : call' = [op |-> "npv", r |-> r, out |-> out]
    BY Zenon DEF FI!NpvCall
  <2>3. FI!IrrCall => \E r, out : call' = [op |-> "irr", r |-> r, out |-> out]
    BY Zenon DEF FI!IrrCall
  <2>4. call'.op \notin {"feed", "file"}
    BY <1>4, <2>1, <2>2, <2>3
  <2> QED
    BY <2>4 DEF FI!CacheExpires
<1> QED
  BY <1>2, <1>3, <1>4 DEF FI!Next
============================================================================
