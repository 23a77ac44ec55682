---------------------------- MODULE WidthProofs -----------------------------
(***************************************************************************)
(* Proofs about the modules in which the width of an integer matters, for  *)
(* any widths: ErrToCode, where a code is cut down to the field that takes *)
(* it, and LocalCacheTTL, where a sum of durations wraps around.           *)
(***************************************************************************)
EXTENDS ErrToCode, LocalCacheTTL, FiniteSetTheorems, FunctionTheorems,
        WellFoundedInduction, TLAPS

-----------------------------------------------------------------------------
(* Powers of two.  The provers know nothing of 2^n but that it is how many *)
(* subsets a set of n elements has; the rest follows from there.           *)

\* A non-empty set of numbers has a least one: what the inductions below rest on.
LEMMA LeastNat ==
  ASSUME NEW S, S \subseteq Nat, S # {}
  PROVE  \E n \in S : \A m \in S : n <= m
<1>1. \E n \in S : \A m \in S : <<m, n>> \notin OpToRel(<, Nat)
  BY WFMin, NatLessThanWellFounded, Zenon
<1>2. \A m, n \in Nat : <<m, n>> \notin OpToRel(<, Nat) => ~(m < n)
  BY Zenon DEF OpToRel
<1>3. \E n \in S : \A m \in S : ~(m < n)
  BY <1>1, <1>2, Zenon
<1> QED
  BY <1>3, SMT

\* There are 2^n subsets of n numbers: 2^n is how many, hence a number.
LEMMA SubsetsOfInterval ==
  ASSUME NEW n \in Nat
  PROVE  /\ IsFiniteSet(SUBSET (1 .. n)) /\ Cardinality(SUBSET (1 .. n)) = 2^n
         /\ 2^n \in Nat
<1>1. IsFiniteSet(1 .. n) /\ Cardinality(1 .. n) = n
  <2>1. 1 \in Int /\ n \in Int /\ (IF 1 > n THEN 0 ELSE n - 1 + 1) = n
    BY SMT
  <2> QED
    BY <2>1, FS_Interval, Zenon
<1>2. IsFiniteSet(SUBSET (1 .. n)) /\ Cardinality(SUBSET (1 .. n)) = 2^n
  <2>1. Cardinality(SUBSET (1 .. n)) = 2^Cardinality(1 .. n)
    BY <1>1, FS_SUBSET, Zenon
  <2> QED
    BY <1>1, <2>1, FS_SUBSET, Zenon
<1> QED
  BY <1>2, FS_CardinalityType, Zenon

\* One more element, twice as many subsets.
LEMMA PowerDoubles ==
  ASSUME NEW n \in Nat
  PROVE  2^(n + 1) = 2 * 2^n
<1> DEFINE A == SUBSET (1 .. n)
           B == {X \cup {n + 1} : X \in A}
           f == [X \in A |-> X \cup {n + 1}]
<1>1. 1 .. n + 1 = (1 .. n) \cup {n + 1} /\ n + 1 \notin 1 .. n
  BY SMT
<1>2. SUBSET (1 .. n + 1) = A \cup B
  <2>1. ASSUME NEW X \in SUBSET (1 .. n + 1) PROVE X \in A \cup B
    <3>1. CASE n + 1 \in X
      <4>1. X \ {n + 1} \in A /\ X = (X \ {n + 1}) \cup {n + 1}
        BY <1>1, <3>1
      <4> QED
        BY <4>1
    <3>2. CASE n + 1 \notin X
      BY <1>1, <3>2
    <3> QED
      BY <3>1, <3>2
  <2>2. ASSUME NEW X \in A \cup B PROVE X \in SUBSET (1 .. n + 1)
    BY <1>1
  <2> QED
    BY <2>1, <2>2
<1>3. A \cap B = {}
  BY <1>1
<1>4. f \in Bijection(A, B)
  <2>1. f \in [A -> B]
    OBVIOUS
  <2>2. \A X, Y \in A : f[X] = f[Y] => X = Y
    <3> SUFFICES ASSUME NEW X \in A, NEW Y \in A, X \cup {n + 1} = Y \cup {n + 1}
                 PROVE  X = Y
      OBVIOUS
    <3>1. X = (X \cup {n + 1}) \ {n + 1} /\ Y = (Y \cup {n + 1}) \ {n + 1}
      BY <1>1
    <3> QED
      BY <3>1
  <2>3. \A Z \in B : \E X \in A : f[X] = Z
    OBVIOUS
  <2>4. DOMAIN f = A
    OBVIOUS
  <2> HIDE DEF A, B, f
  <2> QED
    BY <2>1, <2>2, <2>3, <2>4, Zenon DEF Bijection, Injection, Surjection, IsInjective
<1> HIDE DEF A, B, f
<1>5. IsFiniteSet(A) /\ Cardinality(A) = 2^n /\ 2^n \in Nat
  BY SubsetsOfInterval DEF A
<1>6. IsFiniteSet(B) /\ Cardinality(B) = 2^n
  BY <1>4, <1>5, FS_Bijection, Zenon DEF ExistsBijection
<1>7. Cardinality(A \cup B) = Cardinality(A) + Cardinality(B) - Cardinality({})
  <2>1. Cardinality(A \cup B) = Cardinality(A) + Cardinality(B) - Cardinality(A \cap B)
    BY <1>5, <1>6, FS_Union
  <2> QED
    BY <1>3, <2>1, Zenon
<1>8. Cardinality(A \cup B) = 2^(n + 1)
  <2>1. n + 1 \in Nat
    OBVIOUS
  <2> QED
    BY <1>2, <2>1, SubsetsOfInterval, Zenon
<1>9. Cardinality({}) = 0
  BY FS_EmptySet
<1> QED
  BY <1>5, <1>6, <1>7, <1>8, <1>9, SMT

\* A power of two is positive, and even when its exponent is.
LEMMA PowerIs ==
  ASSUME NEW n \in Nat
  PROVE  /\ 2^n \in Nat \ {0}
         /\ n > 0 => 2^n = 2 * 2^(n - 1) /\ 2^(n - 1) \in Nat \ {0}
<1>1. \A m \in Nat : 2^m \in Nat \ {0}
  <2> DEFINE Z == {m \in Nat : 2^m = 0}
  <2>1. Z = {}
    <3> SUFFICES ASSUME Z # {} PROVE FALSE
      OBVIOUS
    <3>1. PICK m \in Z : \A k \in Z : m <= k
      <4>1. Z \subseteq Nat
        OBVIOUS
      <4> QED
        BY <4>1, LeastNat
    <3>2. m \in Nat /\ 2^m = 0 /\ 2^0 = 1
      BY SMT
    <3>3. m - 1 \in Nat /\ (m - 1) + 1 = m /\ ~(m <= m - 1)
      <4>1. ASSUME m = 0 PROVE FALSE
        <5>1. 2^0 = 0
          BY <3>2, <4>1, Zenon
        <5> QED
          BY <3>2, <5>1, SMT
      <4> QED
        BY <3>2, <4>1, SMT
    <3>4. 2^m = 2 * 2^(m - 1) /\ 2^(m - 1) \in Nat
      BY <3>3, PowerDoubles, SubsetsOfInterval, Zenon
    <3>5. 2^(m - 1) = 0
      BY <3>2, <3>4, SMT
    <3>6. m - 1 \in Z
      BY <3>3, <3>5
    <3> QED
      BY <3>1, <3>3, <3>6, Zenon
  <2> QED
    BY <2>1, SubsetsOfInterval
<1>2. ASSUME n > 0 PROVE 2^n = 2 * 2^(n - 1) /\ 2^(n - 1) \in Nat \ {0}
  <2>1. n - 1 \in Nat /\ (n - 1) + 1 = n
    BY <1>2, SMT
  <2> QED
    BY <1>1, <2>1, PowerDoubles, Zenon
<1> QED
  BY <1>1, <1>2

\* The smaller power divides the larger one.
LEMMA PowerDivides ==
  ASSUME NEW a \in Nat, NEW b \in Nat, a <= b
  PROVE  \E k \in Nat \ {0} : 2^b = 2^a * k
<1> DEFINE Z == {n \in Nat : a <= n /\ ~\E k \in Nat \ {0} : 2^n = 2^a * k}
<1> SUFFICES ASSUME Z # {} PROVE FALSE
  OBVIOUS
<1>1. PICK n \in Z : \A m \in Z : n <= m
  <2>1. Z \subseteq Nat
    OBVIOUS
  <2> QED
    BY <2>1, LeastNat
<1>2. n \in Nat /\ a <= n /\ 2^a \in Nat
  BY PowerIs
<1>3. n # a
  <2> SUFFICES ASSUME n = a PROVE FALSE
    OBVIOUS
  <2>1. 2^n = 2^a * 1
    BY <1>2, SMT
  <2>2. 1 \in Nat \ {0}
    BY SMT
  <2>3. \E k \in Nat \ {0} : 2^n = 2^a * k
    BY <2>1, <2>2, Zenon
  <2> QED
    BY <2>3
<1>4. n - 1 \in Nat /\ a <= n - 1 /\ ~(n <= n - 1) /\ (n - 1) + 1 = n
  BY <1>2, <1>3, SMT
<1>5. n - 1 \notin Z
  BY <1>1, <1>4, Zenon
<1>6. PICK k \in Nat \ {0} : 2^(n - 1) = 2^a * k
  BY <1>4, <1>5
<1>7. 2^n = 2 * 2^(n - 1)
  BY <1>4, PowerDoubles, Zenon
<1>8. 2^n = 2^a * (2 * k) /\ 2 * k \in Nat \ {0}
  BY <1>2, <1>6, <1>7, SMT
<1>9. \E j \in Nat \ {0} : 2^n = 2^a * j
  BY <1>8, Zenon
<1> QED
  BY <1>9

-----------------------------------------------------------------------------
(* Cutting numbers down.                                                   *)

\* Quotient and remainder.
LEMMA Remainder ==
  ASSUME NEW n \in Int, NEW m \in Nat \ {0}
  PROVE  /\ n % m \in 0 .. m - 1 /\ n \div m \in Int
         /\ n = (m * (n \div m)) + (n % m)
  BY SMT

\* A remainder is recognised by what is left of a multiple.
LEMMA RemainderIs ==
  ASSUME NEW n \in Int, NEW m \in Nat \ {0}, NEW q \in Int, NEW r \in 0 .. m - 1,
         n = (m * q) + r
  PROVE  n % m = r
  BY SMT

\* What a signed integer of w bits takes of a number is congruent to it.
LEMMA SignedOf ==
  ASSUME NEW n \in Int, NEW w \in Nat \ {0}
  PROVE  Signed(n, w) \in Ints(w) /\ \E q \in Int : n = (2^w * q) + Signed(n, w)
<1> DEFINE m == 2^w
           h == 2^(w - 1)
<1>1. m \in Nat \ {0} /\ h \in Nat \ {0} /\ m = 2 * h
  BY PowerIs, SMT
<1>2. Signed(n, w) = ((n + h) % m) - h /\ Ints(w) = -h .. h - 1
  BY DEF Signed, Ints
<1> HIDE DEF m, h
<1>3. n + h \in Int
  BY <1>1, SMT
<1>4. /\ (n + h) % m \in 0 .. m - 1 /\ (n + h) \div m \in Int
      /\ n + h = (m * ((n + h) \div m)) + ((n + h) % m)
  BY <1>1, <1>3, Remainder, Zenon
<1> DEFINE r == (n + h) % m
           q == (n + h) \div m
<1>5. r \in 0 .. m - 1 /\ q \in Int /\ n + h = (m * q) + r /\ Signed(n, w) = r - h
  BY <1>2, <1>4
<1> HIDE DEF r, q
<1>6. Signed(n, w) \in -h .. h - 1 /\ n = (m * q) + Signed(n, w)
  BY <1>1, <1>5, SMT
<1> QED
  BY <1>2, <1>5, <1>6, Zenon DEF m

\* It is the one number of those it can hold that is.
LEMMA SignedIs ==
  ASSUME NEW n \in Int, NEW w \in Nat \ {0}, NEW q \in Int, NEW r \in Ints(w),
         n = (2^w * q) + r
  PROVE  Signed(n, w) = r
<1> DEFINE m == 2^w
           h == 2^(w - 1)
<1>1. m \in Nat \ {0} /\ h \in Nat \ {0} /\ m = 2 * h
  BY PowerIs, SMT
<1>2. Signed(n, w) = ((n + h) % m) - h /\ r \in -h .. h - 1 /\ n = (m * q) + r
  BY DEF Signed, Ints
<1> HIDE DEF m, h
<1>3. n + h \in Int /\ r + h \in 0 .. m - 1 /\ n + h = (m * q) + (r + h)
  BY <1>1, <1>2, SMT
<1>4. (n + h) % m = r + h
  BY <1>1, <1>3, RemainderIs, Zenon
<1> QED
  BY <1>1, <1>2, <1>4, SMT

\* A number it can hold is taken as it is.
LEMMA SignedSame ==
  ASSUME NEW w \in Nat \ {0}, NEW n \in Ints(w)
  PROVE  Signed(n, w) = n
<1>1. 2^w \in Nat /\ 2^(w - 1) \in Nat
  BY PowerIs, SMT
<1>2. n \in Int
  BY <1>1, SMT DEF Ints
<1>3. n = (2^w * 0) + n
  BY <1>1, <1>2, SMT
<1> QED
  BY <1>2, <1>3, SignedIs

\* Zero is held by all, and only multiples of 2^w become zero.
LEMMA SignedZero ==
  ASSUME NEW n \in Int, NEW w \in Nat \ {0}
  PROVE  /\ 0 \in Ints(w) /\ Signed(0, w) = 0
         /\ Signed(n, w) = 0 <=> n % 2^w = 0
<1> DEFINE m == 2^w
<1>1. m \in Nat \ {0} /\ 2^(w - 1) \in Nat \ {0}
  BY PowerIs, SMT
<1>2. 0 \in Ints(w)
  BY <1>1, SMT DEF Ints
<1>3. Signed(0, w) = 0
  BY <1>2, SignedSame
<1>4. ASSUME Signed(n, w) = 0 PROVE n % 2^w = 0
  <2>1. PICK q \in Int : n = (2^w * q) + 0
    BY <1>4, SignedOf
  <2>2. 0 \in 0 .. m - 1
    BY <1>1, SMT
  <2> QED
    BY <1>1, <2>1, <2>2, RemainderIs, Zenon
<1>5. ASSUME n % 2^w = 0 PROVE Signed(n, w) = 0
  <2>1. n = (m * (n \div m)) + 0 /\ n \div m \in Int
    BY <1>1, <1>5, Remainder, Zenon
  <2> QED
    BY <1>2, <2>1, SignedIs, Zenon
<1> QED
  BY <1>2, <1>3, <1>4, <1>5

\* An integer of b bits, at least c, keeps apart what c bits can hold: read as one of c
\* bits again, whatever it took is what it was given.
LEMMA SignedBack ==
  ASSUME NEW c \in Nat \ {0}, NEW b \in Nat, c <= b, NEW n \in Ints(c),
         NEW x \in Int, NEW q \in Int, n = (2^b * q) + x
  PROVE  Signed(x, c) = n
<1>1. PICK k \in Nat \ {0} : 2^b = 2^c * k
  BY PowerDivides
<1>2. 2^c \in Nat \ {0} /\ 2^(c - 1) \in Nat
  BY PowerIs, SMT
<1>3. n \in Int
  BY <1>2, SMT DEF Ints
<1> DEFINE m == 2^c
<1>4. n = ((m * k) * q) + x
  BY <1>1
<1> HIDE DEF m
<1>5. -(k * q) \in Int /\ m \in Nat
  BY <1>2, SMT DEF m
<1>6. (m * k) * q = m * (k * q)
  BY <1>5, SMT
<1>7. m * (-(k * q)) = -(m * (k * q))
  <2>1. k * q \in Int
    BY SMT
  <2> QED
    BY <1>5, <2>1, SMT
<1>8. x = (m * (-(k * q))) + n
  <2>1. k * q \in Int /\ m * (k * q) \in Int
    BY <1>5, SMT
  <2> QED
    BY <1>3, <1>4, <1>5, <1>6, <1>7, <2>1, SMT
<1> QED
  BY <1>3, <1>5, <1>8, SignedIs, Zenon DEF m

-----------------------------------------------------------------------------
(* Responses.                                                              *)

\* The fields with a tag and of a kind the filters look for.
Fitting(tag, kinds) == {i \in DOMAIN shape : shape[i].tag = tag /\ shape[i].kind \in kinds}

\* A shape is a sequence of fields of three kinds, with widths the constant allows.
LEMMA ShapeIs ==
  ASSUME shape \in Shape
  PROVE  /\ \E n \in Nat : DOMAIN shape = 1 .. n
         /\ \A i \in DOMAIN shape :
              /\ shape[i].kind \in {"int", "uint", "string"}
              /\ shape[i].kind # "string" => shape[i].bits \in FieldBits
<1>1. PICK n \in 0 .. MaxFields : shape \in [1 .. n -> Field]
  BY Zenon DEF Shape
<1>2. n \in Nat /\ DOMAIN shape = 1 .. n
  BY <1>1, ErrAssumption, SMT
<1>3. ASSUME NEW i \in DOMAIN shape
      PROVE  /\ shape[i].kind \in {"int", "uint", "string"}
             /\ shape[i].kind # "string" => shape[i].bits \in FieldBits
  <2>1. shape[i] \in Field
    BY <1>1, <1>2, <1>3
  <2> QED
    BY <2>1 DEF Field
<1> QED
  BY <1>2, <1>3

\* FirstField finds one if there is one.
LEMMA FirstFieldFits ==
  ASSUME shape \in Shape, NEW tag, NEW kinds
  PROVE  IF Fitting(tag, kinds) = {} THEN FirstField(tag, kinds) = 0
         ELSE FirstField(tag, kinds) \in Fitting(tag, kinds) /\ FirstField(tag, kinds) # 0
<1> DEFINE fits == Fitting(tag, kinds)
<1>1. FirstField(tag, kinds)
        = IF fits = {} THEN 0 ELSE CHOOSE i \in fits : \A j \in fits : i <= j
  BY Zenon DEF FirstField, Fitting
<1>2. \A i \in fits : i \in Nat \ {0}
  <2>1. PICK n \in Nat : DOMAIN shape = 1 .. n
    BY ShapeIs
  <2> QED
    BY <2>1, SMT DEF Fitting
<1> HIDE DEF fits
<1>3. CASE fits = {}
  BY <1>1, <1>3 DEF fits
<1>4. CASE fits # {}
  <2>1. fits \subseteq Nat
    BY <1>2
  <2>2. \E i \in fits : \A j \in fits : i <= j
    BY <1>4, <2>1, LeastNat, Zenon
  <2>3. (CHOOSE i \in fits : \A j \in fits : i <= j) \in fits
    BY <2>2, Zenon
  <2>4. FirstField(tag, kinds) \in fits
    BY <1>1, <1>4, <2>3, Zenon
  <2> QED
    BY <1>2, <1>4, <2>4 DEF fits
<1> QED
  BY <1>3, <1>4

\* The fields for the code and for the message.
LEMMA FieldsAre ==
  ASSUME shape \in Shape
  PROVE  /\ CodeField # 0 => CodeField \in DOMAIN shape /\ shape[CodeField].kind \in {"int", "uint"}
         /\ MsgField # 0 => MsgField \in DOMAIN shape /\ shape[MsgField].kind = "string"
         /\ CodeField # 0 => MsgField # CodeField
<1>1. CodeField # 0 => CodeField \in Fitting("code", {"int", "uint"})
  BY FirstFieldFits, Zenon DEF CodeField
<1>2. MsgField # 0 => MsgField \in Fitting("msg", {"string"})
  BY FirstFieldFits, Zenon DEF MsgField
<1>3. CodeField # 0 => CodeField \in DOMAIN shape /\ shape[CodeField].kind \in {"int", "uint"}
  BY <1>1 DEF Fitting
<1>4. MsgField # 0 => MsgField \in DOMAIN shape /\ shape[MsgField].kind = "string"
  BY <1>2 DEF Fitting
<1> QED
  BY <1>3, <1>4

\* The widths of fields.
LEMMA WidthIs ==
  ASSUME NEW w \in FieldBits
  PROVE  /\ w \in Nat \ {0} /\ w <= WideBits /\ w - 1 \in Nat \ {0}
         /\ WideBits \in Nat \ {0} /\ CodeBits \in Nat \ {0}
  BY ErrAssumption, SMT

\* An error's code is a code, and it is not nil.
LEMMA CauseIs ==
  ASSUME NEW e \in Cause
  PROVE  e # NoError /\ e.code \in Code /\ e.code \in Int /\ Message(e) \in Text
<1>1. CodeBits \in Nat \ {0} /\ 2^(CodeBits - 1) \in Nat \ {0}
  BY PowerIs, ErrAssumption, SMT
<1>2. Undefined \in Code /\ \A c \in Code : c \in Int
  BY <1>1, ErrAssumption, SMT DEF Code, Ints
<1>3. e.code \in Code /\ e.kind \in {"direct", "wrapped", "foreign"}
  BY <1>2 DEF Cause
<1>4. Message(e) \in Text
  BY <1>3 DEF Message, Text
<1> QED
  BY <1>2, <1>3, <1>4, NoErrorAssumption

\* A response just allocated.
LEMMA ZeroFits ==
  ASSUME shape \in Shape
  PROVE  Fits(Zero)
<1>1. DOMAIN Zero = DOMAIN shape
  BY DEF Zero
<1>2. ASSUME NEW i \in DOMAIN shape
      PROVE  CASE shape[i].kind = "int"    -> Zero[i] \in Ints(shape[i].bits)
               [] shape[i].kind = "uint"   -> Zero[i] \in Uints(shape[i].bits)
               [] shape[i].kind = "string" -> Zero[i] \in Text
  <2> DEFINE w == shape[i].bits
  <2>1. Zero[i] = IF shape[i].kind = "string" THEN "" ELSE 0
    BY <1>2 DEF Zero
  <2>2. CASE shape[i].kind = "string"
    BY <2>1, <2>2 DEF Text
  <2>3. CASE shape[i].kind # "string"
    <3>1. w \in Nat \ {0} /\ 2^w \in Nat \ {0}
      BY <1>2, <2>3, ShapeIs, WidthIs, PowerIs
    <3>2. 0 \in Ints(w) /\ 0 \in Uints(w)
      <4>1. 0 \in Ints(w)
        BY <3>1, SignedZero
      <4> QED
        BY <3>1, <4>1, SMT DEF Uints
    <3>3. Zero[i] = 0
      BY <2>1, <2>3
    <3> QED
      BY <1>2, <2>3, <3>2, <3>3, ShapeIs
  <2> QED
    BY <2>2, <2>3
<1> QED
  BY <1>1, <1>2, Zenon DEF Fits

\* What the server's filter makes of a response.
Converted ==
  [i \in DOMAIN shape |-> CASE i = CodeField -> Set(i, cause.code)
                            [] i = MsgField -> Message(cause)
                            [] OTHER -> Zero[i]]

\* A code cut down to a field.
LEMMA SetFits ==
  ASSUME shape \in Shape, NEW i \in DOMAIN shape, shape[i].kind \in {"int", "uint"},
         NEW code \in Int
  PROVE  /\ shape[i].kind = "int" => Set(i, code) \in Ints(shape[i].bits)
         /\ shape[i].kind = "uint" => Set(i, code) \in Uints(shape[i].bits)
         /\ Set(i, code) \in Int
         /\ \E q \in Int : code = (2^shape[i].bits * q) + Set(i, code)
<1> DEFINE w == shape[i].bits
<1>1. w \in Nat \ {0} /\ 2^w \in Nat \ {0}
  BY ShapeIs, WidthIs, PowerIs
<1>2. CASE shape[i].kind = "int"
  <2>1. Set(i, code) = Signed(code, w)
    BY <1>2 DEF Set
  <2>2. Signed(code, w) \in Ints(w) /\ \E q \in Int : code = (2^w * q) + Signed(code, w)
    BY <1>1, SignedOf
  <2>3. Signed(code, w) \in Int
    <3>1. 2^(w - 1) \in Nat
      BY <1>1, PowerIs, SMT
    <3> QED
      BY <2>2, <3>1, SMT DEF Ints
  <2> QED
    BY <1>2, <2>1, <2>2, <2>3
<1>3. CASE shape[i].kind = "uint"
  <2>1. Set(i, code) = code % 2^w
    BY <1>3 DEF Set, Unsigned
  <2>2. /\ code % 2^w \in 0 .. 2^w - 1 /\ code \div 2^w \in Int
        /\ code = (2^w * (code \div 2^w)) + (code % 2^w)
    BY <1>1, Remainder, Zenon
  <2>3. code % 2^w \in Int
    BY <1>1, <2>2, SMT
  <2> QED
    BY <1>3, <2>1, <2>2, <2>3, Zenon DEF Uints
<1> QED
  BY <1>2, <1>3

\* It becomes zero only if the bits that fit are all zero.
LEMMA SetZero ==
  ASSUME shape \in Shape, NEW i \in DOMAIN shape, shape[i].kind \in {"int", "uint"},
         NEW code \in Int
  PROVE  Set(i, code) = 0 <=> code % 2^shape[i].bits = 0
<1>1. shape[i].bits \in Nat \ {0}
  BY ShapeIs, WidthIs
<1>2. CASE shape[i].kind = "int"
  BY <1>1, <1>2, SignedZero DEF Set
<1>3. CASE shape[i].kind = "uint"
  BY <1>3 DEF Set, Unsigned
<1> QED
  BY <1>2, <1>3

\* The response serverFilter fills in has values its fields can hold.
LEMMA ConvertedFits ==
  ASSUME shape \in Shape, cause \in Cause, CodeField # 0
  PROVE  /\ Fits(Converted) /\ Converted # <<>>
         /\ Converted[CodeField] = Set(CodeField, cause.code)
         /\ MsgField # 0 => Converted[MsgField] = Message(cause)
<1>1. DOMAIN Converted = DOMAIN shape
  BY DEF Converted
<1>2. /\ CodeField \in DOMAIN shape /\ shape[CodeField].kind \in {"int", "uint"}
      /\ MsgField # 0 => MsgField \in DOMAIN shape /\ shape[MsgField].kind = "string"
      /\ MsgField # CodeField
  BY FieldsAre
<1>3. \A i \in DOMAIN shape :
        /\ i = CodeField => Converted[i] = Set(i, cause.code)
        /\ i = MsgField => Converted[i] = Message(cause)
        /\ i # CodeField /\ i # MsgField => Converted[i] = Zero[i]
  BY <1>2 DEF Converted
<1>4. ASSUME NEW i \in DOMAIN shape
      PROVE  CASE shape[i].kind = "int"    -> Converted[i] \in Ints(shape[i].bits)
               [] shape[i].kind = "uint"   -> Converted[i] \in Uints(shape[i].bits)
               [] shape[i].kind = "string" -> Converted[i] \in Text
  <2>1. CASE i = CodeField
    <3>1. cause.code \in Int
      BY CauseIs
    <3> QED
      BY <1>2, <1>3, <1>4, <2>1, <3>1, SetFits
  <2>2. CASE i = MsgField
    <3>1. shape[i].kind = "string" /\ Converted[i] = Message(cause)
      <4>1. MsgField # 0
        <5>1. PICK n \in Nat : DOMAIN shape = 1 .. n
          BY ShapeIs
        <5> QED
          BY <1>4, <2>2, <5>1, SMT
      <4> QED
        BY <1>2, <1>3, <1>4, <2>2, <4>1
    <3>2. Converted[i] \in Text
      BY <3>1, CauseIs
    <3> QED
      BY <3>1, <3>2
  <2>3. CASE i # CodeField /\ i # MsgField
    BY <1>3, <1>4, <2>3, ZeroFits DEF Fits
  <2> QED
    BY <2>1, <2>2, <2>3
<1>5. Converted # <<>>
  BY <1>1, <1>2
<1> QED
  BY <1>1, <1>2, <1>3, <1>4, <1>5 DEF Fits

-----------------------------------------------------------------------------
(* The call.                                                               *)

\* What the client's filter makes of a response.
Read == IF GetCode = 0 THEN NoError
        ELSE [code |-> Signed(GetCode, CodeBits),
              msg  |-> IF MsgField = 0 THEN "" ELSE rsp[MsgField]]

\* The error of the handler went into the response, or it could not.
Answered == cause # NoError /\ setter # "sets" /\ CodeField # 0
Failed == cause # NoError /\ (setter = "sets" \/ CodeField = 0)

\* What the framework tells the client of an error that left the server.
Framework == IF cause.code = 0 THEN NoError ELSE [code |-> cause.code, msg |-> "framework"]

\* Response and error, before the client's filter and after it.
Outcome ==
  /\ cause = NoError => err = NoError /\ (phase \in {"arrived", "done"} => Fits(rsp))
  /\ Answered /\ phase # "handled" => err = NoError /\ rsp = Converted
  /\ Failed /\ phase # "handled" => err = cause /\ rsp = Zero
  /\ phase \in {"handled", "served"} => seen = NoError
  /\ phase = "handled" => err = NoError
  /\ Failed /\ phase \in {"arrived", "done"} => seen = Framework
  /\ ~Failed /\ phase = "arrived" => seen = NoError
  /\ ~Failed /\ phase = "done" => seen = Read

ErrIInv == TypeOK /\ Outcome

\* What a response that fits its shape is read as.
LEMMA ReadIs ==
  ASSUME shape \in Shape, Fits(rsp)
  PROVE  /\ Read \in Seen \cup {NoError} /\ GetCode \in Int
         /\ GetCode = 0 <=> CodeField = 0 \/ rsp[CodeField] = 0
         /\ Read = NoError <=> GetCode = 0
         /\ CodeField # 0 => /\ rsp[CodeField] \in Int
                             /\ \E q \in Int : rsp[CodeField] = (2^WideBits * q) + GetCode
<1> DEFINE w == shape[CodeField].bits
           x == rsp[CodeField]
<1>0. WideBits \in Nat \ {0} /\ CodeBits \in Nat \ {0} /\ 2^WideBits \in Nat \ {0}
  <2>1. WideBits \in Nat \ {0} /\ CodeBits \in Nat \ {0}
    BY ErrAssumption, SMT
  <2> QED
    BY <2>1, PowerIs
<1>1. ASSUME CodeField # 0
      PROVE  /\ x \in Int /\ GetCode \in Int
             /\ GetCode = 0 <=> x = 0
             /\ \E q \in Int : x = (2^WideBits * q) + GetCode
  <2>1. CodeField \in DOMAIN shape /\ shape[CodeField].kind \in {"int", "uint"}
    BY <1>1, FieldsAre
  <2>2. w \in Nat \ {0} /\ w <= WideBits /\ 2^w \in Nat \ {0} /\ 2^(w - 1) \in Nat
    <3>1. w \in FieldBits
      BY <2>1, ShapeIs
    <3>2. w \in Nat \ {0} /\ w <= WideBits /\ w - 1 \in Nat
      BY <3>1, WidthIs
    <3> QED
      BY <3>2, PowerIs
  <2>3. CASE shape[CodeField].kind = "int"
    <3>1. GetCode = x
      BY <1>1, <2>3 DEF GetCode
    <3>2. x \in Int
      <4>1. x \in Ints(w)
        BY <2>1, <2>3 DEF Fits
      <4> QED
        BY <2>2, <4>1, SMT DEF Ints
    <3>3. x = (2^WideBits * 0) + x
      <4> HIDE DEF x
      <4> QED
        BY <1>0, <3>2, SMT
    <3>4. 0 \in Int
      BY SMT
    <3>5. \E q \in Int : x = (2^WideBits * q) + GetCode
      BY <3>1, <3>3, <3>4, Zenon
    <3> QED
      BY <3>1, <3>2, <3>5, Zenon
  <2>4. CASE shape[CodeField].kind = "uint"
    <3>1. GetCode = Signed(x, WideBits)
      BY <1>1, <2>4 DEF GetCode
    <3>2. x \in 0 .. 2^w - 1
      BY <2>1, <2>4 DEF Fits, Uints
    <3>3. PICK k \in Nat \ {0} : 2^WideBits = 2^w * k
      BY <1>0, <2>2, PowerDivides
    <3>4. x \in Int /\ x \in 0 .. 2^WideBits - 1
      <4> DEFINE m == 2^w
                 M == 2^WideBits
      <4>1. m \in Nat \ {0} /\ M = m * k /\ x \in 0 .. m - 1 /\ M \in Nat
        BY <1>0, <2>2, <3>2, <3>3
      <4> HIDE DEF m, M, x
      <4>2. m * k = m + m * (k - 1) /\ m * (k - 1) \in Nat
        BY <4>1, SMT
      <4>3. m <= M
        BY <4>1, <4>2, SMT
      <4>4. x \in Int /\ x \in 0 .. M - 1
        BY <4>1, <4>3, SMT
      <4> QED
        BY <4>4 DEF M
    <3>5. Signed(x, WideBits) = 0 <=> x % 2^WideBits = 0
      BY <1>0, <3>4, SignedZero
    <3>6. x % 2^WideBits = x
      <4>1. 0 \in Int /\ x = (2^WideBits * 0) + x
        <5> HIDE DEF x
        <5> QED
          BY <1>0, <3>4, SMT
      <4> QED
        BY <1>0, <3>4, <4>1, RemainderIs, Zenon
    <3>7. /\ Signed(x, WideBits) \in Ints(WideBits)
          /\ \E q \in Int : x = (2^WideBits * q) + Signed(x, WideBits)
      BY <1>0, <3>4, SignedOf
    <3>8. Signed(x, WideBits) \in Int
      <4>1. 2^(WideBits - 1) \in Nat
        BY <1>0, PowerIs, SMT
      <4> QED
        BY <3>7, <4>1, SMT DEF Ints
    <3> QED
      BY <3>1, <3>4, <3>5, <3>6, <3>7, <3>8, Zenon
  <2> QED
    BY <2>1, <2>3, <2>4
<1>2. GetCode \in Int /\ (GetCode = 0 <=> CodeField = 0 \/ x = 0)
  <2>1. CodeField = 0 => GetCode = 0
    BY DEF GetCode
  <2> QED
    BY <1>1, <2>1
<1>3. ASSUME GetCode # 0 PROVE Read \in Seen
  <2>1. Signed(GetCode, CodeBits) \in Code
    BY <1>0, <1>2, SignedOf DEF Code
  <2>2. (IF MsgField = 0 THEN "" ELSE rsp[MsgField]) \in Text
    <3>1. CASE MsgField = 0
      BY <3>1 DEF Text
    <3>2. CASE MsgField # 0
      <4>1. MsgField \in DOMAIN shape /\ shape[MsgField].kind = "string"
        BY <3>2, FieldsAre
      <4>2. rsp[MsgField] \in Text
        BY <4>1 DEF Fits
      <4> QED
        BY <3>2, <4>2
    <3> QED
      BY <3>1, <3>2
  <2> QED
    BY <1>3, <2>1, <2>2, Zenon DEF Read, Seen
<1>4. GetCode = 0 => Read = NoError
  BY DEF Read
<1>5. NoError \notin Seen
  BY NoErrorAssumption
<1> QED
  BY <1>1, <1>2, <1>3, <1>4, <1>5, Zenon

\* Before the handler returns the invariant holds.
LEMMA ErrInitInvariant == Init => ErrIInv
<1> SUFFICES ASSUME Init PROVE ErrIInv
  OBVIOUS
<1>1. /\ phase = "handled" /\ shape \in Shape /\ setter \in {"none", "declines", "sets"}
      /\ cause \in Cause \cup {NoError} /\ err = NoError /\ seen = NoError
  BY DEF Init
<1>2. rsp # <<>> => Fits(rsp)
  <2>1. Fits(Zero)
    BY <1>1, ZeroFits
  <2>2. ASSUME CodeField # 0, rsp = [Zero EXCEPT ![CodeField] = 1]
        PROVE  Fits(rsp)
    <3> DEFINE w == shape[CodeField].bits
    <3>1. CodeField \in DOMAIN shape /\ shape[CodeField].kind \in {"int", "uint"}
      BY <1>1, <2>2, FieldsAre
    <3>2. 1 \in Ints(w) /\ 1 \in Uints(w)
      <4>1. w \in FieldBits
        BY <1>1, <3>1, ShapeIs
      <4>2. w \in Nat \ {0} /\ w - 1 \in Nat \ {0} /\ w > 0 /\ w - 1 > 0
        BY <4>1, WidthIs, SMT
      <4>3. /\ 2^w = 2 * 2^(w - 1) /\ 2^(w - 1) = 2 * 2^((w - 1) - 1)
            /\ 2^((w - 1) - 1) \in Nat \ {0}
        BY <4>2, PowerIs
      <4> QED
        BY <4>3, SMT DEF Ints, Uints
    <3>3. /\ DOMAIN rsp = DOMAIN shape /\ rsp[CodeField] = 1
          /\ \A i \in DOMAIN shape : i # CodeField => rsp[i] = Zero[i]
      BY <2>1, <2>2, <3>1 DEF Fits
    <3>4. ASSUME NEW i \in DOMAIN shape
          PROVE  CASE shape[i].kind = "int"    -> rsp[i] \in Ints(shape[i].bits)
                   [] shape[i].kind = "uint"   -> rsp[i] \in Uints(shape[i].bits)
                   [] shape[i].kind = "string" -> rsp[i] \in Text
      <4>1. CASE i = CodeField
        BY <3>1, <3>2, <3>3, <4>1
      <4>2. CASE i # CodeField
        <5>1. rsp[i] = Zero[i]
          BY <3>3, <3>4, <4>2
        <5> QED
          BY <2>1, <3>4, <5>1 DEF Fits
      <4> QED
        BY <4>1, <4>2
    <3> QED
      BY <3>3, <3>4, Zenon DEF Fits
  <2> QED
    BY <2>1, <2>2 DEF Init
<1>3. TypeOK
  BY <1>1, <1>2, Zenon DEF TypeOK
<1>4. Outcome
  BY <1>1 DEF Outcome
<1> QED
  BY <1>3, <1>4 DEF ErrIInv

\* The shape of the response, the error of the handler and what is made of them.
LEMMA SameCall ==
  ASSUME UNCHANGED <<shape, setter, cause>>
  PROVE  /\ shape' = shape /\ setter' = setter /\ cause' = cause
         /\ CodeField' = CodeField /\ MsgField' = MsgField /\ Zero' = Zero
         /\ Converted' = Converted /\ Framework' = Framework
         /\ Answered' <=> Answered
         /\ Failed' <=> Failed
<1>1. shape' = shape /\ setter' = setter /\ cause' = cause
  OBVIOUS
<1>2. CodeField' = CodeField /\ MsgField' = MsgField
  <2> DEFINE First(S) == IF S = {} THEN 0 ELSE CHOOSE i \in S : \A j \in S : i <= j
  <2>1. /\ CodeField = First(Fitting("code", {"int", "uint"}))
        /\ MsgField = First(Fitting("msg", {"string"}))
        /\ CodeField' = First(Fitting("code", {"int", "uint"})')
        /\ MsgField' = First(Fitting("msg", {"string"})')
    BY Zenon DEF CodeField, MsgField, FirstField, Fitting
  <2>2. \A tag, kinds : Fitting(tag, kinds)' = Fitting(tag, kinds)
    BY <1>1, Zenon DEF Fitting
  <2> HIDE DEF First
  <2> QED
    BY <2>1, <2>2, Zenon
<1>3. Zero' = Zero
  BY <1>1, Zenon DEF Zero
<1>4. Converted' = Converted
  <2>1. \A i, code : Set(i, code)' = Set(i, code)
    BY <1>1, Zenon DEF Set
  <2>2. Set(CodeField, cause.code)' = Set(CodeField, cause.code)
    BY <1>1, <1>2, Zenon DEF Set
  <2> QED
    BY <1>1, <1>2, <1>3, <2>1, <2>2, SMT DEF Converted, Set
<1>5. Framework' = Framework
  BY <1>1, Zenon DEF Framework
<1>6. (Answered' <=> Answered) /\ (Failed' <=> Failed)
  BY <1>1, <1>2, Zenon DEF Answered, Failed
<1> QED
  BY <1>1, <1>2, <1>3, <1>4, <1>5, <1>6

\* The server filter leaves the error as it is or in the response (err_to_code_filter.go).
LEMMA ServerFilterStep ==
  ASSUME ErrIInv, ServerFilter
  PROVE  ErrIInv'
<1> USE DEF ErrIInv
<1>1. /\ phase = "handled" /\ phase' = "served" /\ seen' = seen
      /\ UNCHANGED <<shape, setter, cause>>
  BY DEF ServerFilter
<1>2. /\ shape' = shape /\ setter' = setter /\ cause' = cause
      /\ Zero' = Zero /\ Converted' = Converted
      /\ Answered' <=> Answered
      /\ Failed' <=> Failed
  BY <1>1, SameCall
<1>3. shape \in Shape /\ seen = NoError /\ err = NoError /\ (rsp # <<>> => Fits(rsp))
  BY <1>1 DEF TypeOK, Outcome
<1>4. Fits(rsp)' <=> Fits(rsp')
  BY <1>2, Zenon DEF Fits
<1>5. CASE cause = NoError
  <2>1. rsp' = rsp /\ err' = err /\ ~Answered /\ ~Failed
    BY <1>5 DEF ServerFilter, Answered, Failed
  <2>2. TypeOK'
    BY <1>1, <1>2, <1>4, <2>1, Zenon DEF TypeOK
  <2>3. Outcome'
    BY <1>1, <1>2, <1>3, <1>5, <2>1 DEF Outcome
  <2> QED
    BY <2>2, <2>3
<1>6. CASE Failed
  <2>1. rsp' = Zero /\ err' = cause /\ cause # NoError /\ ~Answered
    BY <1>6 DEF ServerFilter, Failed, Answered
  <2>2. Fits(rsp)'
    BY <1>3, <1>4, <2>1, ZeroFits, Zenon
  <2>3. TypeOK'
    <3>1. err' \in {cause', NoError}
      BY <1>2, <2>1
    <3> QED
      BY <1>1, <1>2, <2>2, <3>1, Zenon DEF TypeOK
  <2>4. Outcome'
    BY <1>1, <1>2, <1>3, <1>6, <2>1 DEF Outcome
  <2> QED
    BY <2>3, <2>4
<1>7. CASE Answered
  <2>1. rsp' = Converted /\ err' = err /\ cause # NoError /\ ~Failed /\ CodeField # 0
    BY <1>7, Zenon DEF ServerFilter, Failed, Answered, Converted
  <2>2. cause \in Cause
    BY <2>1 DEF TypeOK
  <2>3. Fits(rsp)'
    BY <1>3, <1>4, <2>1, <2>2, ConvertedFits, Zenon
  <2>4. TypeOK'
    BY <1>1, <1>2, <2>1, <2>3, Zenon DEF TypeOK
  <2>5. Outcome'
    BY <1>1, <1>2, <1>3, <1>7, <2>1 DEF Outcome
  <2> QED
    BY <2>4, <2>5
<1> QED
  BY <1>5, <1>6, <1>7 DEF Failed, Answered

\* What is on the wire is the response and what trpc makes of the error.
LEMMA TransportStep ==
  ASSUME ErrIInv, Transport
  PROVE  ErrIInv'
<1> USE DEF ErrIInv
<1>1. /\ phase = "served" /\ phase' = "arrived" /\ err' = err
      /\ UNCHANGED <<shape, setter, cause>>
  BY DEF Transport
<1>2. /\ shape' = shape /\ setter' = setter /\ cause' = cause
      /\ Zero' = Zero /\ Converted' = Converted /\ Framework' = Framework
      /\ Answered' <=> Answered
      /\ Failed' <=> Failed
  BY <1>1, SameCall
<1>3. shape \in Shape /\ seen = NoError /\ (rsp # <<>> => Fits(rsp)) /\ Fits(Zero)
  BY <1>1, ZeroFits DEF TypeOK, Outcome
<1>4. Fits(rsp)' <=> Fits(rsp')
  BY <1>2, Zenon DEF Fits
<1>5. CASE ~Failed
  <2>1. err = NoError
    BY <1>1, <1>5 DEF Outcome, Answered, Failed
  <2>2. rsp' = (IF rsp = <<>> THEN Zero ELSE rsp) /\ seen' = seen
    BY <2>1 DEF Transport
  <2>3. Fits(rsp)'
    <3>1. Fits(rsp')
      BY <1>3, <2>2
    <3> QED
      BY <1>4, <3>1, Zenon
  <2>4. TypeOK'
    BY <1>1, <1>2, <2>2, <2>3, Zenon DEF TypeOK
  <2>5. Answered => rsp' = Converted
    <3> SUFFICES ASSUME Answered PROVE rsp' = Converted
      OBVIOUS
    <3>1. rsp = Converted
      BY <1>1 DEF Outcome
    <3>2. cause \in Cause /\ CodeField # 0
      BY DEF Answered, TypeOK
    <3>3. Converted # <<>>
      BY <1>3, <3>2, ConvertedFits
    <3> QED
      BY <2>2, <3>1, <3>3
  <2>6. Outcome'
    BY <1>1, <1>2, <1>3, <1>5, <2>1, <2>2, <2>3, <2>5 DEF Outcome
  <2> QED
    BY <2>4, <2>6
<1>6. CASE Failed
  <2>1. err = cause /\ cause # NoError /\ cause \in Cause /\ ~Answered
    BY <1>1, <1>6 DEF Outcome, Failed, Answered, TypeOK
  <2>2. rsp' = Zero /\ seen' = Framework
    BY <2>1, Zenon DEF Transport, Framework
  <2>3. Framework \in Seen \cup {NoError}
    <3>1. cause.code \in Code /\ "framework" \in Text
      BY <2>1, CauseIs DEF Text
    <3> QED
      BY <3>1 DEF Framework, Seen
  <2>4. TypeOK'
    <3>1. rsp' # <<>> => Fits(rsp)'
      BY <1>3, <1>4, <2>2, Zenon
    <3>2. seen' \in Seen \cup {NoError}
      BY <2>2, <2>3
    <3> QED
      BY <1>1, <1>2, <3>1, <3>2, Zenon DEF TypeOK
  <2>5. Outcome'
    BY <1>1, <1>2, <1>6, <2>1, <2>2 DEF Outcome
  <2> QED
    BY <2>4, <2>5
<1> QED
  BY <1>5, <1>6

\* Of a response just allocated no error is made.
LEMMA ZeroReadsAsNone ==
  ASSUME shape \in Shape, rsp = Zero
  PROVE  GetCode = 0
<1>1. CodeField # 0 => rsp[CodeField] = 0
  BY FieldsAre DEF Zero
<1>2. Fits(rsp)
  BY ZeroFits
<1> QED
  BY <1>1, <1>2, ReadIs

\* The client filter finds in the response what the server filter put there.
LEMMA ClientFilterStep ==
  ASSUME ErrIInv, ClientFilter
  PROVE  ErrIInv'
<1> USE DEF ErrIInv
<1>1. /\ phase = "arrived" /\ phase' = "done" /\ err' = err /\ rsp' = rsp
      /\ UNCHANGED <<shape, setter, cause>>
      /\ seen' = IF seen # NoError \/ GetCode = 0 THEN seen ELSE Read
  BY Zenon DEF ClientFilter, Read
<1>2. /\ shape' = shape /\ setter' = setter /\ cause' = cause
      /\ Zero' = Zero /\ Converted' = Converted /\ Framework' = Framework
      /\ CodeField' = CodeField /\ MsgField' = MsgField
      /\ Answered' <=> Answered
      /\ Failed' <=> Failed
  BY <1>1, SameCall
<1>3. shape \in Shape /\ Fits(Zero) /\ (rsp # <<>> => Fits(rsp))
  BY <1>1, ZeroFits DEF TypeOK
<1>4. Fits(rsp)' <=> Fits(rsp')
  BY <1>2, Zenon DEF Fits
<1>5. Read' = Read
  BY <1>1, <1>2, Zenon DEF Read, GetCode
<1>6. Fits(rsp)
  <2>1. CASE cause = NoError
    BY <1>1, <2>1 DEF Outcome
  <2>2. CASE Answered
    <3>1. rsp = Converted /\ cause \in Cause /\ CodeField # 0
      BY <1>1, <2>2 DEF Outcome, Answered, TypeOK
    <3> QED
      BY <1>3, <3>1, ConvertedFits
  <2>3. CASE Failed
    BY <1>1, <1>3, <2>3 DEF Outcome
  <2> QED
    BY <2>1, <2>2, <2>3 DEF Answered, Failed
<1>7. Read \in Seen \cup {NoError} /\ (Read = NoError <=> GetCode = 0)
  BY <1>3, <1>6, ReadIs
<1>8. TypeOK'
  <2>1. seen' \in Seen \cup {NoError}
    BY <1>1, <1>7 DEF TypeOK
  <2> QED
    BY <1>1, <1>2, <1>4, <2>1, Zenon DEF TypeOK
<1>9. Failed => seen' = Framework
  <2>1. Failed => GetCode = 0
    BY <1>1, <1>3, ZeroReadsAsNone DEF Outcome
  <2> QED
    BY <1>1, <2>1 DEF Outcome
<1>10. ~Failed => seen' = Read
  BY <1>1, <1>7 DEF Outcome
<1>11. Outcome'
  <2>1. cause' = NoError => err' = NoError /\ Fits(rsp)'
    BY <1>1, <1>2, <1>4, <1>6, Zenon DEF Outcome
  <2>2. /\ Answered' => err' = NoError /\ rsp' = Converted'
        /\ Failed' => err' = cause' /\ rsp' = Zero'
    BY <1>1, <1>2 DEF Outcome
  <2> QED
    BY <1>1, <1>2, <1>5, <1>9, <1>10, <2>1, <2>2 DEF Outcome
<1> QED
  BY <1>8, <1>11

\* Every action keeps the invariant.
LEMMA ErrStepInvariant == ErrIInv /\ [Next]_vars => ErrIInv'
<1> SUFFICES ASSUME ErrIInv, [Next]_vars PROVE ErrIInv'
  OBVIOUS
<1>1. CASE UNCHANGED vars
  <2>1. /\ UNCHANGED <<shape, setter, cause>>
        /\ phase' = phase /\ rsp' = rsp /\ err' = err /\ seen' = seen
    BY <1>1 DEF vars
  <2>2. /\ shape' = shape /\ setter' = setter /\ cause' = cause
        /\ Zero' = Zero /\ Converted' = Converted /\ Framework' = Framework
        /\ CodeField' = CodeField /\ MsgField' = MsgField
        /\ Answered' <=> Answered
        /\ Failed' <=> Failed
    BY <2>1, SameCall
  <2>3. (Fits(rsp)' <=> Fits(rsp)) /\ Read' = Read
    BY <2>1, <2>2, Zenon DEF Fits, Read, GetCode
  <2>4. TypeOK'
    BY <2>1, <2>2, <2>3, Zenon DEF ErrIInv, TypeOK
  <2>5. Outcome'
    <3>1. Fits(rsp)' <=> Fits(rsp)
      BY <2>1, <2>3, Zenon
    <3> QED
      BY <2>1, <2>2, <2>3, <3>1 DEF ErrIInv, Outcome
  <2> QED
    BY <2>4, <2>5 DEF ErrIInv
<1> QED
  BY <1>1, ServerFilterStep, TransportStep, ClientFilterStep DEF Next

-----------------------------------------------------------------------------
(* The theorems about ErrToCode.                                           *)

\* At every stage of a call the response and the error are what the filters make of the
\* handler's.
THEOREM ErrInvariance == Spec => []ErrIInv
  BY ErrInitInvariant, ErrStepInvariant, PTL DEF Spec

\* Every variable keeps its type: no field holds more than its width.
THEOREM TypeCorrect == Spec => []TypeOK
<1>1. ErrIInv => TypeOK
  BY DEF ErrIInv
<1> QED
  BY <1>1, ErrInvariance, PTL

\* What a field as wide as a code is read as is the code that was written, and is zero
\* only when the code is.
LEMMA WideReadsBack ==
  ASSUME shape \in Shape, CodeField # 0, Wide, NEW code \in Code, Fits(rsp),
         rsp[CodeField] = Set(CodeField, code)
  PROVE  /\ GetCode = 0 <=> code = 0
         /\ Signed(GetCode, CodeBits) = code
<1> DEFINE b == shape[CodeField].bits
           x == rsp[CodeField]
<1>1. CodeField \in DOMAIN shape /\ shape[CodeField].kind \in {"int", "uint"} /\ b \in FieldBits
  BY FieldsAre, ShapeIs
<1>2. /\ b \in Nat \ {0} /\ CodeBits <= b /\ b <= WideBits
      /\ CodeBits \in Nat \ {0} /\ WideBits \in Nat \ {0}
  BY <1>1, WidthIs DEF Wide
<1>3. code \in Int /\ code \in Ints(CodeBits) /\ 2^b \in Nat \ {0}
  <2>1. 2^(CodeBits - 1) \in Nat /\ 2^b \in Nat \ {0}
    BY <1>2, PowerIs, SMT
  <2> QED
    BY <2>1, SMT DEF Code, Ints
<1>4. x \in Int /\ GetCode \in Int /\ (GetCode = 0 <=> x = 0)
  BY ReadIs
<1>5. PICK q \in Int : code = (2^b * q) + x
  BY <1>1, <1>3, SetFits
<1>6. PICK p \in Int : x = (2^WideBits * p) + GetCode
  BY ReadIs
<1>7. PICK k \in Nat \ {0} : 2^WideBits = 2^b * k
  BY <1>2, PowerDivides
<1>8. q + (k * p) \in Int /\ code = (2^b * (q + (k * p))) + GetCode
  <2> DEFINE m == 2^b
             g == GetCode
  <2>1. /\ m \in Int /\ g \in Int /\ code = (m * q) + x /\ x = ((m * k) * p) + g
        /\ k \in Int /\ k * p \in Int
    BY <1>3, <1>4, <1>5, <1>6, <1>7, SMT
  <2> HIDE DEF m, g, x
  <2>2. (m * k) * p = m * (k * p)
    BY <2>1, SMT
  <2>3. m * (q + (k * p)) = (m * q) + (m * (k * p))
    BY <2>1, SMT
  <2>4. m * q \in Int /\ m * (k * p) \in Int
    BY <2>1, SMT
  <2>5. q + (k * p) \in Int /\ code = (m * (q + (k * p))) + g
    BY <1>3, <2>1, <2>2, <2>3, <2>4, SMT
  <2> QED
    BY <2>5 DEF m, g
<1>9. Signed(GetCode, CodeBits) = code
  <2> DEFINE Q == q + (k * p)
  <2>1. Q \in Int /\ code = (2^b * Q) + GetCode /\ b \in Nat
    BY <1>2, <1>8
  <2> HIDE DEF Q, b
  <2> QED
    BY <1>2, <1>3, <1>4, <2>1, SignedBack
<1>10. code = 0 => x = 0
  <2> SUFFICES ASSUME code = 0 PROVE x = 0
    OBVIOUS
  <2>1. Signed(0, b) = 0
    BY <1>2, <1>3, SignedZero
  <2>2. Signed(0, b) = 0 <=> 0 % 2^b = 0
    BY <1>2, <1>3, SignedZero
  <2> QED
    BY <1>1, <1>3, <2>1, <2>2, SetZero
<1>11. GetCode = 0 => code = 0
  BY <1>2, <1>3, <1>9, SignedZero
<1> QED
  BY <1>4, <1>9, <1>10, <1>11

\* An error that is not told in the fields is told by the framework.
LEMMA FrameworkIs ==
  ASSUME cause \in Cause
  PROVE  /\ Framework = NoError <=> cause.code = 0
         /\ cause.code # 0 => Framework.code = cause.code
<1>1. cause.code \in Code /\ "framework" \in Text
  BY CauseIs DEF Text
<1>2. cause.code # 0 => Framework = [code |-> cause.code, msg |-> "framework"] /\ Framework \in Seen
  BY <1>1 DEF Framework, Seen
<1>3. NoError \notin Seen
  BY NoErrorAssumption
<1> QED
  BY <1>2, <1>3 DEF Framework

\* In fields as wide as a code, signed or not, every error gets to the caller with its code
\* and, when the fields carried it, its message; only the code 0 is taken for success
\* (err_to_code_filter.go:29-33).
THEOREM CodesArrive == Spec => []ErrorCarried
<1>1. ErrIInv => ErrorCarried
  <2> SUFFICES ASSUME ErrIInv, phase = "done", Wide, cause # NoError
               PROVE  IF cause.code = 0 THEN seen = NoError
                      ELSE /\ seen # NoError /\ seen.code = cause.code
                           /\ err = NoError /\ MsgField # 0 => seen.msg = Message(cause)
    BY DEF ErrorCarried
  <2>1. cause \in Cause /\ shape \in Shape
    BY DEF ErrIInv, TypeOK
  <2>2. CASE Failed
    <3>1. seen = Framework /\ err = cause
      BY <2>2 DEF ErrIInv, Outcome
    <3> QED
      BY <2>1, <3>1, FrameworkIs
  <2>3. CASE Answered
    <3>1. seen = Read /\ rsp = Converted /\ CodeField # 0
      BY <2>3 DEF ErrIInv, Outcome, Answered, Failed
    <3>2. /\ Fits(rsp) /\ rsp[CodeField] = Set(CodeField, cause.code)
          /\ MsgField # 0 => rsp[MsgField] = Message(cause)
      BY <2>1, <3>1, ConvertedFits
    <3>3. cause.code \in Code
      BY <2>1, CauseIs
    <3>4. (GetCode = 0 <=> cause.code = 0) /\ Signed(GetCode, CodeBits) = cause.code
      BY <2>1, <3>1, <3>2, <3>3, WideReadsBack
    <3>5. CASE cause.code = 0
      BY <3>1, <3>4, <3>5 DEF Read
    <3>6. CASE cause.code # 0
      <4>1. Read # NoError
        BY <2>1, <3>2, <3>4, <3>6, ReadIs
      <4>2. Read = [code |-> cause.code, msg |-> IF MsgField = 0 THEN "" ELSE rsp[MsgField]]
        BY <3>4, <3>6 DEF Read
      <4> QED
        BY <3>1, <3>2, <3>6, <4>1, <4>2
    <3> QED
      BY <3>5, <3>6
  <2> QED
    BY <2>2, <2>3 DEF Failed, Answered
<1> QED
  BY <1>1, ErrInvariance, PTL

\* Whatever the width of the field, an error is lost only if the bits of its code that fit
\* are all 0 (err_to_code_filter.go:117, 121, 188).
THEOREM OnlyZeroLost == Spec => []OnlyZeroIsLost
<1>1. ErrIInv => OnlyZeroIsLost
  <2> SUFFICES ASSUME ErrIInv, phase = "done", cause # NoError, seen = NoError
               PROVE  \/ cause.code = 0
                      \/ CodeField # 0 /\ cause.code % 2^shape[CodeField].bits = 0
    BY DEF OnlyZeroIsLost
  <2>1. cause \in Cause /\ shape \in Shape
    BY DEF ErrIInv, TypeOK
  <2>2. CASE Failed
    <3>1. seen = Framework
      BY <2>2 DEF ErrIInv, Outcome
    <3> QED
      BY <2>1, <3>1, FrameworkIs
  <2>3. CASE Answered
    <3>1. seen = Read /\ rsp = Converted /\ CodeField # 0
      BY <2>3 DEF ErrIInv, Outcome, Answered, Failed
    <3>2. Fits(rsp) /\ rsp[CodeField] = Set(CodeField, cause.code) /\ cause.code \in Int
      BY <2>1, <3>1, ConvertedFits, CauseIs
    <3>3. rsp[CodeField] = 0
      BY <2>1, <3>1, <3>2, ReadIs
    <3>4. CodeField \in DOMAIN shape /\ shape[CodeField].kind \in {"int", "uint"}
      BY <2>1, <3>1, FieldsAre
    <3> QED
      BY <2>1, <3>1, <3>2, <3>3, <3>4, SetZero
  <2> QED
    BY <2>2, <2>3 DEF Failed, Answered
<1> QED
  BY <1>1, ErrInvariance, PTL

\* A call without an error whose handler left the code field alone is one without an error
\* for the caller, whatever the fields (err_to_code_filter.go:188, 212).
THEOREM NoneInvented == Spec => []NothingInvented
<1>1. ErrIInv => NothingInvented
  <2> SUFFICES ASSUME ErrIInv, phase = "done", cause = NoError
               PROVE  seen # NoError <=> CodeField # 0 /\ rsp[CodeField] # 0
    BY DEF NothingInvented
  <2>1. shape \in Shape /\ Fits(rsp) /\ seen = Read
    BY DEF ErrIInv, TypeOK, Outcome, Failed
  <2> QED
    BY <2>1, ReadIs
<1> QED
  BY <1>1, ErrInvariance, PTL

-----------------------------------------------------------------------------
(* The theorem about LocalCacheTTL.                                        *)

\* The quotient by a second.
LEMMA QuotientIs ==
  ASSUME NEW n \in Nat, NEW q \in Int, q = n \div Second
  PROVE  q \in Nat /\ Second * q <= n /\ n < (Second * q) + Second
<1>1. n \in Int /\ Second \in Nat \ {0}
  BY TtlAssumption, SMT
<1>2. n % Second \in 0 .. Second - 1 /\ n = (Second * q) + (n % Second)
  BY <1>1, Remainder, Zenon
<1> DEFINE r == n % Second
<1>3. r \in 0 .. Second - 1 /\ n = (Second * q) + r
  BY <1>2
<1> HIDE DEF r
<1>4. q >= 0
  <2> SUFFICES ASSUME q <= -1 PROVE FALSE
    BY SMT
  <2>1. Second * q <= -Second
    BY <1>1, SMT
  <2> QED
    BY <1>1, <1>3, <2>1, SMT
<1> QED
  BY <1>1, <1>3, <1>4, SMT

\* Lifetimes are rounded to the nearest second, never to none; the longest ones, within half
\* a second of the end of the range, overflow (localcache_impl.go:113-122).
THEOREM LifetimesRounded == TtlSpec => []TtlRounded
<1> DEFINE M == 2^Bits
           h == 2^(Bits - 1)
<1>1. /\ Second \in Nat \ {0} /\ Half \in Nat \ {0} /\ Second = 2 * Half
      /\ Bits \in Nat \ {0} /\ h \in Nat \ {0} /\ M = 2 * h /\ 4 * Second <= M
  <2>1. Second \in Nat \ {0} /\ Half \in Nat \ {0} /\ Second = 2 * Half
    BY TtlAssumption, SMT DEF Half
  <2>2. Bits # 0
    <3> SUFFICES ASSUME Bits = 0 PROVE FALSE
      OBVIOUS
    <3>1. 2^0 = 1 /\ 2^Bits = 2^0
      BY SMT
    <3> QED
      BY <2>1, <3>1, TtlAssumption, SMT
  <2>3. Bits \in Nat \ {0} /\ Bits > 0
    BY <2>2, TtlAssumption, SMT
  <2> QED
    BY <2>1, <2>3, PowerIs, TtlAssumption, Zenon
<1>2. Duration = -h .. h - 1 /\ \A n : Wrapped(n) = ((n + h) % M) - h
  BY DEF Duration, Wrapped
<1> HIDE DEF M, h
<1>3. TtlInit => TtlRounded
  BY SMT DEF TtlInit, TtlRounded
<1>4. ASSUME NEW d \in Duration, SetWithExpire(d)
      PROVE  TtlRounded'
  <2>0. asked' = d /\ ttl' = DurationToSec(d) /\ d \in Int /\ d \in -h .. h - 1
    BY <1>1, <1>2, <1>4, SMT DEF SetWithExpire
  <2>1. CASE d <= 0
    BY <2>0, <2>1 DEF DurationToSec, TtlRounded
  <2>2. CASE d > 0 /\ d < Second
    <3>1. ttl' = 1
      BY <2>0, <2>2, SMT DEF DurationToSec
    <3>2. d + Half \in Duration
      BY <1>1, <1>2, <2>0, <2>2, SMT
    <3> QED
      BY <1>1, <2>0, <2>2, <3>1, <3>2, SMT DEF TtlRounded
  <2>3. CASE d >= Second
    <3> DEFINE n == d + Half
    <3>1. n \in Nat /\ n >= Second /\ d > 0
      BY <1>1, <2>0, <2>3, SMT
    <3>2. ttl' = Quotient(Wrapped(n))
      BY <1>1, <2>0, <2>3, <3>1, SMT DEF DurationToSec
    <3>3. CASE n \in Duration
      <4>1. Wrapped(n) = n
        <5>1. n + h \in Int /\ n + h \in 0 .. M - 1 /\ n + h = (M * 0) + (n + h) /\ M \in Nat \ {0}
          BY <1>1, <1>2, <3>1, <3>3, SMT
        <5>2. 0 \in Int
          BY SMT
        <5>3. (n + h) % M = n + h
          BY <5>1, <5>2, RemainderIs, Zenon
        <5>4. Wrapped(n) = (n + h) - h
          BY <1>2, <5>3, Zenon
        <5> HIDE DEF n
        <5> QED
          BY <1>1, <3>1, <5>4, SMT
      <4>2. ttl' = n \div Second /\ ttl' \in Int
        BY <1>1, <3>1, <3>2, <4>1, Remainder, SMT DEF Quotient
      <4>3. ttl' \in Nat /\ Second * ttl' <= n /\ n < (Second * ttl') + Second
        BY <3>1, <4>2, QuotientIs
      <4>4. ttl' >= 1
        <5> SUFFICES ASSUME ttl' = 0 PROVE FALSE
          BY <4>3, SMT
        <5>1. Second * ttl' = 0
          BY <1>1, SMT
        <5> QED
          BY <1>1, <3>1, <4>3, <5>1, SMT
      <4>5. ttl' * Second - d \in -Half + 1 .. Half
        <5>1. ttl' * Second = Second * ttl' /\ Second * ttl' \in Int
          BY <1>1, <4>3, SMT
        <5> QED
          BY <1>1, <2>0, <4>3, <5>1, SMT
      <4> QED
        BY <2>0, <3>1, <3>3, <4>4, <4>5, SMT DEF TtlRounded
    <3>4. CASE n \notin Duration
      <4>1. n > h - 1
        BY <1>1, <1>2, <3>1, <3>4, SMT
      <4>2. Wrapped(n) = n - M /\ -(n - M) \in Nat /\ -(n - M) >= Second
        <5>1. /\ n + h \in Int /\ (n + h) - M \in 0 .. M - 1 /\ M \in Nat \ {0}
              /\ n + h = (M * 1) + ((n + h) - M)
          BY <1>1, <2>0, <3>1, <4>1, SMT
        <5>2. 1 \in Int
          BY SMT
        <5>3. (n + h) % M = (n + h) - M
          BY <5>1, <5>2, RemainderIs, Zenon
        <5>4. Wrapped(n) = n - M
          BY <1>1, <1>2, <3>1, <5>3, SMT
        <5> QED
          BY <1>1, <2>0, <3>1, <5>4, SMT
      <4> DEFINE k == -(n - M)
                 q == k \div Second
      <4>3. k \in Nat /\ k >= Second /\ q \in Int
        <5>1. k \in Nat /\ k >= Second
          BY <4>2
        <5> HIDE DEF k
        <5>2. k \in Int
          BY <5>1, SMT
        <5> QED
          BY <1>1, <5>1, <5>2, Remainder
      <4>4. ttl' = -q
        <5>1. ~(n - M >= 0)
          BY <1>1, <3>1, <4>2, SMT
        <5> QED
          BY <3>2, <4>2, <5>1 DEF Quotient
      <4> HIDE DEF k
      <4>5. q \in Nat /\ k < (Second * q) + Second
        BY <4>3, QuotientIs
      <4> HIDE DEF q
      <4>6. q # 0
        <5> SUFFICES ASSUME q = 0 PROVE FALSE
          OBVIOUS
        <5>1. Second * q = 0
          BY <1>1, SMT
        <5> QED
          BY <1>1, <4>3, <4>5, <5>1, SMT
      <4>7. ttl' < 0
        BY <4>4, <4>5, <4>6, SMT
      <4> QED
        BY <2>0, <3>1, <3>4, <4>7, SMT DEF TtlRounded
    <3> QED
      BY <3>3, <3>4
  <2> QED
    BY <1>1, <2>0, <2>1, <2>2, <2>3, SMT
<1>5. TtlRounded /\ [TtlNext]_ttlVars => TtlRounded'
  <2>1. TtlRounded /\ UNCHANGED ttlVars => TtlRounded'
    BY Zenon DEF TtlRounded, ttlVars
  <2> QED
    BY <1>4, <2>1 DEF TtlNext
<1> QED
  BY <1>3, <1>5, PTL DEF TtlSpec
=============================================================================
