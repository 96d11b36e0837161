-------------------------- MODULE UpdateSizeProofs --------------------------
(***************************************************************************)
(* What the percentage of --download_progress is, for every width of the   *)
(* arithmetic, every file and every announced size.                        *)
(***************************************************************************)
EXTENDS UpdateSize, TLAPS

LEMMA SmallModulo ==
    ASSUME NEW n \in Nat, NEW m \in Nat \ {0}
    PROVE  /\ n % m \in Nat
           /\ n < m => n % m = n
OBVIOUS

(***************************************************************************)
(* Within the range the modular arithmetic of the code is the arithmetic   *)
(* of the integers (cli.cpp:860).                                          *)
(***************************************************************************)
LEMMA WithinRange ==
    ASSUME NEW got \in Nat, NEW size \in Nat \ {0}, InRange(got, size)
    PROVE  Percent(got, size) = (got * 100) \div size
<1> DEFINE q == (got * 100) \div size
<1>1. (got * 100) % Wide = got * 100
  BY SmallModulo, WidthsAssumption DEF InRange
<1>2. /\ q \in Nat
      /\ size * q <= got * 100
  OBVIOUS
<1>3. q < HalfInt
  <2> SUFFICES ASSUME HalfInt <= q PROVE FALSE
    BY <1>2, WidthsAssumption
  <2>1. size * HalfInt <= size * q
    BY <1>2, WidthsAssumption
  <2> QED
    BY <1>2, <2>1, WidthsAssumption DEF InRange
<1>4. (q + HalfInt) % (2 * HalfInt) = q + HalfInt
  <2> DEFINE n == q + HalfInt
             m == 2 * HalfInt
  <2>1. n \in Nat /\ m \in Nat \ {0} /\ n < m
    BY <1>2, <1>3, WidthsAssumption
  <2> HIDE DEF n, m
  <2>2. n % m = n
    BY <2>1, SmallModulo
  <2> QED
    BY <2>2 DEF n, m
<1> QED
  BY <1>1, <1>2, <1>4, WidthsAssumption DEF Percent, ToInt

(***************************************************************************)
(* The comparison with 100 percent asks whether the whole file is there.   *)
(***************************************************************************)
LEMMA HundredPercent ==
    ASSUME NEW got \in Nat, NEW size \in Nat \ {0}, InRange(got, size)
    PROVE  Percent(got, size) < 100 <=> got < size
<1> DEFINE q == (got * 100) \div size
<1>1. /\ q \in Nat
      /\ size * q <= got * 100
      /\ got * 100 < size * (q + 1)
  OBVIOUS
<1>2. ASSUME q < 100 PROVE got < size
  <2>1. size * (q + 1) <= size * 100
    BY <1>1, <1>2
  <2> QED
    BY <1>1, <2>1
<1>3. ASSUME got < size PROVE q < 100
  <2> SUFFICES ASSUME 100 <= q PROVE FALSE
    BY <1>1
  <2>1. size * 100 <= size * q
    BY <1>1
  <2> QED
    BY <1>1, <1>3, <2>1
<1> QED
  BY <1>2, <1>3, WithinRange

LEMMA Negated ==
    ASSUME NEW w \in Nat \ {0}, NEW d \in Nat, d < w
    PROVE  (w - d) % w \in Nat
<1>1. w - d \in Nat
  OBVIOUS
<1> QED
  BY <1>1, SmallModulo

\* stoull yields a number of the unsigned type.
LEMMA StoullNat ==
    ASSUME NEW t \in AllTexts,
           Parses(t)
    PROVE  Stoull(t) \in Nat
<1>1. t.digits \in Nat /\ t.digits < Wide
  BY DEF Parses, NoDigits, AllTexts
<1>2. (Wide - t.digits) % Wide \in Nat
  BY <1>1, Negated, WidthsAssumption
<1> QED
  BY <1>1, <1>2 DEF Stoull

\* Complete is answered for a size that is not zero and, in range, a whole file.
LEMMA FinishedWhole ==
    ASSUME NEW t \in AllTexts, NEW g \in Nat,
           ProgressCode(t, g) = DOWNLOAD_PROGRESS_STATE.FINISHED
    PROVE  /\ Parses(t)
           /\ Stoull(t) # 0
           /\ InRange(g, Stoull(t)) => g >= Stoull(t)
<1>1. /\ DOWNLOAD_PROGRESS_STATE.NO_DOWNLOAD_STARTED # DOWNLOAD_PROGRESS_STATE.FINISHED
      /\ DOWNLOAD_PROGRESS_STATE.IN_PROGRESS # DOWNLOAD_PROGRESS_STATE.FINISHED
  BY DEF DOWNLOAD_PROGRESS_STATE
<1>2. Parses(t) /\ Stoull(t) # 0
  BY <1>1 DEF ProgressCode
<1>3. ~(Percent(g, Stoull(t)) < 100)
  BY <1>1, <1>2 DEF ProgressCode
<1>4. Stoull(t) \in Nat \ {0}
  BY <1>2, StoullNat
<1>5. InRange(g, Stoull(t)) => g >= Stoull(t)
  <2> DEFINE n == Stoull(t)
  <2>1. n \in Nat \ {0} /\ ~(Percent(g, n) < 100)
    BY <1>3, <1>4
  <2> HIDE DEF n
  <2>2. InRange(g, n) => g >= n
    BY <2>1, HundredPercent
  <2> QED
    BY <2>2 DEF n
<1> QED
  BY <1>2, <1>5

\* And it is the answer for a whole file whose size is in range.
LEMMA WholeFinished ==
    ASSUME NEW t \in AllTexts, NEW g \in Nat, Parses(t), Stoull(t) # 0,
           InRange(g, Stoull(t)), g >= Stoull(t)
    PROVE  ProgressCode(t, g) = DOWNLOAD_PROGRESS_STATE.FINISHED
<1> DEFINE n == Stoull(t)
<1>1. n \in Nat \ {0} /\ InRange(g, n) /\ g >= n
  BY StoullNat
<1> HIDE DEF n
<1>2. ~(Percent(g, n) < 100) /\ g > 0
  BY <1>1, HundredPercent
<1> QED
  BY <1>1, <1>2 DEF ProgressCode, n

(***************************************************************************)
(* 45 (download finished) is the answer exactly when no byte is missing:   *)
(* for any widths of the integers, any size that is a number and not zero, *)
(* and any length of the file within the range of the arithmetic.          *)
(***************************************************************************)
THEOREM FinishedIsExact ==
    ASSUME NEW t \in AllTexts, NEW g \in Nat, Parses(t), Stoull(t) # 0,
           InRange(g, Stoull(t))
    PROVE  ProgressCode(t, g) = DOWNLOAD_PROGRESS_STATE.FINISHED
               <=> g >= Stoull(t)
BY FinishedWhole, WholeFinished

(***************************************************************************)
(* A download once reported complete stays complete: for a file that has   *)
(* only grown no later poll says otherwise, as long as the arithmetic is   *)
(* within its range (cli.cpp:848-874).                                     *)
(***************************************************************************)
THEOREM FinishedStays ==
    ASSUME NEW t \in AllTexts, NEW g \in Nat, NEW h \in Nat, g <= h,
           InRange(h, Stoull(t)),
           ProgressCode(t, g) = DOWNLOAD_PROGRESS_STATE.FINISHED
    PROVE  ProgressCode(t, h) = DOWNLOAD_PROGRESS_STATE.FINISHED
<1>1. Parses(t) /\ Stoull(t) # 0
  BY DEF ProgressCode, DOWNLOAD_PROGRESS_STATE
<1>2. Stoull(t) \in Nat
  BY <1>1, StoullNat
<1>3. InRange(g, Stoull(t))
  BY <1>2, WidthsAssumption DEF InRange
<1>4. g >= Stoull(t)
  BY <1>1, <1>3, FinishedIsExact
<1> QED
  BY <1>1, <1>2, <1>4, FinishedIsExact
=============================================================================
