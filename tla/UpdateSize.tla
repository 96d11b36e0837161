----------------------------- MODULE UpdateSize -----------------------------
(***************************************************************************)
(* How --download_progress turns the text of update_size and the length of *)
(* the downloaded file into an exit code: std::stoull, a percentage in     *)
(* uint64_t, a cast to int, a comparison with 100.                         *)
(***************************************************************************)
EXTENDS Integers, ReturnCodes

CONSTANTS
    Wide,    \* the number of values of uint64_t: 2^64
    HalfInt  \* the number of values of int that are not negative: 2^31

ASSUME WidthsAssumption ==
    /\ Wide \in Nat \ {0}
    /\ HalfInt \in Nat
    /\ HalfInt > 100

(***************************************************************************)
(* The text of update_size, as far as stoull looks at it: blanks are       *)
(* skipped, one sign is taken, then digits; whatever follows is ignored.   *)
(***************************************************************************)
NoDigits == -1

Text(sign, digits, rest) == [sign |-> sign, digits |-> digits, rest |-> rest]

AllTexts == [sign : {"", "-"}, digits : Nat \cup {NoDigits}, rest : BOOLEAN]

\* A plain number, as the agent is expected to write it.
Plain(n) == Text("", n, FALSE)

\* Otherwise stoull throws invalid_argument or out_of_range.
Parses(t) == t.digits # NoDigits /\ t.digits < Wide

\* strtoull negates what follows a minus sign, in the unsigned type.
Stoull(t) == IF t.sign = "-" THEN (Wide - t.digits) % Wide ELSE t.digits

\* The cast from uint64_t to int keeps the low bits.
ToInt(n) == ((n + HalfInt) % (2 * HalfInt)) - HalfInt

Percent(got, size) == ToInt(((got * 100) % Wide) \div size)

\* The answer for a file of got bytes (0: empty or not to be examined).
ProgressCode(t, got) ==
    IF ~Parses(t) \/ Stoull(t) = 0 \/ got <= 0
      THEN DOWNLOAD_PROGRESS_STATE.NO_DOWNLOAD_STARTED
      ELSE IF Percent(got, Stoull(t)) < 100
             THEN DOWNLOAD_PROGRESS_STATE.IN_PROGRESS
             ELSE DOWNLOAD_PROGRESS_STATE.FINISHED

\* The range in which neither the product nor the cast loses anything.
InRange(got, size) == got * 100 < Wide /\ got * 100 < size * HalfInt
=============================================================================
