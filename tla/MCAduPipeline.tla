--------------------------- MODULE MCAduPipeline ---------------------------
(***************************************************************************)
(* Values of the constants of AduPipeline for TLC.                         *)
(***************************************************************************)
EXTENDS AduPipeline

\* Two sizes, so that the size of one package can be taken for the other's.
SomeSizes == [q \in Packages |-> IF q = "firmware" THEN 1 ELSE 2]

(***************************************************************************)
(* The arithmetic of the percentage against its definition: every kind of  *)
(* text of update_size, and files up to and past both of its limits, which *)
(* are at 656 bytes for the product and at 128 percent for the cast.       *)
(***************************************************************************)
EveryText ==
    {Text(sign, digits, rest) :
        sign \in {"", "-"}, rest \in BOOLEAN,
        digits \in {NoDigits, 0, 1, 7, 40, 150, 680, 65535, 65536}}

ASSUME PercentagesAreExact ==
    \A text \in EveryText : \A length \in 0..700 :
        Parses(text) /\ Stoull(text) # 0 /\ InRange(length, Stoull(text)) =>
            (ProgressCode(text, length) = DOWNLOAD_PROGRESS_STATE.FINISHED
                <=> length >= Stoull(text))
=============================================================================
