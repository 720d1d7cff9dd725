------------------------------ MODULE TickSize ------------------------------
(***************************************************************************)
(* The price field of the order form: the price steps of Upbit's KRW       *)
(* markets (getKrwTickRule), what a typed price becomes (commitInputValue) *)
(* and the buttons beside the field (stepPrice).                           *)
(*                                                                         *)
(* A price is counted in thousandths of a won.  The steps of prices below  *)
(* a tenth of a won, which are finer, are left out, and with them the step *)
(* down from a tenth.                                                      *)
(***************************************************************************)
EXTENDS Integers

Won   == 1000
Least == 100 \* a tenth of a won

\* getKrwTickRule
TickOf(p) ==
  IF p >= 1000000 * Won THEN 1000 * Won
  ELSE IF p >= 500000 * Won THEN 500 * Won
  ELSE IF p >= 100000 * Won THEN 100 * Won
  ELSE IF p >= 50000 * Won THEN 50 * Won
  ELSE IF p >= 10000 * Won THEN 10 * Won
  ELSE IF p >= 5000 * Won THEN 5 * Won
  ELSE IF p >= 100 * Won THEN Won
  ELSE IF p >= 10 * Won THEN 100
  ELSE IF p >= Won THEN 10
  ELSE 1

OnGrid(p) == p % TickOf(p) = 0

\* sanitizeRawInput: the decimals a price of this size may have.
Cut(p) ==
  LET unit == IF TickOf(p) < Won THEN TickOf(p) ELSE Won IN p - (p % unit)

\* snapToTick: half a step is rounded up.
Snap(p) == ((p + TickOf(p) \div 2) \div TickOf(p)) * TickOf(p)

\* commitInputValue
CommitPrice(p) == Snap(Cut(p))

\* stepPrice
StepUp(p) == LET base == CommitPrice(p) IN CommitPrice(base + TickOf(base))

\* Mutant: the step of the price itself, at the edge of a finer one too.
StepDownByOwnTick(p) ==
  LET base == CommitPrice(p) IN CommitPrice(base - TickOf(base))
StepDown(p) ==
  LET base  == CommitPrice(p)
      below == TickOf(base - TickOf(base))
      step  == IF below < TickOf(base) THEN below ELSE TickOf(base)
  IN CommitPrice(base - step)
=============================================================================
