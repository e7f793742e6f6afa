---------------------------- MODULE TaxCalculator ----------------------------
(***************************************************************************)
(* The count the casino options put in a drop dialog (OnDialogRequest in   *)
(* src/proxy/events.cpp): what was bet less a tax of yuzde percent, taken  *)
(* of the bet rounded to a multiple of ten.                                *)
(***************************************************************************)
EXTENDS Integers

\* Faulty variant: rounds up only.
RoundToTen_Up(count) == IF count % 10 = 0 THEN count ELSE count + (10 - (count % 10))

\* bruh2: the chain of tests of stoi(count) % 10.
RoundToTen(count) ==
    LET bruh == count % 10
    IN  IF bruh \in 1 .. 4 THEN count - bruh
        ELSE IF bruh \in 5 .. 9 THEN count + (10 - bruh)
        ELSE count

\* bruh3, the tax.  C++ division truncates, as \div does for what is not negative.
Tax(count, yuzde) ==
    LET amount == RoundToTen(count) * yuzde
    IN  IF amount >= 0 THEN amount \div 100 ELSE -((-amount) \div 100)

\* bruh4, the count that is left.
TaxedCount(count, yuzde) == count - Tax(count, yuzde)

\* The largest percentage whose tax of a rounded count never exceeds the count.
SafePercent == 59

=============================================================================
