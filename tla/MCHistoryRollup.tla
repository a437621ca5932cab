--------------------------- MODULE MCHistoryRollup ---------------------------
EXTENDS HistoryRollup

MCNewRows == {[sum |-> 3, n |-> 2, peak |-> 2, low |-> 1, healthy |-> 1, total |-> 2]}
==============================================================================
