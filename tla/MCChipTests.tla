---------------------------- MODULE MCChipTests ----------------------------
(* A small instance of ChipTests: a test that cleans up after itself, one that *)
(* is known to fail, one that starts from a clean device and one never run.    *)
EXTENDS ChipTests

Entry(skip, comment, resetBefore, resetAfter) ==
    [skip |-> skip, comment |-> comment, resetBefore |-> resetBefore, resetAfter |-> resetAfter]

FourTests == <<Entry(FALSE, FALSE, FALSE, TRUE),
               Entry(FALSE, TRUE, FALSE, FALSE),
               Entry(FALSE, FALSE, TRUE, FALSE),
               Entry(TRUE, TRUE, FALSE, FALSE)>>
=============================================================================
