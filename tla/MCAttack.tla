------------------------------ MODULE MCAttack ------------------------------
EXTENDS Attack

\* Two bytes, one of them the value a missing answer is read as.
MCBytes == {1, 255}
=============================================================================
