--------------------------- MODULE MCTemplateObject ---------------------------
EXTENDS TemplateObject, TLC
Symmetry == Permutations(Users)
=============================================================================
