------------------------------- MODULE MCNmbm -------------------------------
(* Model-checking instances of Nmbm.                                        *)
EXTENDS NmbmInv
=============================================================================
