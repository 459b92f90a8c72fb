----------------------------- MODULE MCSession -----------------------------
(* Instances of Session for TLC.  Handlers are interchangeable: no step and no *)
(* safety property tells them apart.                                           *)
EXTENDS Session, TLC

HandlerSymmetry == Permutations(Handlers)
=============================================================================
