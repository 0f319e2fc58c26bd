--------------------------- MODULE MCReviewQueue ---------------------------
(* ReviewQueue as it is: every constant of it is a small number or a set of   *)
(* them.                                                                    *)
EXTENDS ReviewQueue
==============================================================================
