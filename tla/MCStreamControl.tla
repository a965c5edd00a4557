--------------------------- MODULE MCStreamControl ---------------------------
(* Stream start and stop with a budget of one restart: the first error is      *)
(* recovered from, the second is given up, and a third may reach a session     *)
(* after that.                                                                 *)
EXTENDS StreamControl

MCMaxRetry == 1
MCMaxCount == 3
=============================================================================
