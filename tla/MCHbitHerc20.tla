---------------------------- MODULE MCHbitHerc20 ----------------------------
(***************************************************************************)
(* Model-checking instance of HbitHerc20: beta expires at 2, alpha at 3,   *)
(* so that funding, redeeming and refunding happen before, at and after    *)
(* each expiry; the clock runs one tick past the last expiry.              *)
(***************************************************************************)
EXTENDS HbitHerc20

MCBetaExpiry == 2
MCAlphaExpiry == 3
MCMaxTime == 4
=============================================================================
