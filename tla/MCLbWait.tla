------------------------------ MODULE MCLbWait ------------------------------
(***************************************************************************)
(* Values for the constants of LbWait: the sleeps and waits that Update-   *)
(* LoadBalancer uses for application and for network load balancers.       *)
(***************************************************************************)
EXTENDS LbWait

MCWaits == {<<8, 120>>, <<14, 180>>}
=============================================================================
