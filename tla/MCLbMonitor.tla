---------------------------- MODULE MCLbMonitor ----------------------------
(***************************************************************************)
(* Values for the constants of LbMonitor.                                  *)
(***************************************************************************)
EXTENDS LbMonitor, TLC

CONSTANTS s1, s2, o1

\* The names are kube-c-ab and kube-c-ac after the cut; the other cluster is cd.
MCUID ==
  s1 :> <<<<"a">>, <<"b">>, <<"x">>, <<"x">>, <<"x">>>> @@
  s2 :> <<<<"a">>, <<"c">>, <<"x">>, <<"x">>, <<"x">>>>
MCClusterID == <<"c">>
MCOtherName == o1 :> <<"kube", "-", "c", "d", "-", "a">>
=============================================================================
