----------------------------- MODULE MCLbSelect -----------------------------
(***************************************************************************)
(* Values for the constants of LbSelect: two subnets of the VPC of the     *)
(* cluster, one of them found by a part of the configured name, and one of *)
(* another VPC with the address block of the second.                       *)
(***************************************************************************)
EXTENDS LbSelect, TLC

MCCidr       == "i1" :> "c1" @@ "i2" :> "c2" @@ "i3" :> "c2"
MCVpc        == "i1" :> "v1" @@ "i2" :> "v1" @@ "i3" :> "v2"
MCSubnetZone == "i1" :> "z1" @@ "i2" :> "z2" @@ "i3" :> "z1"
MCPartOf     == {<<"net-1", "net-10">>}

Node(zone, dedicated, arch) == [zone |-> zone, dedicated |-> dedicated, arch |-> arch]
MCNodeLabels == "n1" :> Node("z1", "", "a") @@ "n2" :> Node("z2", "edge", "b")

Plain == [wanted |-> TRUE, tcp |-> TRUE, public |-> TRUE, subnets |-> <<>>, zone |-> "",
          selector |-> <<>>]
MCServices ==
  {Plain,
   [Plain EXCEPT !.wanted = FALSE],
   [Plain EXCEPT !.tcp = FALSE],
   [Plain EXCEPT !.public = FALSE, !.zone = "z1"],
   [Plain EXCEPT !.subnets = <<"net-1">>, !.zone = "z2"],
   [Plain EXCEPT !.subnets = <<"c2", "i2">>],
   [Plain EXCEPT !.subnets = <<"i1", "i3">>],
   [Plain EXCEPT !.selector = <<"arch", "a">>, !.zone = "z2"],
   [Plain EXCEPT !.selector = <<"dedicated", "edge">>, !.zone = "z1"],
   [Plain EXCEPT !.selector = <<"edge">>]}
=============================================================================
