----------------------------- MODULE MCDiscovery -----------------------------
(* One service, whose puts and leases meet in etcd. *)
EXTENDS Discovery
=============================================================================
