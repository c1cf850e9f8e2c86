-------------------------- MODULE MCSitePublisher --------------------------
(***************************************************************************)
(* Three workloads: the site over two calls of one mint, the ledger over   *)
(* four signatures, and the files of the scout loop over two calls.        *)
(***************************************************************************)
EXTENDS SitePublisher

MCWorkloads ==
    {[calls |-> 2, sigs |-> 0, loops |-> {"tick"}],
     [calls |-> 0, sigs |-> 4, loops |-> {"tick"}],
     [calls |-> 2, sigs |-> 0, loops |-> {"scout"}]}
=============================================================================
