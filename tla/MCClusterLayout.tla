--------------------------- MODULE MCClusterLayout ---------------------------
(* Small instances of the cluster files. *)
EXTENDS ClusterLayout

At(port) == <<"other", port>>
E(name, addr) == [name |-> name, addr |-> addr]

\* No list, the documented one, a short and a bare one, one with names of the
\* user's own, one with an address that the tool may draw for the second server,
\* and one that gives an address twice.
MCCoreLists ==
  { <<>>,
    << E(<<"SRV", 1>>, At(1)), E(<<"SRV", 2>>, At(2)), E(<<"SRV", 3>>, At(3)) >>,
    << E(Bare, <<"host", 5700>>) >>,
    << E(<<"ANN", 1>>, At(1)), E(Bare, At(2)) >>,
    << E(<<"ANN", 1>>, At(1)), E(<<"BOB", 1>>, At(2)), E(<<"SRV", 3>>, At(3)), E(Bare, At(1)) >> }

\* The same for -dr-servers, and a list that gives the second server's name to
\* the first.
MCDRLists ==
  { <<>>,
    << E(<<"DRSRV", 1>>, At(1)), E(<<"DRSRV", 2>>, At(2)), E(<<"DRSRV", 3>>, At(3)) >>,
    << E(<<"DRSRV", 2>>, At(1)) >>,
    << E(<<"EVE", 1>>, At(1)), E(Bare, At(1)) >> }

\* Draws that may collide: any of the first ports, and every other of the rest,
\* may come out as offset 0.
MCDraws == [k \in 1..(2 * MaxServers) |-> IF k <= 4 \/ k % 2 = 0 THEN {0, k} ELSE {k}]
=============================================================================
