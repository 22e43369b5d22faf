----------------------------- MODULE MCTransport -----------------------------
(* Small instances of Transport. *)
EXTENDS Transport, TLC

ObjectSymmetry == Permutations(Clients) \cup Permutations(ClientIds)
                    \cup Permutations(Servers) \cup Permutations(ServerIds)
=============================================================================
