----------------------------- MODULE MCBusiness -----------------------------
(* Two clients of the business endpoints. *)
EXTENDS BusinessApi, TLC

\* Amounts whose sums, taxes and columns all round, one of them a credit of half
\* a cent, and a tax of nine and a half percent.
MCCarts      == {<<3330, 100>>, <<120, -170>>}
MCCostSheets == {<<44, 44>>}
MCRates      == {<<19, 2>>}

Symmetry == Permutations(Clients)
=============================================================================
