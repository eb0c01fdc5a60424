---------------------------- MODULE MCWatchlist ----------------------------
(* Small tables of a few stocks, and the requests of each run.                  *)
EXTENDS Watchlist, TLC

CONSTANTS a, b, c, d, e

Stocks == {a, b, c}
MoreStocks == {a, b, c, d, e}
OneOrTwo == {<<a>>, <<a, b>>}

Asked(k, q) == [kind |-> k, todo |-> q]
At(i, n) == [id |-> i, order |-> n]

Adds == {Asked("add", <<s>>) : s \in Stocks}
AddBatches == {Asked("addAll", q) : q \in {<<a, b>>, <<b, a>>, <<c, b>>}}
Removals == {Asked("remove", <<1>>), Asked("remove", <<2>>), Asked("removeAll", <<a, b>>),
             Asked("removeAll", <<b, a>>)}
Reorders == {Asked("reorder", <<At(1, 1), At(2, 0)>>), Asked("reorder", <<At(2, 1), At(1, 0)>>)}

MoreAdds == {Asked("add", <<s>>) : s \in {d, e}}

Everything == Adds \cup AddBatches \cup Removals \cup Reorders \cup {Asked("list", <<>>)}
Colliding == Reorders \cup {Asked("remove", <<1>>)} \cup {Asked("removeAll", <<a, b>>), Asked("removeAll", <<b, a>>)}
             \cup {Asked("addAll", <<b, c>>), Asked("addAll", <<c, b>>)}
Crowding == Everything \cup MoreAdds

Perms == Permutations(Requests)
=============================================================================
