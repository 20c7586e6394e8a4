-------------------------- MODULE MCValueLifetimes --------------------------
(* A function's results and a field of the parameters, two or three levels deep. *)
EXTENDS ValueLifetimes

Text == [kind |-> "text", items |-> <<>>]
Of(kind, shape) == [kind |-> kind, items |-> <<shape>>]

MCParams == Of("gmap", Of("list", Text))
MCResults == {Of("map", Of("list", Of("list", Text))), Of("glist", Of("list", Text))}
=============================================================================
