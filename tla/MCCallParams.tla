----------------------------- MODULE MCCallParams -----------------------------
(* CallParams for every signature of up to four arguments and a signature   *)
(* of five, with up to five positional parameters, and for calls of range   *)
(* with small integers.                                                     *)
EXTENDS CallParams

Names == <<"a", "b", "c", "d">>
Given(n) == <<"by keyword", n>>
Ordinary(n) == {Arg(n, TRUE, Empty), Arg(n, FALSE, Empty), Arg(n, FALSE, <<"default", n>>)}

\* Arguments of their own names, all of which may have defaults or not, and for a
\* callable of the application a special one in some place.
Plain(k, ordinary(_)) ==
    {s \in [1..k -> UNION {ordinary(Names[i]) : i \in 1..k}] : \A i \in 1..k : s[i].name = Names[i]}
Special(signatures) ==
    UNION {{InsertAt(s, i, Arg(n, FALSE, Empty)) : i \in 1..Len(s) + 1, n \in {"*args", "*context"}} :
           s \in signatures}
NoDefault(n) == {Arg(n, TRUE, Empty), Arg(n, FALSE, Empty)}

Calling(callee, signature, n, keywords) ==
    [callee |-> callee, args |-> signature, pos |-> [i \in 1..n |-> <<"by position", i>>],
     kw |-> [k \in keywords |-> Given(k)]]

RangeSignature == <<Arg("start", FALSE, Empty), Arg("stop", TRUE, Empty), Arg("step", FALSE, Empty)>>
Ints == -2..3

RangeCalls ==
    UNION {{[callee |-> "range", args |-> RangeSignature, pos |-> pos, kw |-> kw] :
              pos \in UNION {[1..n -> Ints] : n \in 0..3 - Cardinality(names)}, kw \in [names -> Ints]} :
           names \in SUBSET {"start", "stop", "step"}}

MCCalls ==
    UNION {{Calling("macro", s, n, k) : s \in Plain(m, Ordinary), n \in 0..m + 1,
              k \in SUBSET {"a", "b", "c", "x"}} : m \in 0..3}
    \cup {Calling("callable", s, n, k) :
            s \in Special(UNION {Plain(m, Ordinary) : m \in 0..2}) \cup Plain(4, NoDefault),
            n \in 0..5, k \in SUBSET {"a", "b", "c"}}
    \cup RangeCalls
=============================================================================
