-------------------------- MODULE MCBrokerRequests --------------------------
EXTENDS BrokerRequests, TLC
CONSTANTS a, b, q1, q2
ReqSymmetry == Permutations({a, b}) \cup Permutations({q1, q2})
Load(reqs, exps, tokens) == [reqs |-> reqs, exps |-> exps, tokens |-> tokens]
MCLoads == {Load({<<"vend", 0>>}, {1, 2, 3}, 3),
            Load({<<"plain", 0>>, <<"plain", 1>>}, {1}, 2),
            Load({<<"plain", 1>>, <<"plain", 3>>}, {1}, 2),
            Load({<<"tls", 0>>}, {1}, 2)}
\* The status of an answer is read by nobody but the guest; the token of a request
\* that was scanned for it by nobody but the property, which then holds for good.
Seen(r) == Admitted(r) /\ r.tok.gen = r.gen /\ r.at < r.tok.exp /\ r.seen
View == <<now, reg, gens, owner, live, minted, closing, pruning, left, cert, routes, tts, forced, store,
          [q \in Reqs |-> IF Seen(req[q]) THEN [req[q] EXCEPT !.at = 0, !.tok = NoToken]
                         ELSE [req[q] EXCEPT !.status = 0]], load>>
=============================================================================
