------------------------ MODULE BrokerRequestsProofs ------------------------
(***************************************************************************)
(* Proofs about BrokerRequests: four invariants of the request path, for   *)
(* every number of sandboxes, requests, tokens and registrations and every *)
(* size of the budget and of the live list.  Three follow from one         *)
(* inductive invariant in two parts.  ReqPart is what a request carries    *)
(* over its steps: its token is among the live ones while the body is held,*)
(* and the refused document is remembered.  RegPart is what registrations, *)
(* the parsed certificate and the transports owe each other: references    *)
(* are the holders, an open transport is its registration's current one.   *)
(* The budget has one of its own beside it, BudgetInv: what a request      *)
(* holds at each of its steps, so that what is left is the budget less the *)
(* steps held, and a body that waits has no room or has been woken.        *)
(* There is one lemma for each action.                                     *)
(***************************************************************************)
EXTENDS BrokerRequests, FiniteSetTheorems, TLAPS

ReqSet == [pc : Pcs, gen : 0..MaxGen, route : RouteNames, tok : Token \cup {NoToken}, body : Nat,
           read : Nat, taken : Nat, share : Nat, woken : BOOLEAN, at : Nat, seen : BOOLEAN,
           doc : Nat, refused : Nat, ver : Nat, tt : Slots \cup {0}, status : Nat]
TransportSet == [used : BOOLEAN, ver : Nat, refs : Nat, retired : BOOLEAN, idle : BOOLEAN]
LiveSet == [toks : Seq(Token), over : BOOLEAN]

ReqTypes ==
    /\ now \in Nat /\ minted \in SUBSET Token /\ load \in Loads
    /\ store \in [doc : Nat, cert : Nat]
    /\ live \in [1..MaxGen -> LiveSet]
    /\ req \in [Reqs -> ReqSet]
RegTypes ==
    /\ gens \in 0..MaxGen /\ pruning \in Nat
    /\ reg \in [Ids -> 0..gens] /\ closing \in SUBSET (1..gens)
    /\ routes \in [1..MaxGen -> [cur : Slots \cup {0}, closed : BOOLEAN]]
    /\ tts \in [Slots -> TransportSet]

\* The request has been looked up and not been answered yet; it may hold a
\* transport.
Holding == {"take", "wait", "read", "scan"}
Unscanned == Holding \cup {"match"}
Going(r) == r.pc \notin {"idle", "done"}
MayHold(r) == r.pc \in {"send", "renew", "done"}

\* The token of a request is its registration's, and until the scan it is among the
\* live ones unless it has expired or one was dropped.  The instant of the scan is
\* one that has come, and the token had not expired then.
TokenOK(r) ==
    /\ Going(r) => r.gen \in 1..gens /\ r.tok \in minted /\ r.tok.gen = r.gen
    /\ r.pc \in Unscanned =>
         r.tok.exp <= now \/ live[r.gen].over \/ Contains(live[r.gen].toks, r.tok)
    /\ r.pc = "match" => r.at <= now
    /\ r.pc = "match" \/ Admitted(r) => r.at < r.tok.exp
    /\ Admitted(r) => r.seen \/ live[r.gen].over \/ r.tok.exp <= now

\* The document that a request has is none that is to come; the one that was
\* refused is remembered from the answer to the retry.
DocOK(r) ==
    /\ r.doc <= store.doc
    /\ r.pc = "renew" => r.refused = r.doc
    /\ r.pc \notin {"send", "renew"} => r.refused = 0
    /\ r.pc = "send" /\ r.refused # 0 => r.doc > r.refused

ReqOK(r) == TokenOK(r) /\ DocOK(r) /\ (~MayHold(r) => r.tt = 0)

Registered(g) == \E i \in Ids : reg[i] = g
\* A registration is served, or about to be closed, or closed.
GensOK == \A g \in 1..gens : Registered(g) \/ g \in closing \/ routes[g].closed

\* The references of a transport are the requests that hold it.
Holders(s) == {q \in Reqs : req[q].tt = s}
Counted == \A s \in Slots : tts[s].refs = Cardinality(Holders(s))

\* A transport is free, or retired and closed when nobody holds it, or the current
\* one of a registration that is not closed, and of one only.
SlotsOK ==
    /\ \A s \in Slots : ~tts[s].used => tts[s].refs = 0 /\ ~tts[s].idle /\ ~tts[s].retired
    /\ \A s \in Slots : tts[s].retired /\ tts[s].refs = 0 => ~tts[s].idle
    /\ \A s \in Slots : tts[s].used /\ ~tts[s].retired =>
         \E g \in 1..gens : routes[g].cur = s /\ (g \in closing \/ Registered(g))
    /\ \A g \in 1..MaxGen : routes[g].cur # 0 => tts[routes[g].cur].used /\ ~tts[routes[g].cur].retired
    /\ \A g, h \in 1..MaxGen : routes[g].cur = routes[h].cur /\ routes[g].cur # 0 => g = h

ReqPart == ReqTypes /\ \A q \in Reqs : ReqOK(req[q])
RegPart == RegTypes /\ CertNamed /\ GensOK /\ Counted /\ SlotsOK

RequestsInv == ReqPart /\ RegPart

\* What stays of a sequence is a sequence, and has each element that was to stay.
LEMMA StayingFacts ==
    ASSUME NEW S, NEW s \in Seq(S), NEW I \in SUBSET (1..Len(s))
    PROVE  /\ Staying(s, I) \in Seq(S)
           /\ \A i \in I : Contains(Staying(s, I), s[i])
<1>1. Len(s) \in Nat /\ IsFiniteSet(1..Len(s))
  BY FS_Interval
<1>2. IsFiniteSet(I) /\ \A i \in I : i \in Nat
  <2>1. IsFiniteSet(I)
    BY <1>1, FS_Subset
  <2>2. \A i \in I : i \in Nat
    BY <1>1
  <2> QED
    BY <2>1, <2>2
<1> DEFINE n == Cardinality(I)
           Upto(i) == {j \in I : j <= i}
           rank == [i \in I |-> Cardinality(Upto(i))]
<1>3. n \in Nat /\ IsFiniteSet(1..n) /\ Cardinality(1..n) = n
  BY <1>2, FS_CardinalityType, FS_Interval
<1>4. ASSUME NEW i \in I
      PROVE  /\ IsFiniteSet(Upto(i)) /\ Cardinality(Upto(i)) \in 1..n
  <2>1. Upto(i) \in SUBSET I /\ i \in Upto(i)
    BY <1>2
  <2>2. IsFiniteSet(Upto(i)) /\ Cardinality(Upto(i)) <= n /\ Cardinality(Upto(i)) \in Nat
    BY <1>2, <2>1, FS_Subset, FS_CardinalityType
  <2>3. Cardinality(Upto(i)) # 0
    BY <2>1, <2>2, FS_EmptySet
  <2> QED
    BY <1>3, <2>2, <2>3
<1>5. rank \in [I -> 1..n]
  BY <1>4
<1>6. ASSUME NEW i \in I, NEW j \in I, i < j
      PROVE  rank[i] # rank[j]
  <2>0. i \in Nat /\ j \in Nat
    BY <1>2
  <2>1. Upto(i) \subseteq Upto(j)
    <3>1. \A k \in I : k <= i => k <= j
      BY <1>2, <1>6, <2>0
    <3> QED
      BY <3>1
  <2>2. j \in Upto(j) /\ j \notin Upto(i)
    BY <1>6, <2>0
  <2>3. Upto(i) # Upto(j)
    BY <2>2
  <2>4. Cardinality(Upto(j)) # Cardinality(Upto(i))
    BY <1>4, <2>1, <2>3, FS_Subset
  <2> QED
    BY <2>4
<1>7. rank \in Injection(I, 1..n)
  <2>1. \A i, j \in I : rank[i] = rank[j] => i = j
    BY <1>2, <1>6
  <2> QED
    BY <1>5, <2>1 DEF Injection, IsInjective
<1>8. rank \in Surjection(I, 1..n)
  BY <1>3, <1>7, FS_Injection
<1>9. \A k \in 1..n : \E i \in I : rank[i] = k
  BY <1>8 DEF Surjection
<1> DEFINE place(k) == CHOOSE i \in I : Cardinality(Upto(i)) = k
<1>10. ASSUME NEW k \in 1..n
       PROVE  place(k) \in I /\ Cardinality(Upto(place(k))) = k
  BY <1>9
<1>11. Staying(s, I) = [k \in 1..n |-> s[place(k)]]
  BY DEF Staying
<1>12. \A k \in 1..n : s[place(k)] \in S
  <2>1. \A k \in 1..n : place(k) \in 1..Len(s)
    BY <1>10
  <2> HIDE DEF place
  <2> QED
    BY <2>1
<1>13. Staying(s, I) \in Seq(S) /\ Len(Staying(s, I)) = n
  <2> HIDE DEF place, n
  <2>1. [k \in 1..n |-> s[place(k)]] \in Seq(S) /\ Len([k \in 1..n |-> s[place(k)]]) = n
    BY <1>3, <1>12
  <2> QED
    BY <1>11, <2>1
<1>14. ASSUME NEW i \in I
       PROVE  Contains(Staying(s, I), s[i])
  <2> DEFINE k == rank[i]
  <2>1. k \in 1..n
    BY <1>5
  <2>2. rank[place(k)] = rank[i] /\ place(k) \in I
    BY <2>1, <1>10
  <2>3. place(k) = i
    BY <2>2, <1>7 DEF Injection, IsInjective
  <2>4. Staying(s, I)[k] = s[i]
    BY <1>11, <2>1, <2>3
  <2> QED
    BY <1>13, <2>1, <2>4 DEF Contains
<1> QED
  BY <1>13, <1>14

\* remember: the token is among the live ones, and so is every other that was,
\* unless one was dropped.
LEMMA RememberFacts ==
    ASSUME NEW l \in LiveSet, NEW t \in Token
    PROVE  /\ Remember(l, t) \in LiveSet
           /\ l.over => Remember(l, t).over
           /\ Remember(l, t).over \/ Contains(Remember(l, t).toks, t)
           /\ \A u \in Token : Contains(l.toks, u) => Remember(l, t).over \/ Contains(Remember(l, t).toks, u)
<1>1. l.toks \in Seq(Token) /\ Len(l.toks) \in Nat /\ l.over \in BOOLEAN
  BY DEF LiveSet
<1> DEFINE I == {i \in 1..Len(l.toks) : l.toks[i] # t}
           kept == Staying(l.toks, I)
           moved == Append(kept, t)
           more == Append(l.toks, t)
<1>2. kept \in Seq(Token) /\ \A i \in I : Contains(kept, l.toks[i])
  BY <1>1, StayingFacts
<1>3. ASSUME NEW w \in Seq(Token)
      PROVE  /\ Append(w, t) \in Seq(Token) /\ Contains(Append(w, t), t)
             /\ \A u : Contains(w, u) => Contains(Append(w, t), u)
  <2>1. Len(w) \in Nat /\ Append(w, t) \in Seq(Token) /\ Len(Append(w, t)) = Len(w) + 1
    OBVIOUS
  <2>2. Append(w, t)[Len(w) + 1] = t /\ \A i \in 1..Len(w) : Append(w, t)[i] = w[i]
    OBVIOUS
  <2> QED
    BY <2>1, <2>2 DEF Contains
<1>4. CASE Contains(l.toks, t)
  <2> HIDE DEF kept
  <2>1. Remember(l, t) = [l EXCEPT !.toks = moved]
    BY <1>4 DEF Remember, kept
  <2>2. moved \in Seq(Token) /\ Contains(moved, t) /\ \A u : Contains(kept, u) => Contains(moved, u)
    BY <1>2, <1>3
  <2>3. \A u \in Token : Contains(l.toks, u) => Contains(moved, u)
    BY <1>2, <2>2 DEF Contains
  <2> HIDE DEF moved
  <2>4. Remember(l, t) \in LiveSet /\ Remember(l, t).toks = moved /\ Remember(l, t).over = l.over
    BY <2>1, <2>2 DEF LiveSet
  <2> QED
    BY <2>2, <2>3, <2>4
<1>5. CASE ~Contains(l.toks, t) /\ Len(more) > MaxLive
  <2>1. Remember(l, t) = [toks |-> Tail(more), over |-> TRUE]
    BY <1>5 DEF Remember
  <2>2. Tail(more) \in Seq(Token)
    <3>1. more \in Seq(Token) /\ Len(more) = Len(l.toks) + 1
      BY <1>1
    <3> QED
      BY <1>1, <3>1
  <2> QED
    BY <2>1, <2>2 DEF LiveSet
<1>6. CASE ~Contains(l.toks, t) /\ ~(Len(more) > MaxLive)
  <2>1. Remember(l, t) = [l EXCEPT !.toks = more]
    BY <1>6 DEF Remember
  <2>2. more \in Seq(Token) /\ Contains(more, t) /\ \A u : Contains(l.toks, u) => Contains(more, u)
    BY <1>1, <1>3
  <2> HIDE DEF more
  <2>3. Remember(l, t) \in LiveSet /\ Remember(l, t).toks = more /\ Remember(l, t).over = l.over
    BY <2>1, <2>2 DEF LiveSet
  <2> QED
    BY <2>2, <2>3
<1> QED
  BY <1>4, <1>5, <1>6

-----------------------------------------------------------------------------
\* The requests.

LEMMA IdleFacts ==
    /\ Idle \in ReqSet /\ Idle.pc = "idle" /\ Idle.tt = 0 /\ Idle.doc = 0 /\ Idle.refused = 0
    /\ NoTransport \in TransportSet
<1>1. NoToken \in Token \cup {NoToken} /\ MaxGen \in Nat
  BY RequestsAssumption
<1> QED
  BY <1>1 DEF Idle, ReqSet, Pcs, RouteNames, NoTransport, TransportSet

LEMMA AnsweredFacts ==
    ASSUME NEW r \in ReqSet, NEW status \in Nat
    PROVE  /\ Answered(r, status) \in ReqSet /\ Answered(r, status).pc = "done"
           /\ Answered(r, status).tt = r.tt /\ Answered(r, status).doc = 0
           /\ Answered(r, status).refused = 0
<1>1. NoToken \in Token \cup {NoToken} /\ MaxGen \in Nat
  BY RequestsAssumption
<1> QED
  BY <1>1 DEF Answered, Idle, ReqSet, Pcs, RouteNames

\* What holds of a request that has ended, or has not begun.
LEMMA EndedOK ==
    ASSUME ReqTypes, NEW r \in ReqSet, r.doc = 0, r.refused = 0,
           r.pc = "done" \/ (r.pc = "idle" /\ r.tt = 0)
    PROVE  ReqOK(r)
<1>1. store.doc \in Nat
  BY DEF ReqTypes
<1> QED
  BY <1>1 DEF ReqOK, TokenOK, DocOK, MayHold, Going, Holding, Unscanned, Admitted

\* The clock, the tokens, the document and the registrations only go on, and a
\* live token stays unless it expires or one is dropped.
Grows ==
    /\ ReqTypes /\ now' \in Nat /\ now <= now'
    /\ minted' \in SUBSET Token /\ minted \subseteq minted'
    /\ store' \in [doc : Nat, cert : Nat] /\ store.doc <= store'.doc
    /\ gens \in Nat /\ gens' \in Nat /\ gens <= gens'
    /\ live' \in [1..MaxGen -> LiveSet] /\ load' = load
    /\ gens <= MaxGen
    /\ \A g \in 1..MaxGen :
         /\ live[g].over => live'[g].over
         /\ \A u \in Token : Contains(live[g].toks, u) =>
              u.exp <= now' \/ live'[g].over \/ Contains(live'[g].toks, u)

LEMMA ReqOKStays ==
    ASSUME Grows, NEW r \in ReqSet, ReqOK(r)
    PROVE  ReqOK(r)'
<1>1. /\ r.doc \in Nat /\ store.doc \in Nat /\ store'.doc \in Nat /\ store.doc <= store'.doc
      /\ r.doc <= store.doc
  BY DEF Grows, ReqTypes, ReqSet, ReqOK, DocOK
<1>2. DocOK(r)'
  BY <1>1 DEF ReqOK, DocOK
<1>3. Going(r) => r.gen \in 1..gens' /\ r.gen \in 1..MaxGen /\ r.tok \in minted' /\ r.tok.gen = r.gen
  <2>1. Going(r) => r.gen \in 1..gens /\ r.tok \in minted /\ r.tok.gen = r.gen
    BY DEF ReqOK, TokenOK
  <2>2. gens \in Nat /\ gens' \in Nat /\ gens <= gens' /\ gens <= MaxGen /\ minted \subseteq minted' /\ MaxGen \in Nat
    BY RequestsAssumption DEF Grows
  <2> QED
    BY <2>1, <2>2
<1>a. now \in Nat /\ now' \in Nat /\ now <= now' /\ r.at \in Nat /\ r.tok.exp \in Nat
  <2>1. r.tok \in Token \cup {NoToken} /\ r.at \in Nat
    BY DEF ReqSet
  <2>2. NoToken.exp = 0
    BY DEF NoToken
  <2>3. r.tok.exp \in Nat
    BY <2>1, <2>2 DEF Token
  <2> QED
    BY <2>1, <2>3 DEF Grows, ReqTypes
<1>b. r.tok.exp <= now => r.tok.exp <= now'
  BY <1>a
<1>4. r.pc \in Unscanned =>
        r.tok.exp <= now' \/ live'[r.gen].over \/ Contains(live'[r.gen].toks, r.tok)
  <2> SUFFICES ASSUME r.pc \in Unscanned
               PROVE  r.tok.exp <= now' \/ live'[r.gen].over \/ Contains(live'[r.gen].toks, r.tok)
    OBVIOUS
  <2>1. r.gen \in 1..MaxGen /\ r.tok \in Token /\ r.tok \in minted'
    BY <1>3 DEF Unscanned, Holding, Going, Grows
  <2>2. r.tok.exp <= now \/ live[r.gen].over \/ Contains(live[r.gen].toks, r.tok)
    BY DEF ReqOK, TokenOK
  <2> QED
    BY <2>1, <2>2, <1>b DEF Grows
<1>5. Admitted(r) => r.seen \/ live'[r.gen].over \/ r.tok.exp <= now'
  <2>1. Admitted(r) => r.gen \in 1..MaxGen
    BY <1>3 DEF Admitted, Going
  <2> QED
    BY <2>1, <1>b DEF ReqOK, TokenOK, Grows
<1>c. /\ r.pc = "match" => r.at <= now'
      /\ r.pc = "match" \/ Admitted(r) => r.at < r.tok.exp
  BY <1>a DEF ReqOK, TokenOK
<1>6. TokenOK(r)'
  BY <1>3, <1>4, <1>5, <1>c DEF TokenOK, Admitted, Going, MayHold
<1> QED
  BY <1>2, <1>6 DEF ReqOK, MayHold

\* One request moves, or none.
LEMMA ReqMoves ==
    ASSUME ReqPart, Grows, NEW q \in Reqs, NEW k \in ReqSet, ReqOK(k)', req' = [req EXCEPT ![q] = k]
    PROVE  ReqPart'
<1>1. req' \in [Reqs -> ReqSet]
  BY DEF ReqPart, ReqTypes
<1>2. ReqTypes'
  BY <1>1 DEF ReqPart, ReqTypes, Grows
<1>3. ASSUME NEW p \in Reqs
      PROVE  ReqOK(req[p])'
  <2>1. CASE p = q
    <3>1. req'[p] = k
      BY <2>1 DEF ReqPart, ReqTypes
    <3> QED
      BY <3>1 DEF ReqOK, TokenOK, DocOK, MayHold, Going, Admitted
  <2>2. CASE p # q
    <3>1. req'[p] = req[p] /\ req[p] \in ReqSet /\ ReqOK(req[p])
      BY <2>2 DEF ReqPart, ReqTypes
    <3> DEFINE r == req[p]
    <3>2. ASSUME NEW u \in ReqSet, u = r PROVE ReqOK(u)'
      BY <3>1, <3>2, ReqOKStays
    <3> QED
      BY <3>1, <3>2 DEF ReqOK, TokenOK, DocOK, MayHold, Going, Admitted
  <2> QED
    BY <2>1, <2>2
<1> QED
  BY <1>2, <1>3 DEF ReqPart
LEMMA ReqStays ==
    ASSUME ReqPart, Grows, req' = req
    PROVE  ReqPart'
<1>2. ReqTypes'
  BY DEF ReqPart, ReqTypes, Grows
<1>3. ASSUME NEW p \in Reqs
      PROVE  ReqOK(req[p])'
  <2>1. req'[p] = req[p] /\ req[p] \in ReqSet /\ ReqOK(req[p])
    BY DEF ReqPart, ReqTypes
  <2>2. ASSUME NEW u \in ReqSet, u = req[p] PROVE ReqOK(u)'
    BY <2>1, <2>2, ReqOKStays
  <2> QED
    BY <2>1, <2>2 DEF ReqOK, TokenOK, DocOK, MayHold, Going, Admitted
<1> QED
  BY <1>2, <1>3 DEF ReqPart

LEMMA GrowsIfSame ==
    ASSUME RequestsInv, UNCHANGED <<now, gens, live, minted, store, load>>
    PROVE  Grows
  BY RequestsAssumption DEF RequestsInv, ReqPart, RegPart, RegTypes, ReqTypes, Grows

\* The registrations and transports, when a step leaves them alone.
LEMMA RegStays ==
    ASSUME RegPart, UNCHANGED <<reg, gens, closing, pruning, cert, routes, tts>>,
           \A q \in Reqs : req'[q].tt = req[q].tt
    PROVE  RegPart'
<1>1. \A s \in Slots : Holders(s)' = Holders(s)
  BY DEF Holders
<1>2. Counted'
  BY <1>1 DEF RegPart, Counted
<1> QED
  BY <1>2 DEF RegPart, RegTypes, CertNamed, Named, GensOK, SlotsOK, Registered

\* A step of one request that touches nothing else of what these properties see.
LEMMA OneMoves ==
    ASSUME RequestsInv, NEW q \in Reqs, NEW k \in ReqSet, k.tt = req[q].tt, ReqOK(k),
           req' = [req EXCEPT ![q] = k],
           UNCHANGED <<now, reg, gens, live, minted, closing, pruning, cert, routes, tts, store, load>>
    PROVE  RequestsInv'
<1>1. Grows
  BY GrowsIfSame
<1>2. ReqOK(k)'
  BY <1>1, ReqOKStays
<1>3. ReqPart'
  BY <1>1, <1>2, ReqMoves DEF RequestsInv
<1>4. \A p \in Reqs : req'[p].tt = req[p].tt
  BY DEF RequestsInv, ReqPart, ReqTypes
<1>5. RegPart'
  BY <1>4, RegStays DEF RequestsInv
<1> QED
  BY <1>3, <1>5 DEF RequestsInv

LEMMA OneEnds ==
    ASSUME RequestsInv, NEW q \in Reqs, NEW status \in Nat, NEW r \in ReqSet, r.tt = req[q].tt,
           req' = [req EXCEPT ![q] = Answered(r, status)],
           UNCHANGED <<now, reg, gens, live, minted, closing, pruning, cert, routes, tts, store, load>>
    PROVE  RequestsInv'
<1> DEFINE k == Answered(r, status)
<1>1. k \in ReqSet /\ k.pc = "done" /\ k.tt = req[q].tt /\ k.doc = 0 /\ k.refused = 0
  BY AnsweredFacts
<1> HIDE DEF k
<1>2. ReqOK(k)
  BY <1>1, EndedOK DEF RequestsInv, ReqPart
<1>3. req' = [req EXCEPT ![q] = k]
  BY DEF k
<1> QED
  BY <1>1, <1>2, <1>3, OneMoves

LEMMA AtReq ==
    ASSUME RequestsInv, NEW q \in Reqs
    PROVE  req[q] \in ReqSet /\ ReqOK(req[q])
  BY DEF RequestsInv, ReqPart, ReqTypes

LEMMA RefuseShapeInv ==
    ASSUME RequestsInv, NEW q \in Reqs, RefuseShape(q)
    PROVE  RequestsInv'
<1>1. PICK status \in Nat : req' = [req EXCEPT ![q] = Answered(Idle, status)]
  <2>1. PICK status \in {400, 404} : req' = [req EXCEPT ![q] = Answered(Idle, status)]
    BY DEF RefuseShape
  <2>2. status \in Nat
    OBVIOUS
  <2> QED
    BY <2>1, <2>2
<1>2. req[q].tt = 0
  BY AtReq DEF RefuseShape, ReqOK, MayHold
<1>3. Idle \in ReqSet /\ Idle.tt = req[q].tt /\ status \in Nat
  BY <1>2, IdleFacts
<1>4. UNCHANGED <<now, reg, gens, live, minted, closing, pruning, cert, routes, tts, store, load>>
  BY DEF RefuseShape
<1> QED
  BY <1>1, <1>3, <1>4, OneEnds

\* A body that is held stays so.
LEMMA HoldingOK ==
    ASSUME NEW r \in ReqSet, NEW k \in ReqSet, ReqOK(r), r.pc \in Holding, k.pc \in Holding,
           k.gen = r.gen, k.tok = r.tok, k.doc = r.doc, k.refused = r.refused, k.tt = r.tt
    PROVE  ReqOK(k)
  BY DEF ReqOK, TokenOK, DocOK, MayHold, Going, Admitted, Holding, Unscanned

LEMMA TakeInv ==
    ASSUME RequestsInv, NEW q \in Reqs, Take(q)
    PROVE  RequestsInv'
<1>0. req[q] \in ReqSet /\ ReqOK(req[q]) /\ req[q].pc = "take" /\ req \in [Reqs -> ReqSet]
  BY AtReq DEF Take, RequestsInv, ReqPart, ReqTypes
<1>1. PICK n \in Nat, pc \in {"read", "wait"} :
        req' = [req EXCEPT ![q] = [req[q] EXCEPT !.pc = pc, !.taken = n]]
  <2>0. req[q].taken \in Nat /\ req[q].taken + 1 \in Nat
    BY <1>0 DEF ReqSet
  <2>1. CASE req' = [req EXCEPT ![q].pc = "read", ![q].taken = @ + 1]
    <3>1. req' = [req EXCEPT ![q] = [req[q] EXCEPT !.pc = "read", !.taken = req[q].taken + 1]]
      BY <2>1, <1>0
    <3> QED
      BY <2>0, <3>1
  <2>2. CASE req' = [req EXCEPT ![q].pc = "wait"]
    <3>1. [req[q] EXCEPT !.pc = "wait", !.taken = req[q].taken] = [req[q] EXCEPT !.pc = "wait"]
      BY <1>0 DEF ReqSet
    <3>2. req' = [req EXCEPT ![q] = [req[q] EXCEPT !.pc = "wait"]]
      BY <2>2, <1>0
    <3>3. req' = [req EXCEPT ![q] = [req[q] EXCEPT !.pc = "wait", !.taken = req[q].taken]]
      BY <3>1, <3>2
    <3> QED
      BY <2>0, <3>3
  <2> QED
    BY <2>1, <2>2 DEF Take
<1> DEFINE k == [req[q] EXCEPT !.pc = pc, !.taken = n]
<1>2. /\ k \in ReqSet /\ k.pc \in Holding /\ k.gen = req[q].gen /\ k.tok = req[q].tok /\ k.doc = req[q].doc
      /\ k.refused = req[q].refused /\ k.tt = req[q].tt
  BY <1>0 DEF ReqSet, Pcs, Holding
<1>3. req' = [req EXCEPT ![q] = k]
  BY <1>1
<1> HIDE DEF k
<1>4. ReqOK(k)
  BY <1>0, <1>2, HoldingOK DEF Holding
<1> QED
  BY <1>2, <1>3, <1>4, OneMoves DEF Take

LEMMA WakeInv ==
    ASSUME RequestsInv, NEW q \in Reqs, Wake(q)
    PROVE  RequestsInv'
<1>0. req[q] \in ReqSet /\ ReqOK(req[q]) /\ req[q].pc = "wait" /\ req \in [Reqs -> ReqSet]
  BY AtReq DEF Wake, RequestsInv, ReqPart, ReqTypes
<1> DEFINE k == [req[q] EXCEPT !.pc = "take", !.woken = FALSE]
<1>1. req' = [req EXCEPT ![q] = k]
  BY <1>0 DEF Wake
<1>2. /\ k \in ReqSet /\ k.pc \in Holding /\ k.gen = req[q].gen /\ k.tok = req[q].tok /\ k.doc = req[q].doc
      /\ k.refused = req[q].refused /\ k.tt = req[q].tt
  BY <1>0 DEF ReqSet, Pcs, Holding
<1> HIDE DEF k
<1>4. ReqOK(k)
  BY <1>0, <1>2, HoldingOK DEF Holding
<1> QED
  BY <1>1, <1>2, <1>4, OneMoves DEF Wake

LEMMA BudgetTimeoutInv ==
    ASSUME RequestsInv, NEW q \in Reqs, BudgetTimeout(q)
    PROVE  RequestsInv'
<1>1. req' = [req EXCEPT ![q] = Answered(req[q], 503)]
  BY DEF BudgetTimeout
<1>2. 503 \in Nat /\ req[q] \in ReqSet
  BY AtReq
<1>3. UNCHANGED <<now, reg, gens, live, minted, closing, pruning, cert, routes, tts, store, load>>
  BY DEF BudgetTimeout
<1> QED
  BY <1>1, <1>2, <1>3, OneEnds

LEMMA ReadInv ==
    ASSUME RequestsInv, NEW q \in Reqs, Read(q)
    PROVE  RequestsInv'
<1>0. req[q] \in ReqSet /\ ReqOK(req[q]) /\ req[q].pc = "read"
  BY AtReq DEF Read
<1>1. PICK pc \in {"scan", "take"} :
        req' = [req EXCEPT ![q] = [req[q] EXCEPT !.read = req[q].read + 1, !.pc = pc]]
  <2> DEFINE pc == IF req[q].read + 1 = req[q].body \/ req[q].read + 1 = MaxHeld THEN "scan" ELSE "take"
  <2>1. req' = [req EXCEPT ![q] = [req[q] EXCEPT !.read = req[q].read + 1, !.pc = pc]]
    BY DEF Read
  <2>2. pc \in {"scan", "take"}
    OBVIOUS
  <2> HIDE DEF pc
  <2> QED
    BY <2>1, <2>2
<1> DEFINE m == req[q].read + 1
           k == [req[q] EXCEPT !.read = m, !.pc = pc]
<1>a. m \in Nat
  BY <1>0 DEF ReqSet
<1>3. req' = [req EXCEPT ![q] = k]
  BY <1>1
<1> HIDE DEF m
<1>2. /\ k \in ReqSet /\ k.pc \in Holding /\ k.gen = req[q].gen /\ k.tok = req[q].tok /\ k.doc = req[q].doc
      /\ k.refused = req[q].refused /\ k.tt = req[q].tt
  BY <1>0, <1>a DEF ReqSet, Pcs, Holding
<1> HIDE DEF k
<1>4. ReqOK(k)
  BY <1>0, <1>2, HoldingOK DEF Holding
<1> QED
  BY <1>2, <1>3, <1>4, OneMoves DEF Read

LEMMA BodyFailsInv ==
    ASSUME RequestsInv, NEW q \in Reqs, BodyFails(q)
    PROVE  RequestsInv'
<1>1. PICK status \in Nat : req' = [req EXCEPT ![q] = Answered(req[q], status)]
  <2>1. PICK status \in {400, 408} : req' = [req EXCEPT ![q] = Answered(req[q], status)]
    BY DEF BodyFails
  <2>2. status \in Nat
    OBVIOUS
  <2> QED
    BY <2>1, <2>2
<1>2. status \in Nat /\ req[q] \in ReqSet
  BY AtReq
<1>3. UNCHANGED <<now, reg, gens, live, minted, closing, pruning, cert, routes, tts, store, load>>
  BY DEF BodyFails
<1> QED
  BY <1>1, <1>2, <1>3, OneEnds

\* A request that goes on after the scan.
LEMMA AdmittedOK ==
    ASSUME NEW r \in ReqSet, NEW k \in ReqSet, ReqOK(r), Admitted(r), Admitted(k),
           k.gen = r.gen, k.tok = r.tok, k.at = r.at, k.seen = r.seen, DocOK(k), ~MayHold(k) => k.tt = 0
    PROVE  ReqOK(k)
  BY DEF ReqOK, TokenOK, Going, Admitted, Holding, Unscanned

LEMMA ResolveInv ==
    ASSUME RequestsInv, NEW q \in Reqs, Resolve(q)
    PROVE  RequestsInv'
<1>0. /\ req[q] \in ReqSet /\ ReqOK(req[q]) /\ req[q].pc = "resolve" /\ store.doc \in Nat
      /\ req[q].tt = 0 /\ req[q].refused = 0
  BY AtReq DEF Resolve, RequestsInv, ReqPart, ReqTypes, ReqOK, DocOK, MayHold
<1>1. ASSUME NEW status \in Nat, req' = [req EXCEPT ![q] = Answered(req[q], status)]
      PROVE  RequestsInv'
  <2>1. status \in Nat /\ req[q] \in ReqSet
    BY <1>0
  <2>2. UNCHANGED <<now, reg, gens, live, minted, closing, pruning, cert, routes, tts, store, load>>
    BY DEF Resolve
  <2> QED
    BY <1>1, <2>1, <2>2, OneEnds
<1>2. CASE req' = [req EXCEPT ![q] =
             [req[q] EXCEPT !.doc = store.doc, !.pc = IF req[q].route = "tls" THEN "cert" ELSE "send"]]
  <2> DEFINE pc == IF req[q].route = "tls" THEN "cert" ELSE "send"
             k == [req[q] EXCEPT !.doc = store.doc, !.pc = pc]
  <2>1. req' = [req EXCEPT ![q] = k] /\ pc \in {"cert", "send"}
    BY <1>2
  <2> HIDE DEF pc
  <2>2. /\ k \in ReqSet /\ k.pc = pc /\ k.gen = req[q].gen /\ k.tok = req[q].tok /\ k.doc = store.doc
        /\ k.refused = req[q].refused /\ k.tt = req[q].tt /\ k.at = req[q].at /\ k.seen = req[q].seen
    BY <1>0, <2>1 DEF ReqSet, Pcs
  <2> HIDE DEF k
  <2>3. DocOK(k) /\ Admitted(k) /\ Admitted(req[q])
    BY <1>0, <2>1, <2>2 DEF DocOK, Admitted
  <2>4. ReqOK(k)
    BY <1>0, <2>2, <2>3, AdmittedOK
  <2> QED
    BY <2>1, <2>2, <2>4, OneMoves DEF Resolve
<1>3. 200 \in Nat /\ 502 \in Nat
  OBVIOUS
<1> QED
  BY <1>1, <1>2, <1>3 DEF Resolve

LEMMA ClientCertificateInv ==
    ASSUME RequestsInv, NEW q \in Reqs, ClientCertificate(q)
    PROVE  RequestsInv'
<1>0. /\ req[q] \in ReqSet /\ ReqOK(req[q]) /\ req[q].pc = "cert" /\ store.cert \in Nat
      /\ req[q].tt = 0 /\ req[q].refused = 0
  BY AtReq DEF ClientCertificate, RequestsInv, ReqPart, ReqTypes, ReqOK, DocOK, MayHold
<1>1. CASE req' = [req EXCEPT ![q] = Answered(req[q], 502)]
  <2>1. 502 \in Nat /\ req[q] \in ReqSet
    BY <1>0
  <2>2. UNCHANGED <<now, reg, gens, live, minted, closing, pruning, cert, routes, tts, store, load>>
    BY DEF ClientCertificate
  <2> QED
    BY <1>1, <2>1, <2>2, OneEnds
<1>2. CASE req' = [req EXCEPT ![q] =
             [req[q] EXCEPT !.ver = store.cert,
                            !.pc = IF cert = store.cert THEN "transport" ELSE "cache"]]
  <2> DEFINE pc == IF cert = store.cert THEN "transport" ELSE "cache"
             k == [req[q] EXCEPT !.ver = store.cert, !.pc = pc]
  <2>1. req' = [req EXCEPT ![q] = k] /\ pc \in {"transport", "cache"}
    BY <1>2
  <2> HIDE DEF pc
  <2>2. /\ k \in ReqSet /\ k.pc = pc /\ k.gen = req[q].gen /\ k.tok = req[q].tok /\ k.doc = req[q].doc
        /\ k.refused = req[q].refused /\ k.tt = req[q].tt /\ k.at = req[q].at /\ k.seen = req[q].seen
    BY <1>0, <2>1 DEF ReqSet, Pcs
  <2> HIDE DEF k
  <2>3. DocOK(k) /\ Admitted(k) /\ Admitted(req[q])
    BY <1>0, <2>1, <2>2 DEF ReqOK, DocOK, Admitted
  <2>4. ReqOK(k)
    BY <1>0, <2>2, <2>3, AdmittedOK
  <2> QED
    BY <2>1, <2>2, <2>4, OneMoves DEF ClientCertificate
<1> QED
  BY <1>1, <1>2 DEF ClientCertificate

\* cacheCert keeps what it parsed only while a registered route names it.
LEMMA CacheCertInv ==
    ASSUME RequestsInv, NEW q \in Reqs, CacheCert(q)
    PROVE  RequestsInv'
<1>0. /\ req[q] \in ReqSet /\ ReqOK(req[q]) /\ req[q].pc = "cache" /\ req \in [Reqs -> ReqSet]
      /\ req[q].tt = 0 /\ req[q].refused = 0 /\ RegPart /\ ReqPart
  BY AtReq DEF CacheCert, RequestsInv, ReqPart, ReqTypes, ReqOK, DocOK, MayHold
<1> DEFINE k == [req[q] EXCEPT !.pc = "transport"]
<1>1. req' = [req EXCEPT ![q] = k]
  BY <1>0 DEF CacheCert
<1>2. /\ k \in ReqSet /\ k.pc = "transport" /\ k.gen = req[q].gen /\ k.tok = req[q].tok /\ k.doc = req[q].doc
      /\ k.refused = req[q].refused /\ k.tt = req[q].tt /\ k.at = req[q].at /\ k.seen = req[q].seen
  BY <1>0 DEF ReqSet, Pcs
<1> HIDE DEF k
<1>3. DocOK(k) /\ Admitted(k) /\ Admitted(req[q])
  BY <1>0, <1>2 DEF ReqOK, DocOK, Admitted
<1>4. ReqOK(k)
  BY <1>0, <1>2, <1>3, AdmittedOK
<1>5. Grows
  BY GrowsIfSame DEF CacheCert
<1>6. ReqPart'
  BY <1>0, <1>1, <1>2, <1>4, <1>5, ReqOKStays, ReqMoves
<1>7. \A p \in Reqs : req'[p].tt = req[p].tt
  BY <1>0, <1>1, <1>2
<1>8. \A s \in Slots : Holders(s)' = Holders(s)
  BY <1>7 DEF Holders
<1>9. CertNamed'
  BY <1>0 DEF CacheCert, RegPart, CertNamed, Named, Cached
<1>10. RegPart'
  BY <1>0, <1>8, <1>9 DEF CacheCert, RegPart, RegTypes, GensOK, SlotsOK, Registered, Counted
<1> QED
  BY <1>6, <1>10 DEF RequestsInv

\* matcher: what it drops has expired.
LEMMA UnexpiredFacts ==
    ASSUME NEW t \in Nat, NEW s \in Seq(Token)
    PROVE  /\ Unexpired(s, t) \in Seq(Token)
           /\ \A u \in Token : Contains(s, u) => u.exp <= t \/ Contains(Unexpired(s, t), u)
<1> DEFINE I == {i \in 1..Len(s) : t < s[i].exp}
<1>1. Unexpired(s, t) = Staying(s, I)
  BY DEF Unexpired
<1>2. I \in SUBSET (1..Len(s))
  OBVIOUS
<1>3. Staying(s, I) \in Seq(Token) /\ \A i \in I : Contains(Staying(s, I), s[i])
  BY <1>2, StayingFacts
<1>4. ASSUME NEW u \in Token, Contains(s, u), ~(u.exp <= t)
      PROVE  Contains(Unexpired(s, t), u)
  <2>1. PICK i \in 1..Len(s) : s[i] = u
    BY <1>4 DEF Contains
  <2>2. u.exp \in Nat
    BY RequestsAssumption DEF Token
  <2>3. i \in I
    BY <1>4, <2>1, <2>2
  <2> QED
    BY <1>1, <1>3, <2>1, <2>3
<1> QED
  BY <1>1, <1>3, <1>4

\* The live tokens of one registration change, and lose only what expired or, past
\* maxLive, was dropped.
LEMMA LiveGrows ==
    ASSUME RequestsInv, NEW g \in 1..MaxGen, NEW l \in LiveSet, live' = [live EXCEPT ![g] = l],
           live[g].over => l.over,
           \A u \in Token : Contains(live[g].toks, u) => u.exp <= now \/ l.over \/ Contains(l.toks, u),
           minted' \in SUBSET Token, minted \subseteq minted', UNCHANGED <<now, gens, store, load>>
    PROVE  Grows /\ live'[g] = l
<1>1. live \in [1..MaxGen -> LiveSet] /\ now \in Nat /\ gens \in 0..MaxGen /\ store \in [doc : Nat, cert : Nat]
      /\ ReqTypes
  BY DEF RequestsInv, ReqPart, RegPart, RegTypes, ReqTypes
<1>2. live' \in [1..MaxGen -> LiveSet] /\ live'[g] = l /\ \A h \in 1..MaxGen : h # g => live'[h] = live[h]
  BY <1>1
<1>3. \A h \in 1..MaxGen :
         /\ live[h].over => live'[h].over
         /\ \A u \in Token : Contains(live[h].toks, u) =>
              u.exp <= now' \/ live'[h].over \/ Contains(live'[h].toks, u)
  BY <1>2
<1>4. gens \in Nat /\ gens <= MaxGen /\ store.doc <= store'.doc /\ now <= now' /\ gens <= gens'
  BY <1>1, RequestsAssumption
<1> QED
  BY <1>1, <1>2, <1>3, <1>4 DEF Grows

LEMMA MintInv ==
    ASSUME RequestsInv, NEW i \in Ids, NEW r \in RouteNames, NEW exp \in Nat, Mint(i, r, exp)
    PROVE  RequestsInv'
<1> DEFINE g == reg[i]
           t == [id |-> i, gen |-> g, route |-> r, exp |-> exp]
<1>1. g \in 1..MaxGen /\ live \in [1..MaxGen -> LiveSet] /\ minted \in SUBSET Token
  BY RequestsAssumption DEF Mint, RequestsInv, ReqPart, RegPart, RegTypes, ReqTypes
<1>2. t \in Token
  BY <1>1 DEF Token
<1>3. live' = [live EXCEPT ![g] = Remember(live[g], t)] /\ minted' = minted \cup {t} /\ live[g] \in LiveSet
  BY <1>1 DEF Mint
<1>u. UNCHANGED <<now, gens, store, load, reg, closing, pruning, cert, routes, tts, req>>
  BY DEF Mint
<1> HIDE DEF t, g
<1>4. Grows
  <2> DEFINE l == Remember(live[g], t)
  <2>1. /\ l \in LiveSet /\ (live[g].over => l.over)
        /\ \A u \in Token : Contains(live[g].toks, u) => u.exp <= now \/ l.over \/ Contains(l.toks, u)
    BY <1>2, <1>3, RememberFacts
  <2>2. live' = [live EXCEPT ![g] = l] /\ minted' \in SUBSET Token /\ minted \subseteq minted'
    BY <1>1, <1>2, <1>3
  <2> HIDE DEF l
  <2> QED
    BY <1>1, <1>u, <2>1, <2>2, LiveGrows
<1>5. ReqPart'
  BY <1>4, <1>u, ReqStays DEF RequestsInv
<1>6. RegPart'
  BY <1>u, RegStays DEF RequestsInv
<1> QED
  BY <1>5, <1>6 DEF RequestsInv

LEMMA ShareNat ==
    ASSUME RequestsInv
    PROVE  Share \in Nat
<1> DEFINE S == {i \in Ids : reg[i] # 0}
           n == Cardinality(S)
           d == IF n = 0 THEN 1 ELSE n
<1>1. n \in Nat
  BY RequestsAssumption, FS_Subset, FS_CardinalityType
<1>2. d \in Nat \ {0} /\ Budget \in Nat /\ MaxHeld \in Nat
  BY <1>1, RequestsAssumption
<1>3. Share = IF Budget \div d > MaxHeld THEN Budget \div d ELSE MaxHeld
  BY DEF Share
<1> HIDE DEF d
<1>4. Budget \div d \in Nat
  BY <1>2
<1> QED
  BY <1>2, <1>3, <1>4

LEMMA LookupInv ==
    ASSUME RequestsInv, NEW q \in Reqs, NEW i \in Ids, NEW r \in RouteNames,
           NEW t \in minted \cup {NoToken}, NEW body \in Nat, Lookup(q, i, r, t, body)
    PROVE  RequestsInv'
<1>0. /\ req[q] \in ReqSet /\ req[q].pc = "idle" /\ req[q].tt = 0 /\ req \in [Reqs -> ReqSet]
      /\ live \in [1..MaxGen -> LiveSet] /\ minted \in SUBSET Token /\ ReqTypes
      /\ reg[i] \in 0..gens /\ gens \in 0..MaxGen
  BY AtReq DEF Lookup, RequestsInv, ReqPart, RegPart, RegTypes, ReqTypes, ReqOK, MayHold
<1>u. UNCHANGED <<now, reg, gens, minted, closing, pruning, cert, routes, tts, store, load>>
  BY DEF Lookup
<1>1. ASSUME NEW status \in Nat, req' = [req EXCEPT ![q] = Answered(Idle, status)], UNCHANGED live
      PROVE  RequestsInv'
  <2>1. Idle \in ReqSet /\ Idle.tt = req[q].tt
    BY <1>0, IdleFacts
  <2>2. UNCHANGED <<now, reg, gens, live, minted, closing, pruning, cert, routes, tts, store, load>>
    BY <1>1, <1>u
  <2> QED
    BY <1>1, <2>1, <2>2, OneEnds
<1>2. CASE /\ reg[i] # 0 /\ Valid(t, reg[i], r)
           /\ live' = [live EXCEPT ![reg[i]] = Remember(@, t)]
           /\ req' = [req EXCEPT ![q] =
                [Idle EXCEPT !.gen = reg[i], !.route = r, !.tok = t, !.body = body,
                             !.share = IF body = 0 THEN 0 ELSE Share,
                             !.pc = IF body = 0 THEN "scan" ELSE "take"]]
  <2> DEFINE g == reg[i]
             pc == IF body = 0 THEN "scan" ELSE "take"
             share == IF body = 0 THEN 0 ELSE Share
             k == [Idle EXCEPT !.gen = g, !.route = r, !.tok = t, !.body = body, !.share = share, !.pc = pc]
             l == Remember(live[g], t)
  <2>1. g \in 1..gens /\ g \in 1..MaxGen /\ g \in 0..MaxGen
    BY <1>0, <1>2, RequestsAssumption
  <2>2. t.gen = g /\ t \in minted /\ t \in Token
    <3>1. t.gen = g /\ NoToken.gen = 0
      BY <1>2 DEF Valid, NoToken
    <3>2. t # NoToken
      BY <1>2, <3>1
    <3> QED
      BY <1>0, <3>1, <3>2
  <2>3. share \in Nat /\ pc \in {"scan", "take"}
    BY ShareNat
  <2>4. req' = [req EXCEPT ![q] = k] /\ live' = [live EXCEPT ![g] = l] /\ live[g] \in LiveSet
    BY <1>0, <1>2, <2>1
  <2>5. /\ l \in LiveSet /\ (live[g].over => l.over) /\ (l.over \/ Contains(l.toks, t))
        /\ \A u \in Token : Contains(live[g].toks, u) => u.exp <= now \/ l.over \/ Contains(l.toks, u)
    BY <2>2, <2>4, RememberFacts
  <2> HIDE DEF g, pc, share, l
  <2>6. /\ k \in ReqSet /\ k.pc = pc /\ k.gen = g /\ k.tok = t /\ k.doc = 0 /\ k.refused = 0 /\ k.tt = 0
    BY <2>1, <2>2, <2>3 DEF Idle, ReqSet, Pcs, RouteNames
  <2>a. PICK x \in ReqSet :
          /\ req' = [req EXCEPT ![q] = x] /\ x.pc \in {"scan", "take"} /\ x.gen = g /\ x.tok = t
          /\ x.doc = 0 /\ x.refused = 0 /\ x.tt = 0
    <3> HIDE DEF k
    <3> QED
      BY <2>3, <2>4, <2>6
  <2> HIDE DEF k
  <2>7. Grows /\ live'[g] = l
    BY <1>0, <1>u, <2>1, <2>4, <2>5, LiveGrows
  <2>8. ReqOK(x)'
    <3>0. store.doc \in Nat
      BY <1>0 DEF ReqTypes
    <3>1. DocOK(x)'
      BY <1>u, <2>a, <3>0 DEF DocOK
    <3>2. TokenOK(x)'
      BY <1>u, <2>1, <2>2, <2>5, <2>7, <2>a DEF TokenOK, Going, Admitted, Holding, Unscanned
    <3> QED
      BY <2>a, <3>1, <3>2 DEF ReqOK
  <2>9. ReqPart'
    BY <2>7, <2>8, <2>a, ReqMoves DEF RequestsInv
  <2>10. \A p \in Reqs : req'[p].tt = req[p].tt
    BY <1>0, <2>a
  <2>11. RegPart'
    BY <1>u, <2>10, RegStays DEF RequestsInv
  <2> QED
    BY <2>9, <2>11 DEF RequestsInv
<1>3. \/ req' = [req EXCEPT ![q] = Answered(Idle, 401)] /\ UNCHANGED live
      \/ req' = [req EXCEPT ![q] = Answered(Idle, 404)] /\ UNCHANGED live
      \/ /\ reg[i] # 0 /\ Valid(t, reg[i], r)
         /\ live' = [live EXCEPT ![reg[i]] = Remember(@, t)]
         /\ req' = [req EXCEPT ![q] =
              [Idle EXCEPT !.gen = reg[i], !.route = r, !.tok = t, !.body = body,
                           !.share = IF body = 0 THEN 0 ELSE Share,
                           !.pc = IF body = 0 THEN "scan" ELSE "take"]]
  BY DEF Lookup
<1>4. 401 \in Nat /\ 404 \in Nat
  OBVIOUS
<1> QED
  BY <1>1, <1>2, <1>3, <1>4

\* The instant of the scan: the token has not expired then.
LEMMA InstantInv ==
    ASSUME RequestsInv, NEW q \in Reqs, Instant(q)
    PROVE  RequestsInv'
<1>0. req[q] \in ReqSet /\ ReqOK(req[q]) /\ req[q].pc = "scan" /\ now \in Nat
  BY AtReq DEF Instant, RequestsInv, ReqPart, ReqTypes
<1>u. UNCHANGED <<now, reg, gens, live, minted, closing, pruning, cert, routes, tts, store, load>>
  BY DEF Instant
<1>1. CASE req' = [req EXCEPT ![q] = Answered(req[q], 401)]
  <2>1. 401 \in Nat
    OBVIOUS
  <2> QED
    BY <1>0, <1>1, <1>u, <2>1, OneEnds
<1>2. CASE ~Expired(req[q]) /\ req' = [req EXCEPT ![q] = [req[q] EXCEPT !.at = now, !.pc = "match"]]
  <2> DEFINE k == [req[q] EXCEPT !.at = now, !.pc = "match"]
  <2>1. /\ k \in ReqSet /\ k.pc = "match" /\ k.gen = req[q].gen /\ k.tok = req[q].tok /\ k.doc = req[q].doc
        /\ k.refused = req[q].refused /\ k.tt = req[q].tt /\ k.at = now
    BY <1>0 DEF ReqSet, Pcs
  <2>2. req' = [req EXCEPT ![q] = k]
    BY <1>2
  <2> HIDE DEF k
  <2>3. req[q].tok.exp \in Nat
    <3>1. NoToken.exp = 0 /\ req[q].tok \in Token \cup {NoToken}
      BY <1>0 DEF NoToken, ReqSet
    <3> QED
      BY <3>1 DEF Token
  <2>4. now < req[q].tok.exp
    BY <1>0, <1>2, <2>3 DEF Expired
  <2>5. TokenOK(k)
    BY <1>0, <2>1, <2>4 DEF ReqOK, TokenOK, Going, Admitted, Holding, Unscanned
  <2>6. DocOK(k) /\ k.tt = 0
    BY <1>0, <2>1 DEF ReqOK, DocOK, MayHold
  <2>7. ReqOK(k)
    BY <2>5, <2>6 DEF ReqOK
  <2> QED
    BY <1>u, <2>1, <2>2, <2>7, OneMoves
<1> QED
  BY <1>1, <1>2 DEF Instant

LEMMA ScanInv ==
    ASSUME RequestsInv, NEW q \in Reqs, Scan(q)
    PROVE  RequestsInv'
<1> DEFINE r == req[q]
           g == r.gen
           kept == Unexpired(live[g].toks, r.at)
<1>0. /\ r \in ReqSet /\ ReqOK(r) /\ r.pc = "match" /\ r.tt = 0 /\ r.refused = 0 /\ req \in [Reqs -> ReqSet]
      /\ live \in [1..MaxGen -> LiveSet] /\ minted \in SUBSET Token /\ ReqTypes /\ now \in Nat
      /\ gens \in 0..MaxGen /\ r.at \in Nat
  BY AtReq DEF Scan, RequestsInv, ReqPart, RegPart, RegTypes, ReqTypes, ReqOK, DocOK, MayHold, ReqSet
<1>u. UNCHANGED <<now, reg, gens, minted, closing, pruning, cert, routes, tts, store, load>>
  BY DEF Scan
<1>s. live' = [live EXCEPT ![g].toks = kept]
  BY DEF Scan
<1> DEFINE l == [live[g] EXCEPT !.toks = kept]
<1>1. g \in 1..gens /\ g \in 1..MaxGen /\ r.tok \in minted /\ r.tok \in Token /\ r.tok.gen = g
  BY <1>0, RequestsAssumption DEF ReqOK, TokenOK, Going
<1>2. live' = [live EXCEPT ![g] = l] /\ live[g] \in LiveSet /\ live[g].toks \in Seq(Token)
  BY <1>0, <1>s, <1>1 DEF LiveSet
<1>a. kept \in Seq(Token) /\ \A u \in Token : Contains(live[g].toks, u) => u.exp <= r.at \/ Contains(kept, u)
  BY <1>0, <1>2, UnexpiredFacts
<1>b. r.at <= now /\ r.at < r.tok.exp /\ r.tok.exp \in Nat
  BY <1>0, <1>1 DEF ReqOK, TokenOK, Token
<1>c. \A u \in Token : u.exp <= r.at => u.exp <= now
  BY <1>0, <1>b DEF Token
<1>3. kept \in Seq(Token) /\ \A u \in Token : Contains(live[g].toks, u) => u.exp <= now \/ Contains(kept, u)
  BY <1>a, <1>c
<1>4. ~(r.tok.exp <= r.at)
  BY <1>0, <1>b
<1>5. live[g].over \/ Contains(kept, r.tok) \/ r.tok.exp <= now
  BY <1>0, <1>1, <1>a, <1>4 DEF ReqOK, TokenOK, Unscanned
<1>6. Contains(kept, r.tok) \in BOOLEAN
  BY DEF Contains
<1> DEFINE seen == Contains(kept, r.tok)
           k == [r EXCEPT !.pc = "resolve", !.share = 0, !.seen = seen]
<1>7. \/ \E status \in Nat : req' = [req EXCEPT ![q] = Answered(r, status)]
      \/ req' = [req EXCEPT ![q] = k]
  <2>1. 400 \in Nat /\ 403 \in Nat /\ 404 \in Nat /\ 413 \in Nat /\ 415 \in Nat
    OBVIOUS
  <2>2. \/ \E status \in {400, 403, 404, 413, 415} : req' = [req EXCEPT ![q] = Answered(r, status)]
        \/ req' = [req EXCEPT ![q] = k]
    BY DEF Scan
  <2> HIDE DEF k
  <2> QED
    BY <2>1, <2>2
<1> HIDE DEF seen, kept
<1>8. l \in LiveSet /\ l.toks = kept /\ l.over = live[g].over
  BY <1>2, <1>3 DEF LiveSet
<1> HIDE DEF l
<1>9. Grows /\ live'[g] = l
  BY <1>0, <1>u, <1>1, <1>2, <1>3, <1>8, LiveGrows
<1>10. ASSUME NEW x \in ReqSet, ReqOK(x)', x.tt = r.tt, req' = [req EXCEPT ![q] = x]
       PROVE  RequestsInv'
  <2>1. ReqPart'
    BY <1>9, <1>10, ReqMoves DEF RequestsInv
  <2>2. \A p \in Reqs : req'[p].tt = req[p].tt
    BY <1>0, <1>10
  <2>3. RegPart'
    BY <1>u, <2>2, RegStays DEF RequestsInv
  <2> QED
    BY <2>1, <2>3 DEF RequestsInv
<1>11. ASSUME NEW status \in Nat, req' = [req EXCEPT ![q] = Answered(r, status)]
       PROVE  RequestsInv'
  <2>1. PICK a \in ReqSet : a = Answered(r, status) /\ a.pc = "done" /\ a.tt = r.tt /\ a.doc = 0 /\ a.refused = 0
    BY <1>0, AnsweredFacts
  <2>2. req' = [req EXCEPT ![q] = a]
    BY <1>11, <2>1
  <2>3. ReqOK(a)
    BY <1>0, <2>1, EndedOK
  <2>4. ReqOK(a)'
    BY <1>9, <2>3, ReqOKStays
  <2> QED
    BY <1>10, <2>1, <2>2, <2>4
<1>12. CASE req' = [req EXCEPT ![q] = k]
  <2>1. /\ k \in ReqSet /\ k.pc = "resolve" /\ k.gen = g /\ k.tok = r.tok /\ k.doc = r.doc
        /\ k.refused = r.refused /\ k.tt = r.tt /\ k.seen = seen /\ k.at = r.at
    BY <1>0, <1>6 DEF ReqSet, Pcs, seen
  <2> HIDE DEF k
  <2>2. PICK x \in ReqSet :
          /\ req' = [req EXCEPT ![q] = x] /\ x.pc = "resolve" /\ x.gen = g /\ x.tok = r.tok /\ x.doc = r.doc
          /\ x.refused = r.refused /\ x.tt = r.tt /\ x.seen = seen /\ x.at = r.at
    BY <1>12, <2>1
  <2>3. DocOK(x)'
    <3>1. r.doc <= store.doc /\ store' = store
      BY <1>0, <1>u DEF ReqOK, DocOK
    <3> QED
      BY <1>0, <2>2, <3>1 DEF DocOK
  <2>4. x.seen \/ live'[x.gen].over \/ x.tok.exp <= now'
    BY <1>u, <1>5, <1>8, <1>9, <2>2 DEF seen
  <2>5. TokenOK(x)'
    BY <1>u, <1>1, <1>b, <2>2, <2>4 DEF TokenOK, Going, Admitted, Holding, Unscanned
  <2>6. ReqOK(x)'
    BY <1>0, <2>2, <2>3, <2>5 DEF ReqOK
  <2> QED
    BY <1>10, <2>2, <2>6
<1> QED
  BY <1>7, <1>11, <1>12

LEMMA TickInv ==
    ASSUME RequestsInv, Tick \/ RotateCert
    PROVE  RequestsInv'
<1>1. /\ now \in Nat /\ store \in [doc : Nat, cert : Nat] /\ gens \in 0..MaxGen /\ ReqTypes
      /\ live \in [1..MaxGen -> LiveSet] /\ minted \in SUBSET Token
  BY DEF RequestsInv, ReqPart, RegPart, RegTypes, ReqTypes
<1>2. /\ UNCHANGED <<reg, gens, live, minted, closing, pruning, cert, routes, tts, req, load>>
      /\ now' = now \/ now' = now + 1
      /\ store' = store \/ store' = [store EXCEPT !.cert = @ + 1]
  BY DEF Tick, RotateCert
<1>3. now' \in Nat /\ now <= now'
  BY <1>1, <1>2
<1>4. store' \in [doc : Nat, cert : Nat] /\ store.doc <= store'.doc
  BY <1>1, <1>2
<1>5. gens \in Nat /\ gens <= MaxGen /\ gens' = gens
  BY <1>1, <1>2, RequestsAssumption
<1>6. Grows
  BY <1>1, <1>2, <1>3, <1>4, <1>5 DEF Grows
<1>7. ReqPart'
  BY <1>2, <1>6, ReqStays DEF RequestsInv
<1>8. RegPart'
  BY <1>2, RegStays DEF RequestsInv
<1> QED
  BY <1>7, <1>8 DEF RequestsInv

\* The 401 that is renewed: the retry has a later document than the refused one.
LEMMA RenewedInv ==
    ASSUME RequestsInv, NEW q \in Reqs, Renewed(q)
    PROVE  RequestsInv'
<1> DEFINE r == req[q]
<1>0. /\ r \in ReqSet /\ ReqOK(r) /\ r.pc = "renew" /\ req \in [Reqs -> ReqSet] /\ r.refused = r.doc
      /\ r.doc \in Nat /\ r.doc <= store.doc /\ store \in [doc : Nat, cert : Nat] /\ store.doc \in Nat
      /\ ReqTypes /\ gens \in 0..MaxGen /\ now \in Nat /\ live \in [1..MaxGen -> LiveSet]
      /\ minted \in SUBSET Token
  BY AtReq DEF Renewed, RequestsInv, ReqPart, RegPart, RegTypes, ReqTypes, ReqOK, DocOK, ReqSet
<1>u. UNCHANGED <<now, reg, gens, live, minted, closing, pruning, cert, routes, tts, load>>
  BY DEF Renewed
<1>1. CASE req' = [req EXCEPT ![q] = Answered(r, 401)] /\ store' = store
  <2>1. 401 \in Nat /\ r \in ReqSet
    BY <1>0
  <2>2. UNCHANGED <<now, reg, gens, live, minted, closing, pruning, cert, routes, tts, store, load>>
    BY <1>1, <1>u
  <2> QED
    BY <1>1, <2>1, <2>2, OneEnds
<1>2. ASSUME NEW d \in Nat, req' = [req EXCEPT ![q] = [r EXCEPT !.doc = d, !.pc = "send"]],
             d > r.doc, store' \in [doc : Nat, cert : Nat], d <= store'.doc, store.doc <= store'.doc
      PROVE  RequestsInv'
  <2> DEFINE k == [r EXCEPT !.doc = d, !.pc = "send"]
  <2>1. /\ k \in ReqSet /\ k.pc = "send" /\ k.gen = r.gen /\ k.tok = r.tok /\ k.doc = d
        /\ k.refused = r.refused /\ k.tt = r.tt /\ k.at = r.at /\ k.seen = r.seen
    BY <1>0 DEF ReqSet, Pcs
  <2>2. req' = [req EXCEPT ![q] = k]
    BY <1>2
  <2> HIDE DEF k
  <2>3. PICK x \in ReqSet :
          /\ req' = [req EXCEPT ![q] = x] /\ x.pc = "send" /\ x.gen = r.gen /\ x.tok = r.tok /\ x.doc = d
          /\ x.refused = r.refused /\ x.tt = r.tt /\ x.at = r.at /\ x.seen = r.seen
    BY <2>1, <2>2
  <2>4. Grows
    <3>1. gens \in Nat /\ gens <= MaxGen
      BY <1>0, RequestsAssumption
    <3>2. now <= now' /\ gens <= gens'
      BY <1>0, <1>u, <3>1
    <3> QED
      BY <1>0, <1>2, <1>u, <3>1, <3>2 DEF Grows
  <2>5. DocOK(x)'
    BY <1>0, <1>2, <2>3 DEF DocOK
  <2>6. TokenOK(x)'
    BY <1>0, <1>u, <2>3 DEF ReqOK, TokenOK, Going, Admitted, Holding, Unscanned
  <2>7. ReqOK(x)'
    BY <2>3, <2>5, <2>6 DEF ReqOK, MayHold
  <2>8. ReqPart'
    BY <2>3, <2>4, <2>7, ReqMoves DEF RequestsInv
  <2>9. \A p \in Reqs : req'[p].tt = req[p].tt
    BY <1>0, <2>3
  <2>10. RegPart'
    BY <1>u, <2>9, RegStays DEF RequestsInv
  <2> QED
    BY <2>8, <2>10 DEF RequestsInv
<1>3. CASE /\ store.doc = r.doc /\ store' = [store EXCEPT !.doc = @ + 1]
           /\ req' = [req EXCEPT ![q] = [r EXCEPT !.doc = store.doc + 1, !.pc = "send"]]
  <2>1. store' \in [doc : Nat, cert : Nat] /\ store'.doc = store.doc + 1
    BY <1>0, <1>3
  <2>2. /\ store.doc + 1 \in Nat /\ store.doc + 1 > r.doc /\ store.doc + 1 <= store'.doc
        /\ store.doc <= store'.doc
    BY <1>0, <1>3, <2>1
  <2> QED
    BY <1>2, <1>3, <2>1, <2>2
<1>4. CASE /\ store.doc # r.doc /\ store' = store
           /\ req' = [req EXCEPT ![q] = [r EXCEPT !.doc = store.doc, !.pc = "send"]]
  <2>1. store.doc > r.doc /\ store.doc <= store'.doc
    BY <1>0, <1>4
  <2> QED
    BY <1>0, <1>2, <1>4, <2>1
<1>5. \/ req' = [req EXCEPT ![q] = Answered(r, 401)] /\ store' = store
      \/ /\ store.doc = r.doc /\ store' = [store EXCEPT !.doc = @ + 1]
         /\ req' = [req EXCEPT ![q] = [r EXCEPT !.doc = store.doc + 1, !.pc = "send"]]
      \/ /\ store.doc # r.doc /\ store' = store
         /\ req' = [req EXCEPT ![q] = [r EXCEPT !.doc = store.doc, !.pc = "send"]]
  BY DEF Renewed, RenewedSince
<1> QED
  BY <1>1, <1>3, <1>4, <1>5

-----------------------------------------------------------------------------
\* The registrations and the transports.

LEMMA PruneCertsInv ==
    ASSUME RequestsInv, PruneCerts
    PROVE  RequestsInv'
<1>u. /\ UNCHANGED <<now, reg, gens, live, minted, closing, routes, tts, store, req, load>>
      /\ pruning' = pruning - 1 /\ pruning > 0 /\ cert' = IF Named THEN cert ELSE 0
  BY DEF PruneCerts
<1>1. ReqPart'
  <2>1. Grows
    BY <1>u, GrowsIfSame
  <2> QED
    BY <1>u, <2>1, ReqStays DEF RequestsInv
<1>2. pruning' \in Nat
  BY <1>u DEF RequestsInv, RegPart, RegTypes
<1>3. RegTypes'
  BY <1>u, <1>2 DEF RequestsInv, RegPart, RegTypes
<1>4. CertNamed'
  BY <1>u DEF CertNamed, Named
<1>5. \A s \in Slots : Holders(s)' = Holders(s)
  BY <1>u DEF Holders
<1>6. GensOK' /\ SlotsOK' /\ Counted'
  BY <1>u, <1>5 DEF RequestsInv, RegPart, GensOK, SlotsOK, Counted, Registered
<1> QED
  BY <1>1, <1>3, <1>4, <1>6 DEF RequestsInv, RegPart

\* A registration ends, by a removal or by one that takes its place: it is in
\* closing from then on.
LEMMA EntryChanges ==
    ASSUME RequestsInv, NEW i \in Ids, NEW g \in Nat, g = 0 \/ g = gens + 1,
           reg' = [reg EXCEPT ![i] = g], closing' = closing \cup ({reg[i]} \ {0}),
           gens' = (IF g = 0 THEN gens ELSE g), gens' \in 0..MaxGen, g # 0 \/ reg[i] # 0,
           UNCHANGED <<now, live, minted, pruning, cert, routes, tts, store, req, load>>
    PROVE  RequestsInv'
<1>0. /\ gens \in Nat /\ gens \in 0..MaxGen /\ MaxGen \in Nat /\ reg \in [Ids -> 0..gens] /\ reg[i] \in 0..gens
      /\ closing \in SUBSET (1..gens) /\ gens' \in Nat /\ gens <= gens' /\ gens <= MaxGen
  BY RequestsAssumption DEF RequestsInv, RegPart, RegTypes
<1>1. Grows
  <2>1. /\ now \in Nat /\ store \in [doc : Nat, cert : Nat] /\ ReqTypes
        /\ live \in [1..MaxGen -> LiveSet] /\ minted \in SUBSET Token
    BY DEF RequestsInv, ReqPart, ReqTypes
  <2>2. now <= now' /\ store.doc <= store'.doc
    BY <2>1
  <2> QED
    BY <1>0, <2>1, <2>2 DEF Grows
<1>2. ReqPart'
  BY <1>1, ReqStays DEF RequestsInv
<1>3. reg' \in [Ids -> 0..gens'] /\ closing' \in SUBSET (1..gens')
  <2>1. \A j \in Ids : reg'[j] \in 0..gens'
    BY <1>0
  <2>2. reg' \in [Ids -> 0..gens']
    BY <1>0, <2>1
  <2>3. \A h \in closing' : h \in 1..gens'
    BY <1>0
  <2> QED
    BY <2>2, <2>3
<1>4. RegTypes'
  BY <1>3 DEF RequestsInv, RegPart, RegTypes
<1>5. CertNamed'
  <2>1. CASE g = 0
    <3>1. reg[i] \in closing'
      BY <2>1
    <3> QED
      BY <3>1 DEF CertNamed
  <2>2. CASE g # 0
    <3>1. reg'[i] # 0
      BY <1>0, <2>2
    <3> QED
      BY <3>1 DEF CertNamed, Named
  <2> QED
    BY <2>1, <2>2
<1>6. ASSUME NEW h \in 1..gens, Registered(h) \/ h \in closing
      PROVE  Registered(h)' \/ h \in closing'
  <2>1. CASE h \in closing
    BY <2>1
  <2>2. CASE Registered(h)
    <3>1. PICK j \in Ids : reg[j] = h
      BY <2>2 DEF Registered
    <3>2. CASE j = i
      <4>1. h # 0
        BY <1>0
      <4> QED
        BY <3>1, <3>2, <4>1
    <3>3. CASE j # i
      <4>1. reg'[j] = h
        BY <1>0, <3>1, <3>3
      <4> QED
        BY <4>1 DEF Registered
    <3> QED
      BY <3>2, <3>3
  <2> QED
    BY <1>6, <2>1, <2>2
<1>7. GensOK'
  <2> SUFFICES ASSUME NEW h \in 1..gens' PROVE Registered(h)' \/ h \in closing' \/ routes'[h].closed
    BY DEF GensOK, Registered
  <2>1. CASE h \in 1..gens
    BY <1>6, <2>1 DEF RequestsInv, RegPart, GensOK
  <2>2. CASE h \notin 1..gens
    <3>1. h = g
      BY <1>0, <2>2
    <3>2. reg'[i] = h
      BY <1>0, <3>1
    <3> QED
      BY <3>2 DEF Registered
  <2> QED
    BY <2>1, <2>2
<1>8. \A s \in Slots : Holders(s)' = Holders(s)
  BY DEF Holders
<1>9. Counted'
  BY <1>8 DEF RequestsInv, RegPart, Counted
<1>10. SlotsOK'
  <2>1. ASSUME NEW s \in Slots, tts[s].used, ~tts[s].retired
        PROVE  \E h \in 1..gens' : routes[h].cur = s /\ (h \in closing' \/ Registered(h)')
    <3>1. PICK h \in 1..gens : routes[h].cur = s /\ (h \in closing \/ Registered(h))
      BY <2>1 DEF RequestsInv, RegPart, SlotsOK
    <3>2. h \in 1..gens'
      BY <1>0
    <3> QED
      BY <1>6, <3>1, <3>2
  <2> QED
    BY <2>1 DEF RequestsInv, RegPart, SlotsOK, Registered
<1> QED
  BY <1>2, <1>4, <1>5, <1>7, <1>9, <1>10 DEF RequestsInv, RegPart

LEMMA AddSandboxInv ==
    ASSUME RequestsInv, NEW i \in Ids, AddSandbox(i)
    PROVE  RequestsInv'
<1>1. gens \in Nat /\ gens + 1 \in Nat /\ gens + 1 # 0 /\ gens' = gens + 1 /\ gens' \in 0..MaxGen
  BY RequestsAssumption DEF AddSandbox, RequestsInv, RegPart, RegTypes
<1>2. /\ reg' = [reg EXCEPT ![i] = gens + 1] /\ closing' = closing \cup ({reg[i]} \ {0})
      /\ UNCHANGED <<now, live, minted, pruning, cert, routes, tts, store, req, load>>
  BY DEF AddSandbox, Retire
<1>3. ASSUME NEW g \in Nat, g = gens + 1 PROVE RequestsInv'
  <2>1. reg' = [reg EXCEPT ![i] = g] /\ gens' = (IF g = 0 THEN gens ELSE g) /\ g # 0
    BY <1>1, <1>2, <1>3
  <2> QED
    BY <1>1, <1>2, <1>3, <2>1, EntryChanges
<1> QED
  BY <1>1, <1>3

LEMMA RemoveSandboxInv ==
    ASSUME RequestsInv, NEW i \in Ids, RemoveSandbox(i)
    PROVE  RequestsInv'
<1>1. /\ reg' = [reg EXCEPT ![i] = 0] /\ closing' = closing \cup ({reg[i]} \ {0}) /\ reg[i] # 0
      /\ UNCHANGED <<now, live, minted, pruning, cert, routes, tts, store, req, load>>
      /\ gens' = gens /\ gens' \in 0..MaxGen
  BY DEF RemoveSandbox, Retire, RequestsInv, RegPart, RegTypes
<1>2. 0 \in Nat /\ gens' = (IF 0 = 0 THEN gens ELSE 0)
  BY <1>1
<1> QED
  BY <1>1, <1>2, EntryChanges

\* Of one transport: a free one has nothing, and a retired one that nobody holds has
\* no connection; an open one serves its route.
TransportOK(t) ==
    /\ t \in TransportSet
    /\ ~t.used => t.refs = 0 /\ ~t.idle /\ ~t.retired
    /\ t.retired /\ t.refs = 0 => ~t.idle
Open(t) == t.used /\ ~t.retired

LEMMA AtSlot ==
    ASSUME RequestsInv, NEW s \in Slots
    PROVE  TransportOK(tts[s]) /\ tts[s].refs \in Nat
  BY DEF RequestsInv, RegPart, RegTypes, SlotsOK, TransportOK, TransportSet

\* The transports change and the registrations do not: the open ones stay open and no
\* other becomes so.
LEMMA TransportsMove ==
    ASSUME RequestsInv, tts' \in [Slots -> TransportSet],
           \A s \in Slots : TransportOK(tts'[s]) /\ (Open(tts'[s]) <=> Open(tts[s])),
           UNCHANGED <<reg, gens, closing, pruning, cert, routes>>, Counted'
    PROVE  RegPart'
<1>1. RegTypes' /\ CertNamed' /\ GensOK'
  BY DEF RequestsInv, RegPart, RegTypes, CertNamed, Named, GensOK, Registered
<1>2. routes \in [1..MaxGen -> [cur : Slots \cup {0}, closed : BOOLEAN]]
  BY DEF RequestsInv, RegPart, RegTypes
<1>3. \A g \in 1..MaxGen : routes[g].cur # 0 => Open(tts'[routes[g].cur])
  BY <1>2 DEF RequestsInv, RegPart, SlotsOK, Open
<1>4. SlotsOK'
  <2>1. \A s \in Slots : Open(tts'[s]) =>
          \E g \in 1..gens : routes[g].cur = s /\ (g \in closing \/ Registered(g))
    BY DEF RequestsInv, RegPart, SlotsOK, Open
  <2>2. \A g, h \in 1..MaxGen : routes[g].cur = routes[h].cur /\ routes[g].cur # 0 => g = h
    BY DEF RequestsInv, RegPart, SlotsOK
  <2>3. \A s \in Slots :
          /\ ~tts'[s].used => tts'[s].refs = 0 /\ ~tts'[s].idle /\ ~tts'[s].retired
          /\ tts'[s].retired /\ tts'[s].refs = 0 => ~tts'[s].idle
    BY DEF TransportOK
  <2> QED
    BY <1>3, <2>1, <2>2, <2>3 DEF SlotsOK, Open, Registered
<1> QED
  BY <1>1, <1>4 DEF RegPart

LEMMA HoldersFinite ==
    ASSUME NEW s
    PROVE  IsFiniteSet(Holders(s)) /\ Cardinality(Holders(s)) \in Nat
<1>1. Holders(s) \in SUBSET Reqs /\ IsFiniteSet(Reqs)
  BY RequestsAssumption DEF Holders
<1> QED
  BY <1>1, FS_Subset, FS_CardinalityType

\* A transport that a request holds has a reference, and is in use.
LEMMA HeldIsUsed ==
    ASSUME RequestsInv, NEW q \in Reqs, NEW s \in Slots, req[q].tt = s
    PROVE  tts[s].refs \in Nat /\ tts[s].refs > 0 /\ tts[s].used
<1>1. q \in Holders(s) /\ Holders(s) # {}
  BY DEF Holders
<1>2. Cardinality(Holders(s)) # 0
  BY <1>1, HoldersFinite, FS_EmptySet
<1>3. tts[s].refs = Cardinality(Holders(s)) /\ tts[s].refs \in Nat
  BY AtSlot DEF RequestsInv, RegPart, Counted
<1>4. tts[s].refs > 0
  BY <1>2, <1>3
<1> QED
  BY <1>3, <1>4, AtSlot DEF TransportOK

LEMMA SendInv ==
    ASSUME RequestsInv, NEW q \in Reqs, Send(q)
    PROVE  RequestsInv'
<1> DEFINE r == req[q]
<1>0. /\ r \in ReqSet /\ ReqOK(r) /\ r.pc = "send" /\ req \in [Reqs -> ReqSet] /\ r.doc \in Nat
      /\ r.doc <= store.doc /\ tts \in [Slots -> TransportSet] /\ ReqTypes
  BY AtReq DEF Send, RequestsInv, ReqPart, RegPart, RegTypes, ReqTypes, ReqOK, DocOK, ReqSet
<1>u. /\ UNCHANGED <<now, reg, gens, live, minted, closing, pruning, cert, routes, store, load>>
      /\ tts' = [s \in Slots |-> IF s = r.tt THEN [tts[s] EXCEPT !.idle = TRUE] ELSE tts[s]]
  BY DEF Send
<1>1. PICK x \in ReqSet : req' = [req EXCEPT ![q] = x] /\ x.tt = r.tt /\ ReqOK(x)
  <2> DEFINE again(status) == status = 401 /\ r.refused = 0 /\ r.route = "plain" /\ Replayable(r)
  <2>0. PICK status \in {200, 401, 502} :
          req' = [req EXCEPT ![q] = IF again(status) THEN [r EXCEPT !.pc = "renew", !.refused = r.doc]
                                    ELSE Answered(r, status)]
    BY DEF Send
  <2> HIDE DEF again
  <2>1. \/ req' = [req EXCEPT ![q] = [r EXCEPT !.pc = "renew", !.refused = r.doc]]
        \/ req' = [req EXCEPT ![q] = Answered(r, status)]
    <3>1. CASE again(status)
      BY <2>0, <3>1
    <3>2. CASE ~again(status)
      BY <2>0, <3>2
    <3> QED
      BY <3>1, <3>2
  <2>2. CASE req' = [req EXCEPT ![q] = Answered(r, status)]
    <3>0. status \in Nat
      OBVIOUS
    <3>1. PICK a \in ReqSet : a = Answered(r, status) /\ a.pc = "done" /\ a.tt = r.tt /\ a.doc = 0 /\ a.refused = 0
      BY <1>0, <3>0, AnsweredFacts
    <3>2. ReqOK(a)
      BY <1>0, <3>1, EndedOK
    <3> QED
      BY <2>2, <3>1, <3>2
  <2>3. CASE req' = [req EXCEPT ![q] = [r EXCEPT !.pc = "renew", !.refused = r.doc]]
    <3> DEFINE k == [r EXCEPT !.pc = "renew", !.refused = r.doc]
    <3>1. /\ k \in ReqSet /\ k.pc = "renew" /\ k.gen = r.gen /\ k.tok = r.tok /\ k.doc = r.doc
          /\ k.refused = r.doc /\ k.tt = r.tt /\ k.at = r.at /\ k.seen = r.seen
      BY <1>0 DEF ReqSet, Pcs
    <3>2. req' = [req EXCEPT ![q] = k]
      BY <2>3
    <3> HIDE DEF k
    <3>3. DocOK(k) /\ Admitted(k) /\ Admitted(r) /\ MayHold(k)
      BY <1>0, <3>1 DEF DocOK, Admitted, MayHold
    <3>4. ReqOK(k)
      BY <1>0, <3>1, <3>3, AdmittedOK
    <3> QED
      BY <3>1, <3>2, <3>4
  <2> QED
    BY <2>1, <2>2, <2>3
<1>2. Grows
  BY <1>u, GrowsIfSame
<1>3. ReqPart'
  BY <1>1, <1>2, ReqOKStays, ReqMoves DEF RequestsInv
<1>4. \A p \in Reqs : req'[p].tt = req[p].tt
  BY <1>0, <1>1
<1>5. \A s \in Slots : Holders(s)' = Holders(s)
  BY <1>4 DEF Holders
<1>6. ASSUME NEW s \in Slots
      PROVE  /\ tts'[s] \in TransportSet /\ TransportOK(tts'[s]) /\ (Open(tts'[s]) <=> Open(tts[s]))
             /\ tts'[s].refs = tts[s].refs
  <2>1. CASE s # r.tt
    <3>1. tts'[s] = tts[s]
      BY <1>u, <2>1
    <3> QED
      BY <3>1, AtSlot DEF TransportOK
  <2>2. CASE s = r.tt
    <3> DEFINE t == [tts[s] EXCEPT !.idle = TRUE]
    <3>1. tts'[s] = t
      BY <1>u, <2>2
    <3>2. /\ t \in TransportSet /\ t.used = tts[s].used /\ t.refs = tts[s].refs /\ t.retired = tts[s].retired
      BY AtSlot DEF TransportOK, TransportSet
    <3> HIDE DEF t
    <3>3. tts[s].refs \in Nat /\ tts[s].refs > 0 /\ tts[s].used
      BY <2>2, HeldIsUsed
    <3>4. tts[s].refs # 0
      BY <3>3
    <3> QED
      BY <3>1, <3>2, <3>3, <3>4 DEF TransportOK, Open
  <2> QED
    BY <2>1, <2>2
<1>7. tts' \in [Slots -> TransportSet]
  BY <1>u, <1>6
<1>8. Counted'
  BY <1>5, <1>6 DEF RequestsInv, RegPart, Counted
<1>9. RegPart'
  BY <1>6, <1>7, <1>8, <1>u, TransportsMove
<1> QED
  BY <1>3, <1>9 DEF RequestsInv

\* trip.done: a retired transport loses its connections with its last request.
LEMMA ReleasedFacts ==
    ASSUME NEW t, TransportOK(t), t.used, t.refs > 0,
           NEW u, u = Settle([t EXCEPT !.refs = @ - 1, !.idle = @ /\ ~(t.retired /\ t.refs = 1)])
    PROVE  TransportOK(u) /\ u.refs = t.refs - 1 /\ (Open(u) <=> Open(t))
<1> DEFINE idle == t.idle /\ ~(t.retired /\ t.refs = 1)
           n == t.refs - 1
           v == [t EXCEPT !.refs = n, !.idle = idle]
<1>1. /\ t \in TransportSet /\ t.refs \in Nat /\ n \in Nat /\ idle \in BOOLEAN /\ t.idle \in BOOLEAN
      /\ t.retired \in BOOLEAN /\ t.used \in BOOLEAN
  BY DEF TransportOK, TransportSet
<1>2. t.retired /\ n = 0 => ~idle
  BY <1>1
<1>3. u = Settle(v)
  OBVIOUS
<1> HIDE DEF idle, n
<1>4. v \in TransportSet /\ v.used = t.used /\ v.refs = n /\ v.retired = t.retired /\ v.idle = idle
  BY <1>1 DEF TransportSet
<1> HIDE DEF v
<1>5. CASE v.retired /\ v.refs = 0 /\ ~v.idle
  <2>1. u = NoTransport
    BY <1>3, <1>5 DEF Settle
  <2>2. /\ NoTransport \in TransportSet /\ ~NoTransport.used /\ NoTransport.refs = 0 /\ ~NoTransport.idle
        /\ ~NoTransport.retired
    BY DEF NoTransport, TransportSet
  <2> QED
    BY <1>1, <1>4, <1>5, <2>1, <2>2 DEF TransportOK, Open, n
<1>6. CASE ~(v.retired /\ v.refs = 0 /\ ~v.idle)
  <2>1. u = v
    BY <1>3, <1>6 DEF Settle
  <2> QED
    BY <1>1, <1>2, <1>4, <1>6, <2>1 DEF TransportOK, Open, n
<1> QED
  BY <1>5, <1>6

LEMMA DoneInv ==
    ASSUME RequestsInv, NEW q \in Reqs, Done(q)
    PROVE  RequestsInv'
<1> DEFINE r == req[q]
           after(t) == [t EXCEPT !.refs = @ - 1, !.idle = @ /\ ~(t.retired /\ t.refs = 1)]
<1>0. /\ r \in ReqSet /\ ReqOK(r) /\ r.pc = "done" /\ req \in [Reqs -> ReqSet] /\ ReqTypes
      /\ tts \in [Slots -> TransportSet]
  BY AtReq DEF Done, RequestsInv, ReqPart, RegPart, RegTypes, ReqTypes
<1>u. /\ UNCHANGED <<now, reg, gens, live, minted, closing, pruning, cert, routes, store, load>>
      /\ tts' = [s \in Slots |-> IF s = r.tt THEN Settle(after(tts[s])) ELSE tts[s]]
      /\ req' = [p \in Reqs |->
           IF p = q THEN Idle
           ELSE IF Frees(r, req[p]) THEN [req[p] EXCEPT !.woken = TRUE] ELSE req[p]]
  BY DEF Done
<1>1. ASSUME NEW p \in Reqs
      PROVE  req'[p] \in ReqSet /\ (ReqOK(req[p])') /\ req'[p].tt = IF p = q THEN 0 ELSE req[p].tt
  <2>1. PICK x \in ReqSet : x = req'[p] /\ ReqOK(x) /\ x.tt = IF p = q THEN 0 ELSE req[p].tt
    <3>1. CASE p = q
      <4>1. req'[p] = Idle
        BY <1>u, <3>1
      <4>2. ReqOK(Idle)
        BY <1>0, IdleFacts, EndedOK
      <4> QED
        BY <3>1, <4>1, <4>2, IdleFacts
    <3>2. CASE p # q /\ ~Frees(r, req[p])
      <4>1. req'[p] = req[p]
        BY <1>u, <3>2
      <4> QED
        BY <3>2, <4>1, AtReq
    <3>3. CASE p # q /\ Frees(r, req[p])
      <4> DEFINE k == [req[p] EXCEPT !.woken = TRUE]
      <4>1. req'[p] = k
        BY <1>u, <3>3
      <4>2. req[p] \in ReqSet /\ ReqOK(req[p]) /\ req[p].pc = "wait"
        BY <3>3, AtReq DEF Frees
      <4>3. /\ k \in ReqSet /\ k.pc = req[p].pc /\ k.gen = req[p].gen /\ k.tok = req[p].tok
            /\ k.doc = req[p].doc /\ k.refused = req[p].refused /\ k.tt = req[p].tt
        BY <4>2 DEF ReqSet
      <4> HIDE DEF k
      <4>4. ReqOK(k)
        BY <4>2, <4>3, HoldingOK DEF Holding
      <4> QED
        BY <3>3, <4>1, <4>3, <4>4
    <3> QED
      BY <3>1, <3>2, <3>3
  <2>2. Grows
    BY <1>u, GrowsIfSame
  <2>3. ReqOK(x)'
    BY <2>1, <2>2, ReqOKStays
  <2>4. ReqOK(req[p])'
    BY <2>1, <2>3 DEF ReqOK, TokenOK, DocOK, MayHold, Going, Admitted
  <2> QED
    BY <2>1, <2>4
<1>2. ReqPart'
  <2>1. req' \in [Reqs -> ReqSet]
    BY <1>1, <1>u
  <2>2. ReqTypes'
    BY <1>0, <1>u, <2>1 DEF ReqTypes
  <2> QED
    BY <1>1, <2>2 DEF ReqPart
<1>3. ASSUME NEW s \in Slots
      PROVE  /\ tts'[s] \in TransportSet /\ TransportOK(tts'[s]) /\ (Open(tts'[s]) <=> Open(tts[s]))
             /\ tts'[s].refs = Cardinality(Holders(s)')
  <2>0. tts[s].refs = Cardinality(Holders(s)) /\ s # 0
    BY RequestsAssumption DEF RequestsInv, RegPart, Counted
  <2>1. CASE s # r.tt
    <3>1. tts'[s] = tts[s]
      BY <1>u, <2>1
    <3>2. Holders(s)' = Holders(s)
      BY <1>1, <2>0, <2>1 DEF Holders
    <3> QED
      BY <2>0, <3>1, <3>2, AtSlot DEF TransportOK
  <2>2. CASE s = r.tt
    <3>1. tts'[s] = Settle(after(tts[s]))
      BY <1>u, <2>2
    <3>2. tts[s].refs \in Nat /\ tts[s].refs > 0 /\ tts[s].used /\ TransportOK(tts[s])
      BY <2>2, HeldIsUsed, AtSlot
    <3>3. TransportOK(tts'[s]) /\ tts'[s].refs = tts[s].refs - 1 /\ (Open(tts'[s]) <=> Open(tts[s]))
      BY <3>1, <3>2, ReleasedFacts
    <3>4. Holders(s)' = Holders(s) \ {q} /\ q \in Holders(s)
      BY <1>1, <2>0, <2>2 DEF Holders
    <3>5. Cardinality(Holders(s) \ {q}) = Cardinality(Holders(s)) - 1
      BY <3>4, HoldersFinite, FS_RemoveElement
    <3> QED
      BY <2>0, <3>3, <3>4, <3>5 DEF TransportOK
  <2> QED
    BY <2>1, <2>2
<1>4. tts' \in [Slots -> TransportSet]
  BY <1>u, <1>3
<1>5. Counted'
  BY <1>3 DEF Counted
<1>6. RegPart'
  BY <1>3, <1>4, <1>5, <1>u, TransportsMove
<1> QED
  BY <1>2, <1>6 DEF RequestsInv

\* The slots are sound when each transport is, the open ones are those of the
\* registrations that are served or about to be closed, and none is of two.
LEMMA SlotsFromOpen ==
    ASSUME \A s \in Slots : TransportOK(tts'[s]),
           \A s \in Slots : Open(tts'[s]) =>
               \E g \in 1..gens' : routes'[g].cur = s /\ (g \in closing' \/ Registered(g)'),
           \A g \in 1..MaxGen : routes'[g].cur # 0 => Open(tts'[routes'[g].cur]),
           \A g, h \in 1..MaxGen : routes'[g].cur = routes'[h].cur /\ routes'[g].cur # 0 => g = h
    PROVE  SlotsOK'
  BY DEF SlotsOK, TransportOK, Open, Registered

\* tlsTransport.retire: the references stay, and the idle connections go when there
\* are none.
LEMMA RetiredFacts ==
    ASSUME NEW t, TransportOK(t), t.used, NEW u, u = Settle(Retired(t))
    PROVE  TransportOK(u) /\ u.refs = t.refs /\ ~Open(u)
<1> DEFINE idle == t.idle /\ t.refs > 0
           v == [t EXCEPT !.retired = TRUE, !.idle = idle]
<1>1. t \in TransportSet /\ t.refs \in Nat /\ idle \in BOOLEAN
  BY DEF TransportOK, TransportSet
<1>2. t.refs = 0 => ~idle
  BY <1>1
<1>3. u = Settle(v)
  BY DEF Retired
<1> HIDE DEF idle
<1>4. v \in TransportSet /\ v.used = t.used /\ v.refs = t.refs /\ v.retired /\ v.idle = idle
  BY <1>1 DEF TransportSet
<1> HIDE DEF v
<1>5. CASE v.refs = 0 /\ ~v.idle
  <2>1. u = NoTransport
    BY <1>3, <1>4, <1>5 DEF Settle
  <2>2. /\ NoTransport \in TransportSet /\ ~NoTransport.used /\ NoTransport.refs = 0 /\ ~NoTransport.idle
        /\ ~NoTransport.retired
    BY DEF NoTransport, TransportSet
  <2> QED
    BY <1>4, <1>5, <2>1, <2>2 DEF TransportOK, Open
<1>6. CASE ~(v.refs = 0 /\ ~v.idle)
  <2>1. u = v
    BY <1>3, <1>6 DEF Settle
  <2> QED
    BY <1>2, <1>4, <2>1 DEF TransportOK, Open
<1> QED
  BY <1>5, <1>6

LEMMA CloseTransportsInv ==
    ASSUME RequestsInv, NEW g \in 1..MaxGen, CloseTransports(g)
    PROVE  RequestsInv'
<1> DEFINE c == routes[g].cur
<1>0. /\ routes \in [1..MaxGen -> [cur : Slots \cup {0}, closed : BOOLEAN]]
      /\ tts \in [Slots -> TransportSet] /\ gens \in 0..MaxGen /\ MaxGen \in Nat /\ pruning \in Nat
      /\ closing \in SUBSET (1..gens) /\ reg \in [Ids -> 0..gens]
  BY RequestsAssumption DEF RequestsInv, RegPart, RegTypes
<1>u. /\ UNCHANGED <<now, reg, gens, live, minted, cert, store, req, load>>
      /\ g \in closing /\ closing' = closing \ {g} /\ pruning' = pruning + 1
      /\ tts' = [s \in Slots |-> IF s = c THEN Settle(Retired(tts[s])) ELSE tts[s]]
      /\ routes' = [routes EXCEPT ![g] = [cur |-> 0, closed |-> TRUE]]
  BY DEF CloseTransports
<1>1. ReqPart'
  <2>1. Grows
    BY <1>u, GrowsIfSame
  <2> QED
    BY <1>u, <2>1, ReqStays DEF RequestsInv
<1>2. /\ routes' \in [1..MaxGen -> [cur : Slots \cup {0}, closed : BOOLEAN]]
      /\ routes'[g].cur = 0 /\ routes'[g].closed
      /\ \A h \in 1..MaxGen : h # g => routes'[h] = routes[h]
  BY <1>0, <1>u
<1>3. ASSUME NEW s \in Slots
      PROVE  /\ TransportOK(tts'[s]) /\ tts'[s] \in TransportSet /\ tts'[s].refs = tts[s].refs
             /\ s = c => ~Open(tts'[s])
             /\ s # c => tts'[s] = tts[s]
  <2>1. CASE s # c
    <3>1. tts'[s] = tts[s]
      BY <1>u, <2>1
    <3> QED
      BY <2>1, <3>1, AtSlot DEF TransportOK
  <2>2. CASE s = c
    <3>1. tts'[s] = Settle(Retired(tts[s]))
      BY <1>u, <2>2
    <3>2. s # 0
      BY RequestsAssumption
    <3>3. TransportOK(tts[s]) /\ tts[s].used
      BY <2>2, <3>2, AtSlot DEF RequestsInv, RegPart, SlotsOK
    <3>4. TransportOK(tts'[s]) /\ tts'[s].refs = tts[s].refs /\ ~Open(tts'[s])
      BY <3>1, <3>3, RetiredFacts
    <3> QED
      BY <2>2, <3>4 DEF TransportOK
  <2> QED
    BY <2>1, <2>2
<1>4. tts' \in [Slots -> TransportSet]
  BY <1>u, <1>3
<1>5. RegTypes'
  BY <1>0, <1>2, <1>4, <1>u DEF RegTypes
<1>6. CertNamed'
  <2>1. pruning' > 0
    BY <1>0, <1>u
  <2> QED
    BY <2>1 DEF CertNamed
<1>7. GensOK'
  <2>1. ASSUME NEW h \in 1..gens
        PROVE  Registered(h) \/ h \in closing' \/ routes'[h].closed
    <3>1. h \in 1..MaxGen
      BY <1>0
    <3>2. CASE h = g
      BY <1>2, <3>2
    <3>3. CASE h # g
      BY <1>2, <1>u, <3>1, <3>3 DEF RequestsInv, RegPart, GensOK
    <3> QED
      BY <3>2, <3>3
  <2> QED
    BY <1>u, <2>1 DEF GensOK, Registered
<1>8. Counted'
  <2>1. \A s \in Slots : Holders(s)' = Holders(s)
    BY <1>u DEF Holders
  <2> QED
    BY <1>3, <2>1 DEF RequestsInv, RegPart, Counted
<1>9. SlotsOK'
  <2>1. ASSUME NEW s \in Slots, Open(tts'[s])
        PROVE  \E h \in 1..gens' : routes'[h].cur = s /\ (h \in closing' \/ Registered(h)')
    <3>1. s # c /\ Open(tts[s])
      BY <1>3, <2>1
    <3>2. PICK h \in 1..gens : routes[h].cur = s /\ (h \in closing \/ Registered(h))
      BY <3>1 DEF RequestsInv, RegPart, SlotsOK, Open
    <3>3. h # g /\ h \in 1..MaxGen
      BY <1>0, <3>1, <3>2
    <3>4. h \in closing' \/ Registered(h)'
      BY <1>u, <3>2, <3>3 DEF Registered
    <3> QED
      BY <1>2, <1>u, <3>2, <3>3, <3>4
  <2>2. ASSUME NEW h \in 1..MaxGen, routes'[h].cur # 0
        PROVE  Open(tts'[routes'[h].cur])
    <3>1. h # g /\ routes'[h].cur = routes[h].cur
      BY <1>2, <2>2
    <3>2. routes[h].cur \in Slots
      BY <1>0, <2>2, <3>1
    <3>3. Open(tts[routes[h].cur])
      BY <2>2, <3>1 DEF RequestsInv, RegPart, SlotsOK, Open
    <3>4. routes[h].cur # c
      BY <2>2, <3>1 DEF RequestsInv, RegPart, SlotsOK
    <3> QED
      BY <1>3, <3>1, <3>2, <3>3, <3>4
  <2>3. \A h, k \in 1..MaxGen : routes'[h].cur = routes'[k].cur /\ routes'[h].cur # 0 => h = k
    BY <1>2 DEF RequestsInv, RegPart, SlotsOK
  <2> QED
    BY <1>3, <2>1, <2>2, <2>3, SlotsFromOpen
<1> QED
  BY <1>1, <1>5, <1>6, <1>7, <1>8, <1>9 DEF RequestsInv, RegPart

\* A request that held no transport takes s.
LEMMA Holds ==
    ASSUME RequestsInv, NEW q \in Reqs, req[q].tt = 0, NEW s \in Slots, req'[q].tt = s,
           \A p \in Reqs : p # q => req'[p].tt = req[p].tt
    PROVE  /\ Cardinality(Holders(s)') = tts[s].refs + 1
           /\ \A u \in Slots : u # s => Cardinality(Holders(u)') = tts[u].refs
<1>1. s # 0
  BY RequestsAssumption
<1>2. Holders(s)' = Holders(s) \cup {q} /\ q \notin Holders(s)
  BY <1>1 DEF Holders
<1>3. Cardinality(Holders(s) \cup {q}) = Cardinality(Holders(s)) + 1
  BY <1>2, HoldersFinite, FS_AddElement
<1>4. \A u \in Slots : u # s => Holders(u)' = Holders(u)
  <2> SUFFICES ASSUME NEW u \in Slots, u # s PROVE Holders(u)' = Holders(u)
    OBVIOUS
  <2>1. u # 0
    BY RequestsAssumption
  <2> QED
    BY <2>1 DEF Holders
<1>5. \A u \in Slots : tts[u].refs = Cardinality(Holders(u))
  BY DEF RequestsInv, RegPart, Counted
<1> QED
  BY <1>2, <1>3, <1>4, <1>5

\* The request goes on to send with the transport s.
LEMMA GoesToSend ==
    ASSUME RequestsInv, NEW q \in Reqs, req[q].pc = "transport", NEW s \in Slots,
           req' = [req EXCEPT ![q] = [req[q] EXCEPT !.tt = s, !.pc = "send"]],
           UNCHANGED <<now, gens, live, minted, store, load>>
    PROVE  /\ ReqPart'
           /\ Cardinality(Holders(s)') = tts[s].refs + 1
           /\ \A u \in Slots : u # s => Cardinality(Holders(u)') = tts[u].refs
<1>0. req[q] \in ReqSet /\ ReqOK(req[q]) /\ req[q].tt = 0 /\ req[q].refused = 0
  BY AtReq DEF ReqOK, DocOK, MayHold
<1>1. PICK x \in ReqSet :
        /\ req' = [req EXCEPT ![q] = x] /\ x.tt = s /\ x.pc = "send" /\ x.gen = req[q].gen
        /\ x.tok = req[q].tok /\ x.at = req[q].at /\ x.seen = req[q].seen /\ x.doc = req[q].doc /\ x.refused = 0
  <2> DEFINE k == [req[q] EXCEPT !.tt = s, !.pc = "send"]
  <2>1. /\ k \in ReqSet /\ k.tt = s /\ k.pc = "send" /\ k.gen = req[q].gen
        /\ k.tok = req[q].tok /\ k.at = req[q].at /\ k.seen = req[q].seen /\ k.doc = req[q].doc /\ k.refused = 0
    BY <1>0 DEF ReqSet, Pcs
  <2>2. req' = [req EXCEPT ![q] = k]
    OBVIOUS
  <2> HIDE DEF k
  <2> QED
    BY <2>1, <2>2
<1>2. ReqOK(x)
  <2>1. DocOK(x) /\ Admitted(x) /\ Admitted(req[q]) /\ MayHold(x)
    BY <1>0, <1>1 DEF ReqOK, DocOK, Admitted, MayHold
  <2> QED
    BY <1>0, <1>1, <2>1, AdmittedOK
<1>3. Grows
  BY GrowsIfSame
<1>4. ReqPart'
  BY <1>1, <1>2, <1>3, ReqOKStays, ReqMoves DEF RequestsInv
<1>5. /\ req[q].tt = 0 /\ req'[q].tt = s
      /\ \A p \in Reqs : p # q => req'[p].tt = req[p].tt
  BY <1>0, <1>1 DEF RequestsInv, ReqPart, ReqTypes
<1>6. /\ Cardinality(Holders(s)') = tts[s].refs + 1
      /\ \A u \in Slots : u # s => Cardinality(Holders(u)') = tts[u].refs
  BY <1>5, Holds
<1> QED
  BY <1>4, <1>6

LEMMA RouteTransportInv ==
    ASSUME RequestsInv, NEW q \in Reqs, RouteTransport(q)
    PROVE  RequestsInv'
<1> DEFINE r == req[q]
           g == r.gen
           c == routes[g].cur
<1>0. /\ r \in ReqSet /\ r.pc = "transport" /\ r.ver \in Nat /\ g \in 1..gens /\ g \in 1..MaxGen /\ g # 0
      /\ routes \in [1..MaxGen -> [cur : Slots \cup {0}, closed : BOOLEAN]]
      /\ tts \in [Slots -> TransportSet] /\ gens \in 0..MaxGen
      /\ c \in Slots \cup {0}
  <2>1. r \in ReqSet /\ ReqOK(r) /\ r.pc = "transport"
    BY AtReq DEF RouteTransport
  <2>2. g \in 1..gens /\ gens \in 0..MaxGen /\ MaxGen \in Nat
    BY <2>1, RequestsAssumption DEF ReqOK, TokenOK, Going, RequestsInv, RegPart, RegTypes
  <2>3. g \in 1..MaxGen /\ g # 0
    BY <2>2
  <2>4. r.ver \in Nat
    BY <2>1 DEF ReqSet
  <2> QED
    BY <2>1, <2>2, <2>3, <2>4 DEF RequestsInv, RegPart, RegTypes
<1>u. UNCHANGED <<now, reg, gens, live, minted, closing, pruning, cert, store, load>>
  BY DEF RouteTransport
<1>1. CASE req' = [req EXCEPT ![q] = Answered(r, 404)] /\ UNCHANGED <<routes, tts>>
  <2>1. 404 \in Nat /\ r \in ReqSet /\ r.tt = req[q].tt
    BY <1>0
  <2>2. UNCHANGED <<now, reg, gens, live, minted, closing, pruning, cert, routes, tts, store, load>>
    BY <1>1, <1>u
  <2> QED
    BY <1>1, <2>1, <2>2, OneEnds
<1>2. ASSUME NEW d \in Slots, d = c, c # 0,
             tts' = [tts EXCEPT ![d].refs = @ + 1],
             req' = [req EXCEPT ![q] = [r EXCEPT !.tt = d, !.pc = "send"]],
             UNCHANGED routes
      PROVE  RequestsInv'
  <2>1. /\ ReqPart'
        /\ Cardinality(Holders(d)') = tts[d].refs + 1
        /\ \A u \in Slots : u # d => Cardinality(Holders(u)') = tts[u].refs
    BY <1>0, <1>2, <1>u, GoesToSend
  <2> DEFINE n == tts[d].refs + 1
             t == [tts[d] EXCEPT !.refs = n]
  <2>2. n \in Nat /\ n # 0 /\ TransportOK(tts[d]) /\ tts[d] \in TransportSet
    <3>1. TransportOK(tts[d]) /\ tts[d].refs \in Nat
      BY AtSlot
    <3> QED
      BY <3>1 DEF TransportOK
  <2>3. tts[d].used /\ ~tts[d].retired
    BY <1>0, <1>2 DEF RequestsInv, RegPart, SlotsOK
  <2>4. tts' = [tts EXCEPT ![d] = t]
    BY <1>2
  <2>5. Cardinality(Holders(d)') = n
    BY <2>1
  <2> HIDE DEF n
  <2>6. t \in TransportSet /\ t.refs = n /\ t.used /\ ~t.retired
    BY <2>2, <2>3 DEF TransportSet
  <2> HIDE DEF t
  <2>7. tts'[d] = t /\ \A s \in Slots : s # d => tts'[s] = tts[s]
    BY <1>0, <2>4
  <2>8. TransportOK(t) /\ Open(t) /\ Open(tts[d])
    BY <2>2, <2>3, <2>6 DEF TransportOK, Open
  <2>9. \A s \in Slots : TransportOK(tts'[s]) /\ (Open(tts'[s]) <=> Open(tts[s]))
    BY <2>7, <2>8, AtSlot
  <2>10. tts' \in [Slots -> TransportSet]
    BY <1>0, <2>4, <2>6
  <2>11. Counted'
    BY <2>1, <2>5, <2>6, <2>7 DEF Counted
  <2>12. RegPart'
    BY <1>2, <1>u, <2>9, <2>10, <2>11, TransportsMove
  <2> QED
    BY <2>1, <2>12 DEF RequestsInv
<1>3. ASSUME NEW s \in Slots, ~tts[s].used, ~routes[g].closed,
             tts' = [u \in Slots |->
                IF u = s THEN [NoTransport EXCEPT !.used = TRUE, !.ver = r.ver, !.refs = 1]
                ELSE IF u = c THEN Settle(Retired(tts[u])) ELSE tts[u]],
             routes' = [routes EXCEPT ![g].cur = s],
             req' = [req EXCEPT ![q] = [r EXCEPT !.tt = s, !.pc = "send"]]
      PROVE  RequestsInv'
  <2>1. /\ ReqPart'
        /\ Cardinality(Holders(s)') = tts[s].refs + 1
        /\ \A u \in Slots : u # s => Cardinality(Holders(u)') = tts[u].refs
    BY <1>0, <1>3, <1>u, GoesToSend
  <2>2. tts[s].refs = 0 /\ s # 0
    BY <1>3, RequestsAssumption DEF RequestsInv, RegPart, SlotsOK
  <2>3. /\ routes' \in [1..MaxGen -> [cur : Slots \cup {0}, closed : BOOLEAN]]
        /\ routes'[g].cur = s
        /\ \A h \in 1..MaxGen : h # g => routes'[h] = routes[h]
        /\ \A h \in 1..MaxGen : routes'[h].closed = routes[h].closed
    BY <1>0, <1>3
  <2>4. \A h \in 1..MaxGen : routes[h].cur # s
    BY <1>3, <2>2 DEF RequestsInv, RegPart, SlotsOK
  <2>5. TransportOK(tts'[s]) /\ Open(tts'[s]) /\ tts'[s].refs = 1
    <3> DEFINE t == [NoTransport EXCEPT !.used = TRUE, !.ver = r.ver, !.refs = 1]
    <3>1. tts'[s] = t
      BY <1>3
    <3>2. /\ t \in TransportSet /\ t.used /\ t.refs = 1 /\ ~t.retired /\ ~t.idle
      BY <1>0 DEF NoTransport, TransportSet
    <3> QED
      BY <3>1, <3>2 DEF TransportOK, Open
  <2>6. ASSUME NEW u \in Slots, u # s
        PROVE  /\ TransportOK(tts'[u]) /\ tts'[u].refs = tts[u].refs
               /\ u = c => ~Open(tts'[u])
               /\ u # c => tts'[u] = tts[u]
    <3>1. CASE u # c
      <4>1. tts'[u] = tts[u]
        BY <1>3, <2>6, <3>1
      <4> QED
        BY <3>1, <4>1, AtSlot
    <3>2. CASE u = c
      <4>1. tts'[u] = Settle(Retired(tts[u]))
        BY <1>3, <2>6, <3>2
      <4>2. u # 0
        BY RequestsAssumption
      <4>3. TransportOK(tts[u]) /\ tts[u].used
        BY <1>0, <3>2, <4>2, AtSlot DEF RequestsInv, RegPart, SlotsOK
      <4> QED
        BY <3>2, <4>1, <4>3, RetiredFacts
    <3> QED
      BY <3>1, <3>2
  <2>7. \A u \in Slots : TransportOK(tts'[u])
    BY <2>5, <2>6
  <2>8. tts' \in [Slots -> TransportSet]
    <3>1. \A u \in Slots : tts'[u] \in TransportSet
      BY <2>7 DEF TransportOK
    <3> QED
      BY <1>3, <3>1
  <2>9. RegTypes' /\ CertNamed'
    BY <1>u, <2>3, <2>8 DEF RequestsInv, RegPart, RegTypes, CertNamed, Named
  <2>10. GensOK'
    <3>1. ASSUME NEW h \in 1..gens
          PROVE  Registered(h) \/ h \in closing \/ routes'[h].closed
      <4>1. h \in 1..MaxGen
        BY <1>0, RequestsAssumption
      <4> QED
        BY <2>3, <4>1 DEF RequestsInv, RegPart, GensOK
    <3> QED
      BY <1>u, <3>1 DEF GensOK, Registered
  <2>11. Counted'
    <3>1. Cardinality(Holders(s)') = 1
      BY <2>1, <2>2
    <3> QED
      BY <2>1, <2>5, <2>6, <3>1 DEF Counted
  <2>12. SlotsOK'
    <3>1. ASSUME NEW u \in Slots, Open(tts'[u])
          PROVE  \E h \in 1..gens' : routes'[h].cur = u /\ (h \in closing' \/ Registered(h)')
      <4>1. CASE u = s
        <5>1. PICK h \in 1..gens : h = g
          BY <1>0
        <5>2. h \in closing \/ Registered(h)
          BY <1>3, <5>1 DEF RequestsInv, RegPart, GensOK
        <5>3. h \in closing' \/ Registered(h)'
          BY <1>u, <5>2 DEF Registered
        <5>4. routes'[h].cur = u
          BY <2>3, <4>1, <5>1
        <5> QED
          BY <1>u, <5>3, <5>4
      <4>2. CASE u # s
        <5>1. u # c /\ Open(tts[u])
          BY <2>6, <3>1, <4>2
        <5>2. PICK h \in 1..gens : routes[h].cur = u /\ (h \in closing \/ Registered(h))
          BY <5>1 DEF RequestsInv, RegPart, SlotsOK, Open
        <5>3. h # g /\ h \in 1..MaxGen
          BY <1>0, <5>1, <5>2, RequestsAssumption
        <5>4. h \in closing' \/ Registered(h)'
          BY <1>u, <5>2 DEF Registered
        <5> QED
          BY <1>u, <2>3, <5>2, <5>3, <5>4
      <4> QED
        BY <4>1, <4>2
    <3>2. ASSUME NEW h \in 1..MaxGen, routes'[h].cur # 0
          PROVE  Open(tts'[routes'[h].cur])
      <4>1. CASE h = g
        BY <2>3, <2>5, <4>1
      <4>2. CASE h # g
        <5>1. routes'[h].cur = routes[h].cur /\ routes[h].cur # 0
          BY <2>3, <3>2, <4>2
        <5>2. routes[h].cur \in Slots /\ routes[h].cur # s
          BY <1>0, <2>4, <5>1
        <5>3. Open(tts[routes[h].cur])
          BY <5>1 DEF RequestsInv, RegPart, SlotsOK, Open
        <5>4. routes[h].cur # c
          BY <1>0, <4>2, <5>1 DEF RequestsInv, RegPart, SlotsOK
        <5> QED
          BY <2>6, <5>1, <5>2, <5>3, <5>4
      <4> QED
        BY <4>1, <4>2
    <3>3. \A h, k \in 1..MaxGen : routes'[h].cur = routes'[k].cur /\ routes'[h].cur # 0 => h = k
      BY <1>0, <2>3, <2>4 DEF RequestsInv, RegPart, SlotsOK
    <3> QED
      BY <2>7, <3>1, <3>2, <3>3, SlotsFromOpen
  <2> QED
    BY <2>1, <2>9, <2>10, <2>11, <2>12 DEF RequestsInv, RegPart
<1> QED
  <2>1. \/ req' = [req EXCEPT ![q] = Answered(r, 404)] /\ UNCHANGED <<routes, tts>>
        \/ /\ c # 0
           /\ tts' = [tts EXCEPT ![c].refs = @ + 1]
           /\ req' = [req EXCEPT ![q] = [r EXCEPT !.tt = c, !.pc = "send"]]
           /\ UNCHANGED routes
        \/ /\ ~routes[g].closed
           /\ \E s \in Slots :
                /\ FreeSlot(s)
                /\ tts' = [u \in Slots |->
                     IF u = s THEN [NoTransport EXCEPT !.used = TRUE, !.ver = r.ver, !.refs = 1]
                     ELSE IF u = c THEN Settle(Retired(tts[u])) ELSE tts[u]]
                /\ routes' = [routes EXCEPT ![g].cur = s]
                /\ req' = [req EXCEPT ![q] = [r EXCEPT !.tt = s, !.pc = "send"]]
    BY Zenon DEF RouteTransport, Closed
  <2>2. \A s \in Slots : FreeSlot(s) => ~tts[s].used
    BY DEF FreeSlot
  <2>3. CASE /\ c # 0
             /\ tts' = [tts EXCEPT ![c].refs = @ + 1]
             /\ req' = [req EXCEPT ![q] = [r EXCEPT !.tt = c, !.pc = "send"]]
             /\ UNCHANGED routes
    <3>1. PICK d \in Slots : d = c
      BY <1>0, <2>3
    <3> QED
      BY <1>2, <2>3, <3>1
  <2> QED
    BY <1>1, <1>3, <2>1, <2>2, <2>3

-----------------------------------------------------------------------------
\* The specification.

LEMMA InitInv == Init => RequestsInv
<1> SUFFICES ASSUME Init PROVE RequestsInv
  OBVIOUS
<1>0. /\ MaxGen \in Nat /\ Slots \subseteq Nat \ {0} /\ 0 \in 0..MaxGen /\ 1..0 = {}
  BY RequestsAssumption
<1>1. /\ now = 0 /\ gens = 0 /\ minted = {} /\ closing = {} /\ pruning = 0 /\ cert = 0
      /\ store = [doc |-> 1, cert |-> 1] /\ load \in Loads
      /\ reg = [i \in Ids |-> 0]
      /\ live = [g \in 1..MaxGen |-> [toks |-> <<>>, over |-> FALSE]]
      /\ routes = [g \in 1..MaxGen |-> [cur |-> 0, closed |-> FALSE]]
      /\ tts = [s \in Slots |-> NoTransport]
      /\ req = [q \in Reqs |-> Idle]
  BY DEF Init
<1>2. ReqTypes
  <2>1. [toks |-> <<>>, over |-> FALSE] \in LiveSet
    BY DEF LiveSet
  <2>2. live \in [1..MaxGen -> LiveSet] /\ req \in [Reqs -> ReqSet]
    BY <1>1, <2>1, IdleFacts
  <2>3. store \in [doc : Nat, cert : Nat] /\ now \in Nat /\ minted \in SUBSET Token
    BY <1>1
  <2> QED
    BY <1>1, <2>2, <2>3 DEF ReqTypes
<1>3. ReqPart
  <2>1. ReqOK(Idle)
    BY <1>2, IdleFacts, EndedOK
  <2>2. \A q \in Reqs : req[q] = Idle
    BY <1>1
  <2> QED
    BY <1>2, <2>1, <2>2 DEF ReqPart
<1>4. RegTypes
  <2>1. routes \in [1..MaxGen -> [cur : Slots \cup {0}, closed : BOOLEAN]]
    BY <1>1
  <2>2. reg \in [Ids -> 0..gens] /\ tts \in [Slots -> TransportSet]
    BY <1>0, <1>1, IdleFacts
  <2> QED
    BY <1>0, <1>1, <2>1, <2>2 DEF RegTypes
<1>5. \A s \in Slots : tts[s].refs = 0 /\ ~tts[s].used /\ ~tts[s].idle /\ ~tts[s].retired
  BY <1>1 DEF NoTransport
<1>6. Counted
  <2>1. ASSUME NEW s \in Slots PROVE Holders(s) = {}
    BY <1>0, <1>1, IdleFacts DEF Holders
  <2> QED
    BY <1>5, <2>1, FS_EmptySet DEF Counted
<1>7. SlotsOK
  <2>1. \A g \in 1..MaxGen : routes[g].cur = 0
    BY <1>1
  <2> QED
    BY <1>5, <2>1 DEF SlotsOK
<1>8. GensOK /\ CertNamed
  BY <1>0, <1>1 DEF GensOK, CertNamed
<1> QED
  BY <1>3, <1>4, <1>6, <1>7, <1>8 DEF RequestsInv, RegPart

LEMMA RequestInv ==
    ASSUME RequestsInv, NEW q \in Reqs, Request(q)
    PROVE  RequestsInv'
<1>1. ASSUME NEW i \in Ids, NEW t \in minted \cup {NoToken}, NEW in \in load.reqs, Lookup(q, i, in[1], t, in[2])
      PROVE  RequestsInv'
  <2>1. in \in {"plain", "tls", "vend"} \X Nat
    BY RequestsAssumption DEF RequestsInv, ReqPart, ReqTypes
  <2>2. in[1] \in RouteNames /\ in[2] \in Nat
    BY <2>1 DEF RouteNames
  <2> QED
    BY <1>1, <2>2, LookupInv
<1> QED
  BY <1>1, RefuseShapeInv, TakeInv, WakeInv, BudgetTimeoutInv, ReadInv, BodyFailsInv, InstantInv, ScanInv,
     ResolveInv, ClientCertificateInv, CacheCertInv, RouteTransportInv, SendInv, RenewedInv, DoneInv
  DEF Request

LEMMA NextInv ==
    ASSUME RequestsInv, Next
    PROVE  RequestsInv'
<1>1. ASSUME NEW i \in Ids, NEW in \in load.reqs, NEW e \in load.exps, Mint(i, in[1], e)
      PROVE  RequestsInv'
  <2>1. in \in {"plain", "tls", "vend"} \X Nat
    BY RequestsAssumption DEF RequestsInv, ReqPart, ReqTypes
  <2>2. in[1] \in RouteNames /\ e \in Nat
    BY <2>1, RequestsAssumption DEF RouteNames, RequestsInv, ReqPart, ReqTypes
  <2> QED
    BY <1>1, <2>2, MintInv
<1> QED
  BY <1>1, TickInv, PruneCertsInv, AddSandboxInv, RemoveSandboxInv, CloseTransportsInv, RequestInv
  DEF Next

LEMMA StutterInv ==
    ASSUME RequestsInv, UNCHANGED vars
    PROVE  RequestsInv'
<1>1. /\ UNCHANGED <<now, gens, live, minted, store, load>> /\ req' = req
      /\ UNCHANGED <<reg, gens, closing, pruning, cert, routes, tts>>
  BY DEF vars
<1>2. ReqPart'
  <2>1. Grows
    BY <1>1, GrowsIfSame
  <2> QED
    BY <1>1, <2>1, ReqStays DEF RequestsInv
<1>3. RegPart'
  BY <1>1, RegStays DEF RequestsInv
<1> QED
  BY <1>2, <1>3 DEF RequestsInv

LEMMA RequestsAlways == Spec => []RequestsInv
<1>1. RequestsInv /\ [Next]_vars => RequestsInv'
  BY NextInv, StutterInv
<1> QED
  BY <1>1, InitInv, PTL DEF Spec

\* However long a body is held and whatever registrations, tokens and other
\* requests do meanwhile, a request past the scan has a token of the registration
\* it was looked up in, unexpired at the instant of the scan; and the scan looked
\* for that token, unless its sandbox ever had more than maxLive of them or the
\* token expired before the scan ran (proxy.go:157, placeholder.go:28).
THEOREM ScanSeesOwn == Spec => []ScanSeesToken
<1>1. RequestsInv => ScanSeesToken
  <2> SUFFICES ASSUME RequestsInv, NEW q \in Reqs, Admitted(req[q])
               PROVE  /\ req[q].tok \in minted /\ req[q].tok.gen = req[q].gen
                      /\ req[q].at < req[q].tok.exp
                      /\ req[q].seen \/ live[req[q].gen].over \/ req[q].tok.exp <= now
    BY DEF ScanSeesToken
  <2>1. TokenOK(req[q])
    BY AtReq DEF ReqOK
  <2> QED
    BY <2>1 DEF TokenOK, Going, Admitted
<1> QED
  BY <1>1, RequestsAlways, PTL

\* No private key and no connection of a removed sandbox stays in the broker,
\* however late its requests are: the references of a transport are exactly the
\* requests that hold it, so the last one closes it (tlsroute.go:133, :280).
THEOREM NothingOutlives == Spec => []RemovedIsGone
<1>1. RequestsInv => RemovedIsGone
  <2> SUFFICES ASSUME RequestsInv PROVE NoConnectionLeft
    BY DEF RemovedIsGone, RequestsInv, RegPart
  <2> SUFFICES ASSUME NEW s \in Slots, tts[s].idle, tts[s].refs = 0
               PROVE  \E g \in 1..MaxGen :
                        /\ routes[g].cur = s /\ ~tts[s].retired
                        /\ g \in closing \/ \E i \in Ids : reg[i] = g
    BY DEF NoConnectionLeft
  <2>1. tts[s].used /\ ~tts[s].retired
    BY DEF RequestsInv, RegPart, SlotsOK
  <2>2. PICK g \in 1..gens : routes[g].cur = s /\ (g \in closing \/ Registered(g))
    BY <2>1 DEF RequestsInv, RegPart, SlotsOK
  <2>3. g \in 1..MaxGen
    BY RequestsAssumption DEF RequestsInv, RegPart, RegTypes
  <2> QED
    BY <2>1, <2>2, <2>3 DEF Registered
<1> QED
  BY <1>1, RequestsAlways, PTL

\* After an upstream 401 a request goes out again only with a document that is
\* newer than the one refused, whoever renewed it (proxy.go:646).
THEOREM RetryAdvances == Spec => []RetryIsNewer
<1>1. RequestsInv => RetryIsNewer
  <2> SUFFICES ASSUME RequestsInv, NEW q \in Reqs, req[q].pc = "send", req[q].refused # 0
               PROVE  req[q].doc > req[q].refused
    BY DEF RetryIsNewer
  <2> QED
    BY AtReq DEF ReqOK, DocOK
<1> QED
  BY <1>1, RequestsAlways, PTL

-----------------------------------------------------------------------------
\* The budget.  What a request holds of it, over its steps: as many as it has
\* read, one more while the next step of the body is awaited.
HoldOK(r, n) ==
    /\ r.taken \in 0..MaxHeld /\ (r.taken > 0 => r.gen \in 1..n)
    /\ r.pc = "idle" => r.taken = 0
    /\ r.pc \in {"take", "wait"} => r.taken = r.read /\ r.read < MaxHeld
    /\ r.pc = "read" => r.taken = r.read + 1 /\ r.read < MaxHeld

BudgetInv ==
    /\ left \in Nat /\ owner \in [1..MaxGen -> Ids \cup {"none"}]
    /\ \A q \in Reqs : HoldOK(req[q], gens)
    /\ BudgetSound

\* HeldBy, of the steps H that requests r hold, registrations being owned as in o.
CountOf(H, o, r, i) == Cardinality({h \in H : o[r[h[1]].gen] = i})
Room(q) == left >= 1 /\ CountOf(Held, owner, req, owner[req[q].gen]) + 1 <= req[q].share

LEMMA CanTakeIsRoom == ASSUME NEW q \in Reqs PROVE (CanTake(q) <=> Room(q)) /\ (CanTake(q)' <=> Room(q)')
  BY DEF CanTake, HeldBy, CountOf, Room

LEMMA HeldFinite == IsFiniteSet(Held) /\ IsFiniteSet(Held')
<1> DEFINE all == Reqs \X (1..MaxHeld)
<1>1. IsFiniteSet(1..MaxHeld) BY RequestsAssumption, FS_Interval
<1>2. IsFiniteSet(all) BY <1>1, RequestsAssumption, FS_Product
<1>3. Held \in SUBSET all /\ Held' \in SUBSET all BY DEF Held
<1> HIDE DEF all
<1> QED BY <1>2, <1>3, FS_Subset

LEMMA HeldAt ==
    ASSUME NEW h \in Held
    PROVE  h[1] \in Reqs /\ h[2] \in 1..MaxHeld /\ h = <<h[1], h[2]>> /\ h[2] <= req[h[1]].taken
  BY DEF Held

LEMMA AtBudget ==
    ASSUME RequestsInv, BudgetInv, NEW q \in Reqs
    PROVE  /\ req \in [Reqs -> ReqSet] /\ req[q] \in ReqSet /\ HoldOK(req[q], gens) /\ gens \in Nat
           /\ gens <= MaxGen /\ MaxGen \in Nat /\ (Going(req[q]) => req[q].gen \in 1..gens)
           /\ MaxHeld \in Nat \ {0}
  BY RequestsAssumption DEF RequestsInv, ReqPart, ReqTypes, RegPart, RegTypes, BudgetInv, ReqOK, TokenOK

\* A step that takes nothing and gives nothing back.
LEMMA NothingTaken ==
    ASSUME RequestsInv, BudgetInv, left' = left, owner' \in [1..MaxGen -> Ids \cup {"none"}],
           \A g \in 1..gens : owner'[g] = owner[g],
           \A p \in Reqs : /\ HoldOK(req'[p], gens') /\ req'[p].taken = req[p].taken
                           /\ req[p].taken > 0 => req'[p].gen = req[p].gen
                           /\ req'[p].pc = "wait" /\ ~req'[p].woken =>
                                req'[p].gen = req[p].gen /\ req[p].gen \in 1..gens /\ req'[p].share = req[p].share /\ ~Room(p)
    PROVE  BudgetInv'
<1>1. Held' = Held BY DEF Held
<1>2. \A h \in Held : owner'[req'[h[1]].gen] = owner[req[h[1]].gen]
  <2> SUFFICES ASSUME NEW h \in Held PROVE owner'[req'[h[1]].gen] = owner[req[h[1]].gen] OBVIOUS
  <2>1. h[1] \in Reqs /\ h[2] \in 1..MaxHeld /\ h[2] <= req[h[1]].taken BY HeldAt
  <2>2. req[h[1]].taken > 0 /\ req[h[1]].gen \in 1..gens BY <2>1, AtBudget DEF HoldOK
  <2> QED BY <2>1, <2>2
<1>3. \A i : CountOf(Held', owner', req', i) = CountOf(Held, owner, req, i)
  <2> SUFFICES ASSUME NEW i PROVE CountOf(Held', owner', req', i) = CountOf(Held, owner, req, i) OBVIOUS
  <2>1. {h \in Held' : owner'[req'[h[1]].gen] = i} = {h \in Held : owner[req[h[1]].gen] = i} BY <1>1, <1>2
  <2> QED BY <2>1 DEF CountOf
<1>4. ASSUME NEW p \in Reqs, req'[p].pc = "wait", ~req'[p].woken PROVE ~CanTake(p)'
  <2>1. owner'[req'[p].gen] = owner[req[p].gen] BY <1>4
  <2>2. Room(p)' <=> Room(p) BY <1>3, <1>4, <2>1 DEF Room
  <2> QED BY <1>4, <2>2, CanTakeIsRoom
<1>5. NoLostWakeup' BY <1>4 DEF NoLostWakeup
<1>6. BudgetExact' BY <1>1 DEF BudgetInv, BudgetSound, BudgetExact
<1> QED BY <1>5, <1>6 DEF BudgetInv, BudgetSound

\* The steps that leave the requests alone.
LEMMA Untouched ==
    ASSUME RequestsInv, BudgetInv, UNCHANGED <<left, req>>, owner' \in [1..MaxGen -> Ids \cup {"none"}],
           gens' \in Nat, gens <= gens', \A g \in 1..gens : owner'[g] = owner[g]
    PROVE  BudgetInv'
<1>1. ASSUME NEW p \in Reqs
      PROVE  /\ HoldOK(req[p], gens')
             /\ req[p].pc = "wait" /\ ~req[p].woken => req[p].gen \in 1..gens /\ ~Room(p)
  <2>1. HoldOK(req[p], gens') BY AtBudget DEF HoldOK
  <2>2. req[p].pc = "wait" /\ ~req[p].woken => ~CanTake(p) BY DEF BudgetInv, BudgetSound, NoLostWakeup
  <2> QED BY <2>1, <2>2, AtBudget, CanTakeIsRoom DEF Going
<1> QED BY <1>1, NothingTaken

\* One request takes a step that leaves what it holds as it is; if it then waits it
\* found no room.
LEMMA OneKeeps ==
    ASSUME RequestsInv, BudgetInv, NEW q \in Reqs, NEW k, req' = [req EXCEPT ![q] = k], UNCHANGED <<left, owner, gens>>,
           k.taken = req[q].taken, k.taken > 0 => k.gen = req[q].gen, HoldOK(k, gens),
           k.pc = "wait" => k.gen = req[q].gen /\ k.gen \in 1..gens /\ k.share = req[q].share /\ ~CanTake(q)
    PROVE  BudgetInv'
<1>1. \A p \in Reqs : req'[p] = IF p = q THEN k ELSE req[p] BY AtBudget
<1>2. ASSUME NEW p \in Reqs
      PROVE  /\ HoldOK(req'[p], gens') /\ req'[p].taken = req[p].taken
             /\ req[p].taken > 0 => req'[p].gen = req[p].gen
             /\ req'[p].pc = "wait" /\ ~req'[p].woken =>
                  req'[p].gen = req[p].gen /\ req[p].gen \in 1..gens /\ req'[p].share = req[p].share /\ ~Room(p)
  <2>1. CASE p = q BY <1>1, <2>1, CanTakeIsRoom
  <2>2. CASE p # q
    <3>1. req'[p] = req[p] BY <1>1, <2>2
    <3>2. req[p].pc = "wait" /\ ~req[p].woken => ~CanTake(p) BY DEF BudgetInv, BudgetSound, NoLostWakeup
    <3> QED BY <3>1, <3>2, AtBudget, CanTakeIsRoom DEF Going
  <2> QED BY <2>1, <2>2
<1>3. owner' \in [1..MaxGen -> Ids \cup {"none"}] BY DEF BudgetInv
<1> QED BY <1>2, <1>3, NothingTaken

\* The same for a request that has its body, or has ended.
LEMMA OneGoes ==
    ASSUME RequestsInv, BudgetInv, NEW q \in Reqs, NEW k, req' = [req EXCEPT ![q] = k], UNCHANGED <<left, owner, gens>>,
           k.taken = req[q].taken, k.gen = req[q].gen, k.pc \notin {"idle", "take", "wait", "read"}
    PROVE  BudgetInv'
<1>1. HoldOK(k, gens) BY AtBudget DEF HoldOK
<1> QED BY <1>1, OneKeeps

LEMMA AnsweredKeeps ==
    ASSUME NEW r, NEW status
    PROVE  Answered(r, status).taken = r.taken /\ Answered(r, status).gen = r.gen /\ Answered(r, status).pc = "done"
  BY DEF Answered, Idle

LEMMA EndsBudget ==
    ASSUME RequestsInv, BudgetInv, NEW q \in Reqs, NEW status, req' = [req EXCEPT ![q] = Answered(req[q], status)],
           UNCHANGED <<left, owner, gens>>
    PROVE  BudgetInv'
<1> DEFINE k == Answered(req[q], status)
<1>1. k.taken = req[q].taken /\ k.gen = req[q].gen /\ k.pc = "done" BY AnsweredKeeps
<1>2. req' = [req EXCEPT ![q] = k] OBVIOUS
<1> HIDE DEF k
<1> QED BY <1>1, <1>2, OneGoes

\* A request that never held anything.
LEMMA RefusedBudget ==
    ASSUME RequestsInv, BudgetInv, NEW q \in Reqs, NEW status, req[q].pc = "idle",
           req' = [req EXCEPT ![q] = Answered(Idle, status)], UNCHANGED <<left, owner, gens>>
    PROVE  BudgetInv'
<1> DEFINE k == Answered(Idle, status)
<1>1. k.taken = 0 /\ k.pc = "done" BY DEF Answered, Idle
<1>2. req' = [req EXCEPT ![q] = k] OBVIOUS
<1> HIDE DEF k
<1>3. HoldOK(k, gens) /\ req[q].taken = 0 BY <1>1, AtBudget DEF HoldOK
<1>4. ~(k.taken > 0) /\ k.taken = req[q].taken /\ k.pc # "wait" BY <1>1, <1>3
<1> QED BY <1>2, <1>3, <1>4, OneKeeps

-----------------------------------------------------------------------------
\* The requests.

LEMMA LookupBudget ==
    ASSUME RequestsInv, BudgetInv, NEW q \in Reqs, NEW i \in Ids, NEW t, NEW r, NEW body, Lookup(q, i, r, t, body)
    PROVE  BudgetInv'
<1>1. req[q].pc = "idle" /\ UNCHANGED <<left, owner, gens>> BY DEF Lookup
<1>2. CASE \E status \in {401, 404} : req' = [req EXCEPT ![q] = Answered(Idle, status)]
  BY <1>1, <1>2, RefusedBudget
<1>3. CASE req' = [req EXCEPT ![q] =
                [Idle EXCEPT !.gen = reg[i], !.route = r, !.tok = t, !.body = body,
                             !.share = IF body = 0 THEN 0 ELSE Share,
                             !.pc = IF body = 0 THEN "scan" ELSE "take"]]
  <2> DEFINE k == [Idle EXCEPT !.gen = reg[i], !.route = r, !.tok = t, !.body = body,
                             !.share = IF body = 0 THEN 0 ELSE Share,
                             !.pc = IF body = 0 THEN "scan" ELSE "take"]
  <2>1. k.taken = 0 /\ k.read = 0 /\ k.pc \in {"scan", "take"} BY DEF Idle
  <2>2. req' = [req EXCEPT ![q] = k] BY <1>3
  <2> HIDE DEF k
  <2>3. HoldOK(k, gens) /\ req[q].taken = 0 BY <1>1, <2>1, AtBudget DEF HoldOK
  <2>4. ~(k.taken > 0) /\ k.taken = req[q].taken /\ k.pc # "wait" BY <2>1, <2>3
  <2> QED BY <1>1, <2>2, <2>3, <2>4, OneKeeps
<1> QED BY <1>2, <1>3 DEF Lookup

LEMMA RoomIsLess ==
    ASSUME NEW H, NEW G, IsFiniteSet(G), H \subseteq G, NEW o, NEW r, NEW i
    PROVE  CountOf(H, o, r, i) \in Nat /\ CountOf(G, o, r, i) \in Nat /\ CountOf(H, o, r, i) <= CountOf(G, o, r, i)
<1> DEFINE h == {x \in H : o[r[x[1]].gen] = i}
           g == {x \in G : o[r[x[1]].gen] = i}
<1>1. IsFiniteSet(g) BY FS_Subset
<1>2. h \in SUBSET g OBVIOUS
<1>3. IsFiniteSet(h) /\ Cardinality(h) <= Cardinality(g) BY <1>1, <1>2, FS_Subset
<1> QED BY <1>1, <1>3, FS_CardinalityType DEF CountOf

LEMMA TakeBudget == ASSUME RequestsInv, BudgetInv, NEW q \in Reqs, Take(q) PROVE BudgetInv'
<1>1. req[q].pc = "take" /\ UNCHANGED <<owner, gens>> BY DEF Take
<1>2. /\ req[q] \in ReqSet /\ HoldOK(req[q], gens) /\ req \in [Reqs -> ReqSet] /\ req[q].gen \in 1..gens
      /\ MaxHeld \in Nat \ {0}
  BY <1>1, AtBudget DEF Going
<1>3. CASE ~CanTake(q) /\ req' = [req EXCEPT ![q].pc = "wait"] /\ UNCHANGED left
  <2> DEFINE k == [req[q] EXCEPT !.pc = "wait"]
  <2>1. /\ req' = [req EXCEPT ![q] = k] /\ k.pc = "wait" /\ k.taken = req[q].taken /\ k.gen = req[q].gen
        /\ k.read = req[q].read /\ k.share = req[q].share
    BY <1>2, <1>3 DEF ReqSet
  <2> HIDE DEF k
  <2>2. HoldOK(k, gens) BY <1>1, <1>2, <2>1 DEF HoldOK
  <2> QED BY <1>1, <1>2, <1>3, <2>1, <2>2, OneKeeps
<1>4. CASE /\ CanTake(q) /\ left' = left - 1
           /\ req' = [req EXCEPT ![q].pc = "read", ![q].taken = @ + 1]
  <2> DEFINE n == req[q].taken
             k == [req[q] EXCEPT !.pc = "read", !.taken = n + 1]
  <2>1. n \in Nat /\ n < MaxHeld /\ n = req[q].read BY <1>1, <1>2 DEF ReqSet, HoldOK
  <2>2. /\ req' = [req EXCEPT ![q] = k] /\ k.pc = "read" /\ k.taken = n + 1 /\ k.gen = req[q].gen /\ k.read = n
    BY <1>2, <1>4, <2>1 DEF ReqSet
  <2> HIDE DEF k
  <2>3. \A p \in Reqs : req'[p] = IF p = q THEN k ELSE req[p] BY <1>2, <2>2
  <2>4. HoldOK(k, gens) BY <1>2, <2>1, <2>2 DEF HoldOK
  <2>5. Held' = Held \cup {<<q, n + 1>>} /\ <<q, n + 1>> \notin Held
    <3>1. <<q, n + 1>> \notin Held BY <2>1 DEF Held
    <3>2. ASSUME NEW p \in Reqs, NEW m \in 1..MaxHeld
          PROVE  m <= req'[p].taken <=> m <= req[p].taken \/ (p = q /\ m = n + 1)
      BY <1>2, <2>1, <2>2, <2>3
    <3>3. \A h \in Reqs \X (1..MaxHeld) : h \in Held' <=> h \in Held \/ h = <<q, n + 1>>
      BY <3>2 DEF Held
    <3>4. <<q, n + 1>> \in Reqs \X (1..MaxHeld) BY <1>2, <2>1
    <3>5. Held \subseteq Reqs \X (1..MaxHeld) /\ Held' \subseteq Reqs \X (1..MaxHeld) BY DEF Held
    <3> QED BY <3>1, <3>3, <3>4, <3>5
  <2>6. Cardinality(Held') = Cardinality(Held) + 1 /\ Cardinality(Held) \in Nat
    BY <2>5, HeldFinite, FS_AddElement, FS_CardinalityType
  <2>7. left \in Nat /\ left >= 1 /\ left + Cardinality(Held) = Budget
    BY <1>4 DEF CanTake, BudgetInv, BudgetSound, BudgetExact
  <2>8. BudgetExact' /\ left' \in Nat BY <1>4, <2>6, <2>7 DEF BudgetExact
  <2>9. ASSUME NEW p \in Reqs, req'[p].pc = "wait", ~req'[p].woken PROVE ~CanTake(p)'
    <3>1. p # q /\ req'[p] = req[p] BY <2>2, <2>3, <2>9
    <3>2. ~Room(p) /\ req[p].share \in Nat
      BY <2>9, <3>1, AtBudget, CanTakeIsRoom DEF BudgetInv, BudgetSound, NoLostWakeup, ReqSet
    <3>3. \A x \in Reqs : req'[x].gen = req[x].gen BY <2>2, <2>3
    <3> DEFINE i == owner[req[p].gen]
    <3>4. CountOf(Held', owner', req', i) = CountOf(Held', owner, req, i)
      <4>1. \A h \in Held' : h[1] \in Reqs BY DEF Held
      <4>2. {h \in Held' : owner'[req'[h[1]].gen] = i} = {h \in Held' : owner[req[h[1]].gen] = i}
        BY <1>1, <3>3, <4>1
      <4> QED BY <4>2 DEF CountOf
    <3>5. CountOf(Held, owner, req, i) <= CountOf(Held', owner, req, i) /\ CountOf(Held, owner, req, i) \in Nat
          /\ CountOf(Held', owner, req, i) \in Nat
      BY <2>5, HeldFinite, RoomIsLess
    <3>6. owner'[req'[p].gen] = i /\ req'[p].share = req[p].share BY <1>1, <3>1
    <3> HIDE DEF i
    <3>7. Room(p)' => Room(p)
      <4>1. Room(p)' <=> left' >= 1 /\ CountOf(Held', owner', req', i) + 1 <= req[p].share BY <3>6 DEF Room
      <4>2. Room(p) <=> left >= 1 /\ CountOf(Held, owner, req, i) + 1 <= req[p].share BY DEF Room, i
      <4> QED BY <1>4, <2>7, <3>2, <3>4, <3>5, <4>1, <4>2
    <3> QED BY <3>2, <3>7, CanTakeIsRoom
  <2>10. \A p \in Reqs : HoldOK(req'[p], gens') BY <1>1, <2>3, <2>4 DEF BudgetInv
  <2> QED BY <1>1, <2>8, <2>9, <2>10 DEF BudgetInv, BudgetSound, NoLostWakeup
<1> QED BY <1>1, <1>3, <1>4 DEF Take

LEMMA WakeBudget == ASSUME RequestsInv, BudgetInv, NEW q \in Reqs, Wake(q) PROVE BudgetInv'
<1> DEFINE k == [req[q] EXCEPT !.pc = "take", !.woken = FALSE]
<1>1. req[q].pc = "wait" /\ UNCHANGED <<left, owner, gens>> BY DEF Wake
<1>2. req[q] \in ReqSet /\ HoldOK(req[q], gens) /\ req \in [Reqs -> ReqSet] BY AtBudget
<1>3. /\ req' = [req EXCEPT ![q] = k] /\ k.pc = "take" /\ k.taken = req[q].taken /\ k.gen = req[q].gen
      /\ k.read = req[q].read
  BY <1>2 DEF ReqSet, Wake
<1> HIDE DEF k
<1>4. HoldOK(k, gens) BY <1>1, <1>2, <1>3 DEF HoldOK
<1>5. k.pc # "wait" BY <1>3
<1> QED BY <1>1, <1>3, <1>4, <1>5, OneKeeps

LEMMA ReadBudget == ASSUME RequestsInv, BudgetInv, NEW q \in Reqs, Read(q) PROVE BudgetInv'
<1> DEFINE pc == IF req[q].read + 1 = req[q].body \/ req[q].read + 1 = MaxHeld THEN "scan" ELSE "take"
           k == [req[q] EXCEPT !.read = req[q].read + 1, !.pc = pc]
<1>1. req[q].pc = "read" /\ UNCHANGED <<left, owner, gens>> /\ req' = [req EXCEPT ![q] = k] BY DEF Read
<1>2. req[q] \in ReqSet /\ HoldOK(req[q], gens) /\ MaxHeld \in Nat \ {0} /\ req[q].read \in Nat BY AtBudget DEF ReqSet
<1>3. pc \in {"scan", "take"} /\ (pc = "take" => req[q].read + 1 # MaxHeld) OBVIOUS
<1> HIDE DEF pc
<1>4. k.pc = pc /\ k.taken = req[q].taken /\ k.gen = req[q].gen /\ k.read = req[q].read + 1 BY <1>2 DEF ReqSet
<1> HIDE DEF k
<1>5. HoldOK(k, gens) BY <1>1, <1>2, <1>3, <1>4 DEF HoldOK
<1>6. k.pc # "wait" BY <1>3, <1>4
<1> QED BY <1>1, <1>4, <1>5, <1>6, OneKeeps

LEMMA InstantBudget == ASSUME RequestsInv, BudgetInv, NEW q \in Reqs, Instant(q) PROVE BudgetInv'
<1> DEFINE k == [req[q] EXCEPT !.at = now, !.pc = "match"]
<1>1. UNCHANGED <<left, owner, gens>> /\ (req' = [req EXCEPT ![q] = Answered(req[q], 401)] \/ req' = [req EXCEPT ![q] = k])
  BY DEF Instant
<1>2. k.pc \notin {"idle", "take", "wait", "read"} /\ k.taken = req[q].taken /\ k.gen = req[q].gen BY AtBudget DEF ReqSet
<1> HIDE DEF k
<1> QED BY <1>1, <1>2, EndsBudget, OneGoes

LEMMA ScanBudget == ASSUME RequestsInv, BudgetInv, NEW q \in Reqs, Scan(q) PROVE BudgetInv'
<1> DEFINE seen == Contains(Unexpired(live[req[q].gen].toks, req[q].at), req[q].tok)
           k == [req[q] EXCEPT !.pc = "resolve", !.share = 0, !.seen = seen]
<1>1. UNCHANGED <<left, owner, gens>> BY DEF Scan
<1>2. CASE \E status \in {400, 403, 404, 413, 415} : req' = [req EXCEPT ![q] = Answered(req[q], status)]
  <2>1. PICK status : req' = [req EXCEPT ![q] = Answered(req[q], status)] BY <1>2
  <2> QED BY <1>1, <2>1, EndsBudget
<1>3. CASE req' = [req EXCEPT ![q] = k]
  <2> HIDE DEF seen
  <2>1. k.pc = "resolve" /\ k.taken = req[q].taken /\ k.gen = req[q].gen BY AtBudget DEF ReqSet
  <2> HIDE DEF k
  <2>2. k.pc \notin {"idle", "take", "wait", "read"} BY <2>1
  <2> QED BY <1>1, <1>3, <2>1, <2>2, OneGoes
<1> QED BY <1>2, <1>3 DEF Scan

LEMMA ResolveBudget == ASSUME RequestsInv, BudgetInv, NEW q \in Reqs, Resolve(q) PROVE BudgetInv'
<1> DEFINE k == [req[q] EXCEPT !.doc = store.doc, !.pc = IF req[q].route = "tls" THEN "cert" ELSE "send"]
<1>1. /\ UNCHANGED <<left, owner, gens>>
      /\ (\E status : req' = [req EXCEPT ![q] = Answered(req[q], status)]) \/ req' = [req EXCEPT ![q] = k]
  BY DEF Resolve
<1>2. k.pc \notin {"idle", "take", "wait", "read"} /\ k.taken = req[q].taken /\ k.gen = req[q].gen BY AtBudget DEF ReqSet
<1> HIDE DEF k
<1> QED BY <1>1, <1>2, EndsBudget, OneGoes

LEMMA ClientCertificateBudget == ASSUME RequestsInv, BudgetInv, NEW q \in Reqs, ClientCertificate(q) PROVE BudgetInv'
<1> DEFINE k == [req[q] EXCEPT !.ver = store.cert, !.pc = IF cert = store.cert THEN "transport" ELSE "cache"]
<1>1. UNCHANGED <<left, owner, gens>> /\ (req' = [req EXCEPT ![q] = Answered(req[q], 502)] \/ req' = [req EXCEPT ![q] = k])
  BY DEF ClientCertificate
<1>2. k.pc \notin {"idle", "take", "wait", "read"} /\ k.taken = req[q].taken /\ k.gen = req[q].gen BY AtBudget DEF ReqSet
<1> HIDE DEF k
<1> QED BY <1>1, <1>2, EndsBudget, OneGoes

LEMMA CacheCertBudget == ASSUME RequestsInv, BudgetInv, NEW q \in Reqs, CacheCert(q) PROVE BudgetInv'
<1> DEFINE k == [req[q] EXCEPT !.pc = "transport"]
<1>1. UNCHANGED <<left, owner, gens>> /\ req' = [req EXCEPT ![q] = k]
  <2>1. req' = [req EXCEPT ![q].pc = "transport"] /\ UNCHANGED <<left, owner, gens>> BY DEF CacheCert
  <2> QED BY <2>1, AtBudget
<1>2. k.pc \notin {"idle", "take", "wait", "read"} /\ k.taken = req[q].taken /\ k.gen = req[q].gen BY AtBudget DEF ReqSet
<1> HIDE DEF k
<1> QED BY <1>1, <1>2, OneGoes

LEMMA RouteTransportBudget == ASSUME RequestsInv, BudgetInv, NEW q \in Reqs, RouteTransport(q) PROVE BudgetInv'
<1>1. UNCHANGED <<left, owner, gens>> BY DEF RouteTransport
<1>2. CASE req' = [req EXCEPT ![q] = Answered(req[q], 404)] BY <1>1, <1>2, EndsBudget
<1>3. CASE \E s : req' = [req EXCEPT ![q] = [req[q] EXCEPT !.tt = s, !.pc = "send"]]
  <2>1. PICK s : req' = [req EXCEPT ![q] = [req[q] EXCEPT !.tt = s, !.pc = "send"]] BY <1>3
  <2> DEFINE k == [req[q] EXCEPT !.tt = s, !.pc = "send"]
  <2>2. k.pc \notin {"idle", "take", "wait", "read"} /\ k.taken = req[q].taken /\ k.gen = req[q].gen BY AtBudget DEF ReqSet
  <2>3. req' = [req EXCEPT ![q] = k] BY <2>1
  <2> HIDE DEF k
  <2> QED BY <1>1, <2>2, <2>3, OneGoes
<1> QED BY <1>2, <1>3 DEF RouteTransport

LEMMA SendBudget == ASSUME RequestsInv, BudgetInv, NEW q \in Reqs, Send(q) PROVE BudgetInv'
<1> DEFINE k == [req[q] EXCEPT !.pc = "renew", !.refused = req[q].doc]
<1>1. UNCHANGED <<left, owner, gens>> BY DEF Send
<1>2. (\E status : req' = [req EXCEPT ![q] = Answered(req[q], status)]) \/ req' = [req EXCEPT ![q] = k] BY DEF Send
<1>3. k.pc \notin {"idle", "take", "wait", "read"} /\ k.taken = req[q].taken /\ k.gen = req[q].gen BY AtBudget DEF ReqSet
<1> HIDE DEF k
<1> QED BY <1>1, <1>2, <1>3, EndsBudget, OneGoes

LEMMA RenewedBudget == ASSUME RequestsInv, BudgetInv, NEW q \in Reqs, Renewed(q) PROVE BudgetInv'
<1>1. UNCHANGED <<left, owner, gens>> BY DEF Renewed
<1>2. (\E d : req' = [req EXCEPT ![q] = [req[q] EXCEPT !.doc = d, !.pc = "send"]])
      \/ req' = [req EXCEPT ![q] = Answered(req[q], 401)]
  BY DEF Renewed
<1>3. CASE \E d : req' = [req EXCEPT ![q] = [req[q] EXCEPT !.doc = d, !.pc = "send"]]
  <2>1. PICK d : req' = [req EXCEPT ![q] = [req[q] EXCEPT !.doc = d, !.pc = "send"]] BY <1>3
  <2> DEFINE k == [req[q] EXCEPT !.doc = d, !.pc = "send"]
  <2>2. k.pc \notin {"idle", "take", "wait", "read"} /\ k.taken = req[q].taken /\ k.gen = req[q].gen BY AtBudget DEF ReqSet
  <2>3. req' = [req EXCEPT ![q] = k] BY <2>1
  <2> HIDE DEF k
  <2> QED BY <1>1, <2>2, <2>3, OneGoes
<1> QED BY <1>1, <1>2, <1>3, EndsBudget

\* What an answered request held is given back, and everyone who waits looks again.
LEMMA DoneBudget == ASSUME RequestsInv, BudgetInv, NEW q \in Reqs, Done(q) PROVE BudgetInv'
<1> DEFINE n == req[q].taken
           back == {q} \X (1..n)
<1>1. /\ req[q].pc = "done" /\ UNCHANGED <<owner, gens>> /\ left' = left + n
      /\ req' = [p \in Reqs |->
             IF p = q THEN Idle
             ELSE IF Frees(req[q], req[p]) THEN [req[p] EXCEPT !.woken = TRUE] ELSE req[p]]
  BY DEF Done, Given
<1>2. n \in 0..MaxHeld /\ MaxHeld \in Nat BY AtBudget DEF HoldOK
<1>3. /\ req'[q].taken = 0 /\ req'[q].pc = "idle"
      /\ HoldOK(req'[q], gens')
  <2>1. req'[q] = Idle BY <1>1
  <2>2. Idle.taken = 0 /\ Idle.pc = "idle" BY DEF Idle
  <2> QED BY <1>2, <2>1, <2>2 DEF HoldOK
<1>4. ASSUME NEW p \in Reqs, p # q
      PROVE  /\ req'[p].taken = req[p].taken /\ req'[p].gen = req[p].gen /\ HoldOK(req'[p], gens')
             /\ req'[p].pc = "wait" /\ ~req'[p].woken =>
                  req[p].pc = "wait" /\ ~req[p].woken /\ req'[p].share = req[p].share /\ n = 0
  <2>1. req[p] \in ReqSet /\ HoldOK(req[p], gens) BY AtBudget
  <2>2. CASE Frees(req[q], req[p])
    <3>1. req'[p] = [req[p] EXCEPT !.woken = TRUE] BY <1>1, <1>4, <2>2
    <3>2. /\ req'[p].taken = req[p].taken /\ req'[p].gen = req[p].gen /\ req'[p].pc = req[p].pc
          /\ req'[p].read = req[p].read /\ req'[p].woken
      BY <2>1, <3>1 DEF ReqSet
    <3> QED BY <1>1, <2>1, <3>2 DEF HoldOK
  <2>3. CASE ~Frees(req[q], req[p])
    <3>1. req'[p] = req[p] BY <1>1, <1>4, <2>3
    <3>2. req[p].pc = "wait" => n = 0 BY <1>2, <2>3 DEF Frees
    <3> QED BY <1>1, <2>1, <3>1, <3>2
  <2> QED BY <2>2, <2>3
<1>5. CASE n = 0
  <2>1. ASSUME NEW p \in Reqs
        PROVE  /\ HoldOK(req'[p], gens') /\ req'[p].taken = req[p].taken
               /\ req[p].taken > 0 => req'[p].gen = req[p].gen
               /\ req'[p].pc = "wait" /\ ~req'[p].woken =>
                    req'[p].gen = req[p].gen /\ req[p].gen \in 1..gens /\ req'[p].share = req[p].share /\ ~Room(p)
    <3>1. CASE p = q BY <1>3, <1>5, <3>1
    <3>2. CASE p # q
      <4>1. req[p].pc = "wait" /\ ~req[p].woken => ~CanTake(p) BY DEF BudgetInv, BudgetSound, NoLostWakeup
      <4> QED BY <1>4, <3>2, <4>1, AtBudget, CanTakeIsRoom DEF Going
    <3> QED BY <3>1, <3>2
  <2>2. left' = left /\ owner' \in [1..MaxGen -> Ids \cup {"none"}] BY <1>1, <1>5 DEF BudgetInv
  <2>3. \A g \in 1..gens : owner'[g] = owner[g] BY <1>1
  <2> QED BY <2>1, <2>2, <2>3, NothingTaken
<1>6. CASE n # 0
  <2>1. Held' = Held \ back /\ back \subseteq Held
    <3>1. \A p \in Reqs, m \in 1..MaxHeld : m <= req'[p].taken <=> m <= req[p].taken /\ p # q
      BY <1>2, <1>3, <1>4
    <3>2. \A p \in Reqs, m \in 1..MaxHeld : <<p, m>> \in back <=> p = q /\ m <= n BY <1>2
    <3>3. \A h \in Reqs \X (1..MaxHeld) : h \in Held' <=> h \in Held /\ h \notin back
      BY <3>1, <3>2 DEF Held
    <3>4. Held \subseteq Reqs \X (1..MaxHeld) /\ Held' \subseteq Reqs \X (1..MaxHeld) BY DEF Held
    <3>5. back \subseteq Held BY <1>2 DEF Held
    <3> HIDE DEF back
    <3> QED BY <3>3, <3>4, <3>5
  <2>2. IsFiniteSet(back) /\ Cardinality(back) = n
    <3>1. IsFiniteSet({q}) /\ Cardinality({q}) = 1 BY FS_Singleton
    <3>2. IsFiniteSet(1..n) /\ Cardinality(1..n) = n
      <4> HIDE DEF n
      <4>1. n \in Int /\ 1 \in Int /\ n >= 0 BY <1>2
      <4>2. IsFiniteSet(1..n) /\ Cardinality(1..n) = IF 1 > n THEN 0 ELSE n - 1 + 1 BY <4>1, FS_Interval
      <4> QED BY <4>1, <4>2
    <3>3. Cardinality(back) = 1 * n /\ IsFiniteSet(back) BY <3>1, <3>2, FS_Product
    <3> QED BY <1>2, <3>3
  <2> HIDE DEF back
  <2>3. Cardinality(Held') = Cardinality(Held) - n /\ Cardinality(Held) \in Nat
    <3>1. Held \cap back = back BY <2>1
    <3>2. Cardinality(Held \ back) = Cardinality(Held) - Cardinality(Held \cap back) BY HeldFinite, FS_Difference
    <3> QED BY <2>1, <2>2, <3>1, <3>2, HeldFinite, FS_CardinalityType
  <2>4. BudgetExact' /\ left' \in Nat
    BY <1>1, <1>2, <2>3 DEF BudgetInv, BudgetSound, BudgetExact
  <2>5. NoLostWakeup' BY <1>3, <1>4, <1>6 DEF NoLostWakeup
  <2>6. \A p \in Reqs : HoldOK(req'[p], gens') BY <1>3, <1>4
  <2> QED BY <1>1, <2>4, <2>5, <2>6 DEF BudgetInv, BudgetSound
<1> QED BY <1>5, <1>6

LEMMA RequestBudget == ASSUME RequestsInv, BudgetInv, NEW q \in Reqs, Request(q) PROVE BudgetInv'
<1>1. RefuseShape(q) => BudgetInv' BY RefusedBudget DEF RefuseShape
<1>2. ASSUME BudgetTimeout(q) PROVE BudgetInv'
  <2>1. req' = [req EXCEPT ![q] = Answered(req[q], 503)] BY <1>2 DEF BudgetTimeout
  <2>2. UNCHANGED <<left, owner, gens>> BY <1>2 DEF BudgetTimeout
  <2> QED BY <2>1, <2>2, EndsBudget
<1>3. ASSUME BodyFails(q) PROVE BudgetInv'
  <2>1. PICK status : req' = [req EXCEPT ![q] = Answered(req[q], status)] BY <1>3 DEF BodyFails
  <2>2. UNCHANGED <<left, owner, gens>> BY <1>3 DEF BodyFails
  <2> QED BY <2>1, <2>2, EndsBudget
<1> QED
  BY <1>1, <1>2, <1>3, LookupBudget, TakeBudget, WakeBudget, ReadBudget, InstantBudget, ScanBudget, ResolveBudget,
     ClientCertificateBudget, CacheCertBudget, RouteTransportBudget, SendBudget, RenewedBudget, DoneBudget
  DEF Request

LEMMA NextBudget == ASSUME RequestsInv, BudgetInv, [Next]_vars PROVE BudgetInv'
<1>0. gens \in Nat /\ gens <= gens /\ owner \in [1..MaxGen -> Ids \cup {"none"}] /\ gens <= MaxGen /\ MaxGen \in Nat
  BY RequestsAssumption DEF RequestsInv, RegPart, RegTypes, BudgetInv
<1>1. ASSUME UNCHANGED <<left, req, owner, gens>> PROVE BudgetInv' BY <1>0, <1>1, Untouched
<1>2. ASSUME NEW i \in Ids, AddSandbox(i) PROVE BudgetInv'
  <2>1. /\ UNCHANGED <<left, req>> /\ gens' = gens + 1 /\ owner' = [owner EXCEPT ![gens + 1] = i] /\ gens < MaxGen
    BY <1>2 DEF AddSandbox
  <2>2. owner' \in [1..MaxGen -> Ids \cup {"none"}] /\ \A g \in 1..gens : owner'[g] = owner[g] BY <1>0, <2>1
  <2> QED BY <1>0, <2>1, <2>2, Untouched
<1>3. \A i \in Ids : RemoveSandbox(i) => UNCHANGED <<left, req, owner, gens>> BY DEF RemoveSandbox
<1>4. \A g \in 1..MaxGen : CloseTransports(g) => UNCHANGED <<left, req, owner, gens>> BY DEF CloseTransports
<1>5. \A i, r, e : Mint(i, r, e) => UNCHANGED <<left, req, owner, gens>> BY DEF Mint
<1>6. Tick \/ RotateCert \/ PruneCerts \/ UNCHANGED vars => UNCHANGED <<left, req, owner, gens>>
  BY DEF Tick, RotateCert, PruneCerts, vars
<1> QED BY <1>1, <1>2, <1>3, <1>4, <1>5, <1>6, RequestBudget DEF Next

LEMMA InitBudget == Init => BudgetInv
<1> SUFFICES ASSUME Init PROVE BudgetInv OBVIOUS
<1>1. \A q \in Reqs : req[q] = Idle BY DEF Init
<1>2. Idle.taken = 0 /\ Idle.pc = "idle" BY DEF Idle
<1>3. MaxHeld \in Nat /\ Budget \in Nat BY RequestsAssumption
<1>4. Held = {} BY <1>1, <1>2, <1>3 DEF Held
<1>5. BudgetExact BY <1>3, <1>4, FS_EmptySet DEF Init, BudgetExact
<1>6. NoLostWakeup BY <1>1, <1>2 DEF NoLostWakeup
<1>7. \A q \in Reqs : HoldOK(req[q], gens) BY <1>1, <1>2, <1>3 DEF HoldOK
<1>8. left \in Nat /\ owner \in [1..MaxGen -> Ids \cup {"none"}] BY <1>3 DEF Init
<1> QED BY <1>5, <1>6, <1>7, <1>8 DEF BudgetInv, BudgetSound

\* The replay budget is exact at every moment, and no body waits, with nothing to
\* wake it, while there is room for its next step: however requests end, and
\* whatever registrations come and go meanwhile (broker.go:501-560).
THEOREM BudgetKept == Spec => []BudgetSound
<1>1. Init => RequestsInv /\ BudgetInv BY InitInv, InitBudget
<1>2. RequestsInv /\ BudgetInv /\ [Next]_vars => RequestsInv' /\ BudgetInv' BY NextInv, StutterInv, NextBudget
<1>3. BudgetInv => BudgetSound BY DEF BudgetInv
<1> QED BY <1>1, <1>2, <1>3, PTL DEF Spec

=============================================================================
