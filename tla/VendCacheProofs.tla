--------------------------- MODULE VendCacheProofs ---------------------------
(***************************************************************************)
(* Proofs about VendCache, for any sandboxes, pointers, callers and entry  *)
(* objects.                                                                *)
(***************************************************************************)
EXTENDS VendCache, TLAPS

Labels == {"idle", "get", "look", "wait", "woken", "done", "lock"}
KeySet == [ptr : Ptrs \cup {None}, left : 0..3, recent : BOOLEAN]
AnswerSet == [ptr : Ptrs \cup {None}, live : BOOLEAN]
CallSet == [id : Ids \cup {None}, ptr : Ptrs \cup {None}, e : Entries \cup {None},
            margin : {0, ensureMargin, getMargin}, seen : Ptrs \cup {None}, res : AnswerSet]

(* The types of the server and of the cache; failing and registered are sets
   of sandboxes. *)
CacheOK ==
    /\ registered \subseteq Ids /\ failing \subseteq Ids /\ raced \subseteq Ids
    /\ entries \in [Ids -> Entries \cup {None}]
    /\ held \in [Entries -> KeySet]
    /\ flight \in [Entries -> Ptrs \cup {None}]
    /\ secretPtr \in Ptrs

(* An answer is for pointer p: it is none, or keys of p. *)
answersFor(r, p) == r.ptr # None => r.ptr = p

(* What was served without waiting for a flight is none, or live keys. *)
heldIsLive(k) == k.res.ptr # None /\ k.seen = None => k.res.live

(* What a caller carries at each place of its call. *)
CallerOK(l, k) ==
    /\ l = "idle" => k = NoCall
    /\ l # "idle" => k.id \in Ids /\ k.ptr \in Ptrs /\ k.margin \in {ensureMargin, getMargin}
    /\ l \notin {"idle", "get"} => k.e \in Entries
    /\ l \in {"get", "look", "wait"} => k.res = answer(NoKeys)
    /\ l = "woken" => answersFor(k.res, k.seen)
    /\ l \in {"done", "lock"} => answersFor(k.res, k.ptr) /\ heldIsLive(k)
    /\ l = "lock" => k.margin = ensureMargin

CallsOK ==
    /\ pc \in [Callers -> Labels] /\ call \in [Callers -> CallSet]
    /\ \A c \in Callers : CallerOK(pc[c], call[c])

(* A registration of sandbox id is under way. *)
checking(id) == \E c \in Callers : call[c].id = id /\ ~vending(c)

(* A request is of a sandbox that is registered, or that was forgotten under
   it; what an unregistered sandbox has, a registration under way put there. *)
TracesInv ==
    /\ \A c \in Callers : vending(c) => call[c].id \in registered \cup raced
    /\ \A id \in Ids \ (registered \cup raced) :
          entries[id] # None \/ id \in failing => checking(id)

IInv == CacheOK /\ CallsOK /\ TracesInv

-----------------------------------------------------------------------------
(* Records *)

LEMMA NoKeysType ==
    /\ NoKeys \in KeySet
    /\ answer(NoKeys) \in AnswerSet
    /\ answer(NoKeys).ptr = None
    /\ \A k \in KeySet : answer(k) \in AnswerSet
  BY DEF NoKeys, KeySet, AnswerSet, answer

LEMMA NoCallType ==
    /\ NoCall \in CallSet
    /\ NoCall.id = None /\ NoCall.margin = 0 /\ NoCall.res = answer(NoKeys)
<1>1. answer(NoKeys) \in AnswerSet
  BY NoKeysType
<1> HIDE DEF answer
<1> QED BY <1>1 DEF NoCall, CallSet

(* A new call. *)
LEMMA NewCall ==
    ASSUME NEW id \in Ids, NEW p \in Ptrs, NEW m \in {ensureMargin, getMargin},
           NEW k, k = [NoCall EXCEPT !.id = id, !.ptr = p, !.margin = m]
    PROVE  /\ k \in CallSet /\ CallerOK("get", k)
           /\ k.id = id /\ k.margin = m
<1>1. answer(NoKeys) \in AnswerSet
  BY NoKeysType
<1>2. k.id = id /\ k.ptr = p /\ k.margin = m /\ k.res = answer(NoKeys)
  BY DEF NoCall
<1>3. k \in CallSet
  BY <1>1 DEF NoCall, CallSet
<1>4. CallerOK("get", k)
  BY <1>2 DEF CallerOK
<1> QED BY <1>2, <1>3, <1>4

(* The fields of a call. *)
LEMMA CallFields ==
    ASSUME NEW k \in CallSet
    PROVE  /\ \A e \in Entries : /\ [k EXCEPT !.e = e] \in CallSet
                                 /\ [k EXCEPT !.e = e].e = e
                                 /\ [k EXCEPT !.e = e].id = k.id
                                 /\ [k EXCEPT !.e = e].ptr = k.ptr
                                 /\ [k EXCEPT !.e = e].margin = k.margin
                                 /\ [k EXCEPT !.e = e].res = k.res
           /\ \A r \in AnswerSet : /\ [k EXCEPT !.res = r] \in CallSet
                                   /\ [k EXCEPT !.res = r].res = r
                                   /\ [k EXCEPT !.res = r].id = k.id
                                   /\ [k EXCEPT !.res = r].e = k.e
                                   /\ [k EXCEPT !.res = r].ptr = k.ptr
                                   /\ [k EXCEPT !.res = r].margin = k.margin
  BY DEF CallSet

-----------------------------------------------------------------------------
(* The calls *)

(* One caller goes on. *)
LEMMA OneMoves ==
    ASSUME CallsOK, NEW c \in Callers, NEW l \in Labels, NEW k \in CallSet,
           CallerOK(l, k), goto(c, l), call' = [call EXCEPT ![c] = k]
    PROVE  CallsOK'
  BY DEF CallsOK, goto

(* The same, where its locals stay as they are. *)
LEMMA OneMovesAlone ==
    ASSUME CallsOK, NEW c \in Callers, NEW l \in Labels,
           CallerOK(l, call[c]), goto(c, l), UNCHANGED call
    PROVE  CallsOK'
  BY DEF CallsOK, goto

LEMMA Returns ==
    ASSUME CallsOK, NEW c \in Callers, return(c)
    PROVE  CallsOK'
<1>1. NoCall \in CallSet BY NoCallType
<1>2. CallerOK("idle", NoCall) BY DEF CallerOK
<1>3. "idle" \in Labels BY DEF Labels
<1> QED BY <1>1, <1>2, <1>3, OneMoves DEF return

LEMMA Begins ==
    ASSUME CallsOK, NEW c \in Callers, NEW id \in Ids, secretPtr \in Ptrs,
           Vend(c, id) \/ addSandbox(c, id)
    PROVE  CallsOK'
<1>1. "get" \in Labels BY DEF Labels
<1>2. PICK m \in {ensureMargin, getMargin} :
        call' = [call EXCEPT ![c] = [NoCall EXCEPT !.id = id, !.ptr = secretPtr, !.margin = m]]
  BY DEF Vend, addSandbox
<1> DEFINE k == [NoCall EXCEPT !.id = id, !.ptr = secretPtr, !.margin = m]
<1>3. k \in CallSet /\ CallerOK("get", k)
  BY NewCall
<1>4. goto(c, "get")
  BY DEF Vend, addSandbox
<1> HIDE DEF k
<1> QED BY <1>1, <1>2, <1>3, <1>4, OneMoves DEF k

LEMMA Finds ==
    ASSUME CallsOK, NEW c \in Callers, FindEntry(c)
    PROVE  CallsOK'
<1>1. "look" \in Labels BY DEF Labels
<1>2. PICK e \in Entries : call' = [call EXCEPT ![c] = [call[c] EXCEPT !.e = e]]
  BY DEF FindEntry
<1>3. pc[c] = "get" /\ goto(c, "look") /\ call[c] \in CallSet /\ CallerOK("get", call[c])
  BY DEF FindEntry, CallsOK
<1> DEFINE k == [call[c] EXCEPT !.e = e]
<1>4. /\ k \in CallSet /\ k.e = e /\ k.id = call[c].id /\ k.ptr = call[c].ptr
      /\ k.margin = call[c].margin /\ k.res = call[c].res
  BY <1>3, CallFields
<1> HIDE DEF k
<1>5. CallerOK("look", k)
  BY <1>3, <1>4 DEF CallerOK
<1> QED BY <1>1, <1>2, <1>3, <1>4, <1>5, OneMoves DEF k

(* Keys that are served are of the pointer asked for and not expired. *)
LEMMA ServedLive ==
    ASSUME NEW k \in KeySet, NEW p, NEW m \in {ensureMargin, getMargin}, servable(k, p, m)
    PROVE  answersFor(answer(k), p) /\ answer(k).live
<1>1. k.ptr = p /\ k.left > 0
  BY DEF KeySet, servable, ensureMargin, getMargin
<1>2. answer(k).ptr = p /\ answer(k).live
  BY <1>1, Zenon DEF answer
<1> QED BY <1>2 DEF answersFor

LEMMA Looks ==
    ASSUME CacheOK, CallsOK, NEW c \in Callers, Look(c)
    PROVE  CallsOK'
<1> DEFINE e == call[c].e
<1>1. "done" \in Labels /\ "wait" \in Labels BY DEF Labels
<1>2. pc[c] = "look" /\ call[c] \in CallSet /\ CallerOK("look", call[c])
  BY DEF Look, CallsOK
<1>3. e \in Entries /\ call[c].margin \in {ensureMargin, getMargin}
      /\ call[c].ptr \in Ptrs /\ call[c].id \in Ids
  BY <1>2 DEF CallerOK
<1>4. held[e] \in KeySet
  BY <1>3 DEF CacheOK
<1>5. CASE /\ servable(held[e], call[c].ptr, call[c].margin)
           /\ goto(c, "done")
           /\ call' = [call EXCEPT ![c].res = answer(held[e])]
  <2> DEFINE r == answer(held[e])
             k == [call[c] EXCEPT !.res = r]
  <2>1. answersFor(r, call[c].ptr) /\ r.live
    BY <1>3, <1>4, <1>5, ServedLive
  <2>2. r \in AnswerSet
    BY <1>4, NoKeysType
  <2> HIDE DEF r
  <2>3. /\ k \in CallSet /\ k.res = r /\ k.id = call[c].id /\ k.e = e
        /\ k.ptr = call[c].ptr /\ k.margin = call[c].margin
    BY <1>2, <2>2, CallFields
  <2>4. call' = [call EXCEPT ![c] = k]
    BY <1>5 DEF r
  <2> HIDE DEF k
  <2>6. heldIsLive(k)
    BY <2>1, <2>3, Zenon DEF heldIsLive
  <2>5. CallerOK("done", k)
    BY <1>3, <2>1, <2>3, <2>6 DEF CallerOK
  <2> QED BY <1>1, <1>5, <2>3, <2>4, <2>5, OneMoves
<1>6. CASE goto(c, "wait") /\ UNCHANGED call
  <2>1. CallerOK("wait", call[c])
    BY <1>2 DEF CallerOK
  <2> QED BY <1>1, <1>6, <2>1, OneMovesAlone
<1> QED BY <1>5, <1>6 DEF Look

LEMMA Wakes ==
    ASSUME CallsOK, NEW c \in Callers, Woken(c)
    PROVE  CallsOK'
<1>1. "done" \in Labels /\ "look" \in Labels BY DEF Labels
<1>2. pc[c] = "woken" /\ call[c] \in CallSet /\ CallerOK("woken", call[c])
  BY DEF Woken, CallsOK
<1>3. CASE call[c].seen = call[c].ptr /\ goto(c, "done") /\ UNCHANGED call
  <2>1. call[c].ptr \in Ptrs
    BY <1>2 DEF CallerOK
  <2>2. heldIsLive(call[c])
    BY <1>3, <2>1, VendAssumption DEF heldIsLive
  <2>3. CallerOK("done", call[c])
    BY <1>2, <1>3, <2>2 DEF CallerOK
  <2> QED BY <1>1, <1>3, <2>3, OneMovesAlone
<1>4. CASE /\ goto(c, "look")
           /\ call' = [call EXCEPT ![c].seen = None, ![c].res = answer(NoKeys)]
  <2> DEFINE r == answer(NoKeys)
             k == [call[c] EXCEPT !.seen = None, !.res = r]
  <2>1. r \in AnswerSet BY NoKeysType
  <2>2. call' = [call EXCEPT ![c] = k]
    BY <1>4 DEF CallsOK
  <2> HIDE DEF r
  <2>0. k = [call[c] EXCEPT !.seen = None, !.res = r] /\ None \in Ptrs \cup {None}
    OBVIOUS
  <2> HIDE DEF k
  <2>3. /\ k \in CallSet /\ k.res = r /\ k.id = call[c].id /\ k.e = call[c].e
        /\ k.ptr = call[c].ptr /\ k.margin = call[c].margin
    BY <1>2, <2>0, <2>1 DEF CallSet
  <2>4. CallerOK("look", k)
    BY <1>2, <2>3 DEF CallerOK, r
  <2> QED BY <1>1, <1>4, <2>2, <2>3, <2>4, OneMoves
<1> QED BY <1>3, <1>4 DEF Woken

LEMMA HangsUp ==
    ASSUME CallsOK, NEW c \in Callers, HangUp(c)
    PROVE  CallsOK'
<1>1. "done" \in Labels BY DEF Labels
<1>2. pc[c] = "wait" /\ CallerOK("wait", call[c]) /\ goto(c, "done") /\ UNCHANGED call
  BY DEF HangUp, CallsOK
<1>3. answer(NoKeys).ptr = None BY NoKeysType
<1>4. CallerOK("done", call[c])
  BY <1>2, <1>3 DEF CallerOK, answersFor, heldIsLive
<1> QED BY <1>1, <1>2, <1>4, OneMovesAlone

LEMMA Checks ==
    ASSUME CallsOK, NEW c \in Callers, CheckDone(c)
    PROVE  CallsOK'
<1>1. "lock" \in Labels BY DEF Labels
<1>2. pc[c] = "done" /\ call[c] \in CallSet /\ CallerOK("done", call[c]) /\ goto(c, "lock")
      /\ call[c].margin # getMargin
  BY DEF CheckDone, CallsOK, vending
<1>3. CASE UNCHANGED call
  <2>1. CallerOK("lock", call[c])
    BY <1>2 DEF CallerOK
  <2> QED BY <1>1, <1>2, <1>3, <2>1, OneMovesAlone
<1>4. CASE call' = [call EXCEPT ![c].res = answer(NoKeys)]
  <2> DEFINE r == answer(NoKeys)
             k == [call[c] EXCEPT !.res = r]
  <2>1. r \in AnswerSet /\ r.ptr = None BY NoKeysType
  <2>2. call' = [call EXCEPT ![c] = k]
    BY <1>4
  <2> HIDE DEF r
  <2>3. /\ k \in CallSet /\ k.res = r /\ k.id = call[c].id /\ k.e = call[c].e
        /\ k.ptr = call[c].ptr /\ k.margin = call[c].margin
    BY <1>2, <2>1, CallFields
  <2> HIDE DEF k
  <2>4. CallerOK("lock", k)
    BY <1>2, <2>1, <2>3 DEF CallerOK, answersFor, heldIsLive
  <2> QED BY <1>1, <1>2, <2>2, <2>3, <2>4, OneMoves
<1> QED BY <1>3, <1>4 DEF CheckDone

(* A fetch that ends wakes the callers that wait for its entry: the keys it
   hands out are of the flight's pointer. *)
LEMMA FetchWakes ==
    ASSUME CacheOK, CallsOK, NEW e \in Entries, NEW keys \in KeySet,
           answersFor(answer(keys), flight[e]), fetched(e, keys)
    PROVE  CallsOK'
<1> DEFINE r == answer(keys)
           woken(c) == pc[c] = "wait" /\ call[c].e = e
<1>1. r \in AnswerSet /\ flight[e] \in Ptrs \cup {None} /\ "woken" \in Labels
  BY NoKeysType DEF CacheOK, Labels
<1>2. /\ call' = [c \in Callers |->
            IF woken(c) THEN [call[c] EXCEPT !.seen = flight[e], !.res = r] ELSE call[c]]
      /\ pc' = [c \in Callers |-> IF woken(c) THEN "woken" ELSE pc[c]]
  BY DEF fetched
<1>3. answersFor(r, flight[e])
  OBVIOUS
<1> HIDE DEF r
<1>4. ASSUME NEW c \in Callers
      PROVE  pc'[c] \in Labels /\ call'[c] \in CallSet /\ CallerOK(pc'[c], call'[c])
  <2>1. pc[c] \in Labels /\ call[c] \in CallSet /\ CallerOK(pc[c], call[c])
    BY DEF CallsOK
  <2>2. CASE woken(c)
    <3> DEFINE k == [call[c] EXCEPT !.seen = flight[e], !.res = r]
    <3>0. k = [call[c] EXCEPT !.seen = flight[e], !.res = r]
      OBVIOUS
    <3>2. pc'[c] = "woken" /\ call'[c] = k
      BY <1>2, <2>2
    <3> HIDE DEF k
    <3>1. /\ k \in CallSet /\ k.res = r /\ k.seen = flight[e] /\ k.id = call[c].id
          /\ k.e = call[c].e /\ k.ptr = call[c].ptr /\ k.margin = call[c].margin
      BY <1>1, <2>1, <3>0 DEF CallSet
    <3>3. CallerOK("woken", k)
      BY <1>3, <2>1, <2>2, <3>1 DEF CallerOK
    <3> QED BY <1>1, <3>1, <3>2, <3>3
  <2>3. CASE ~woken(c)
    BY <1>2, <2>1, <2>3
  <2> QED BY <2>2, <2>3
<1> QED BY <1>2, <1>4 DEF CallsOK

LEMMA StepCalls ==
    ASSUME CacheOK, CallsOK, [Next]_vars
    PROVE  CallsOK'
<1>1. CASE UNCHANGED <<pc, call>>
  BY <1>1 DEF CallsOK
<1>2. ASSUME NEW c \in Callers, NEW id \in Ids, Vend(c, id) \/ addSandbox(c, id)
      PROVE  CallsOK'
  BY <1>2, Begins DEF CacheOK
<1>3. ASSUME NEW c \in Callers, Step(c) \/ HangUp(c)
      PROVE  CallsOK'
  BY <1>3, Finds, Looks, Wakes, Returns, Checks, HangsUp DEF Step, VendDone, Register
<1>4. ASSUME NEW e \in Entries, FetchOK(e) \/ FetchFails(e)
      PROVE  CallsOK'
  <2>1. CASE FetchOK(e)
    <3>1. PICK n \in 0..3 : fetched(e, [ptr |-> flight[e], left |-> n, recent |-> TRUE])
      BY <2>1 DEF FetchOK
    <3> DEFINE keys == [ptr |-> flight[e], left |-> n, recent |-> TRUE]
    <3>2. keys \in KeySet
      BY DEF CacheOK, KeySet
    <3>3. answersFor(answer(keys), flight[e])
      <4>1. keys.ptr = flight[e] OBVIOUS
      <4>2. answer(keys).ptr = flight[e]
        BY <4>1, Zenon DEF answer
      <4> QED BY <4>2 DEF answersFor
    <3> QED BY <3>1, <3>2, <3>3, FetchWakes
  <2>2. CASE FetchFails(e)
    <3>1. NoKeys \in KeySet /\ answer(NoKeys).ptr = None
      BY NoKeysType
    <3> QED BY <2>2, <3>1, FetchWakes DEF FetchFails, answersFor
  <2> QED BY <1>4, <2>1, <2>2
<1>5. ASSUME NEW e \in Entries, Age(e) PROVE CallsOK'
  BY <1>1, <1>5 DEF Age, callVars
<1>6. ASSUME NEW id \in Ids, removeSandbox(id) PROVE CallsOK'
  BY <1>1, <1>6 DEF removeSandbox, callVars
<1>7. ASSUME NEW p \in Ptrs, Import(p) PROVE CallsOK'
  BY <1>1, <1>7 DEF Import, callVars
<1>8. CASE UNCHANGED vars
  BY <1>1, <1>8 DEF vars, callVars
<1> QED BY <1>2, <1>3, <1>4, <1>5, <1>6, <1>7, <1>8 DEF Next

-----------------------------------------------------------------------------
(* The cache and the registrations *)

LEMMA ForgetType ==
    ASSUME CacheOK, NEW id \in Ids, forget(id)
    PROVE  /\ entries' \in [Ids -> Entries \cup {None}]
           /\ failing' \subseteq Ids /\ raced' \subseteq Ids
  BY DEF forget, CacheOK

LEMMA RefusedType ==
    ASSUME CacheOK, NEW c \in Callers, call[c].id \in Ids, refused(c)
    PROVE  /\ registered' \subseteq Ids
           /\ entries' \in [Ids -> Entries \cup {None}]
           /\ failing' \subseteq Ids /\ raced' \subseteq Ids
  BY ForgetType DEF refused, CacheOK

(* The sandbox of a call that is under way. *)
LEMMA CallNames ==
    ASSUME CallsOK, NEW c \in Callers, pc[c] # "idle"
    PROVE  call[c].id \in Ids /\ call[c].ptr \in Ptrs
           /\ call[c].margin \in {ensureMargin, getMargin}
           /\ (pc[c] # "get" => call[c].e \in Entries)
  BY DEF CallsOK, CallerOK

LEMMA StepCache ==
    ASSUME CacheOK, CallsOK, [Next]_vars
    PROVE  CacheOK'
<1>1. ASSUME NEW c \in Callers, NEW id \in Ids, Vend(c, id) \/ addSandbox(c, id)
      PROVE  CacheOK'
  BY <1>1 DEF Vend, addSandbox, CacheOK, cacheVars
<1>2. ASSUME NEW c \in Callers, FindEntry(c) PROVE CacheOK'
  <2>1. NoKeys \in KeySet BY NoKeysType
  <2>2. pc[c] # "idle" BY <1>2 DEF FindEntry
  <2> HIDE DEF NoKeys
  <2> QED BY <1>2, <2>1, <2>2, CallNames DEF FindEntry, CacheOK
<1>3. ASSUME NEW c \in Callers, Look(c) PROVE CacheOK'
  <2>1. call[c].ptr \in Ptrs BY <1>3, CallNames DEF Look
  <2> QED BY <1>3, <2>1 DEF Look, CacheOK
<1>4. ASSUME NEW c \in Callers, Woken(c) \/ HangUp(c) PROVE CacheOK'
  BY <1>4 DEF Woken, HangUp, CacheOK, cacheVars
<1>5. ASSUME NEW c \in Callers, VendDone(c) \/ CheckDone(c) PROVE CacheOK'
  <2>1. pc[c] = "done" /\ call[c].id \in Ids
    BY <1>5, CallNames DEF VendDone, CheckDone
  <2>2. UNCHANGED <<secretPtr, registered, entries, held, flight, raced>>
    BY <1>5 DEF VendDone, CheckDone, cacheVars
  <2>3. failing' \subseteq Ids
    BY <1>5, <2>1 DEF VendDone, CheckDone, noteSucceeded, noteFailed, CacheOK
  <2> QED BY <2>2, <2>3 DEF CacheOK
<1>6. ASSUME NEW c \in Callers, Register(c) PROVE CacheOK'
  <2>1. call[c].id \in Ids BY <1>6, CallNames DEF Register
  <2>2. UNCHANGED <<secretPtr, held, flight>> BY <1>6 DEF Register
  <2>3. /\ registered' \subseteq Ids
        /\ entries' \in [Ids -> Entries \cup {None}]
        /\ failing' \subseteq Ids /\ raced' \subseteq Ids
    <3>1. CASE refused(c) BY <2>1, <3>1, RefusedType
    <3>2. CASE /\ registered' = registered \cup {call[c].id}
               /\ UNCHANGED <<entries, failing, raced>>
      BY <2>1, <3>2 DEF CacheOK
    <3>3. CASE registered' = registered \ {call[c].id} /\ forget(call[c].id)
      BY <2>1, <3>3, ForgetType DEF CacheOK
    <3> QED BY <1>6, <3>1, <3>2, <3>3 DEF Register
  <2> QED BY <2>2, <2>3 DEF CacheOK
<1>7. ASSUME NEW e \in Entries, FetchOK(e) \/ FetchFails(e) PROVE CacheOK'
  <2>1. PICK keys \in KeySet : fetched(e, keys)
    <3>1. NoKeys \in KeySet BY NoKeysType
    <3>2. \A n \in 0..3 : [ptr |-> flight[e], left |-> n, recent |-> TRUE] \in KeySet
      BY DEF CacheOK, KeySet
    <3> QED BY <1>7, <3>1, <3>2 DEF FetchOK, FetchFails
  <2> QED BY <2>1 DEF fetched, CacheOK
<1>8. ASSUME NEW e \in Entries, Age(e) PROVE CacheOK'
  <2>1. held[e] \in KeySet BY DEF CacheOK
  <2>2. PICK k \in KeySet : held' = [held EXCEPT ![e] = k]
    <3>1. ASSUME NEW r \in BOOLEAN, held[e].left > 0,
                 held' = [held EXCEPT ![e].left = @ - 1, ![e].recent = r]
          PROVE  \E k \in KeySet : held' = [held EXCEPT ![e] = k]
      <4> DEFINE n == held[e].left - 1
                 k == [held[e] EXCEPT !.left = n, !.recent = r]
      <4>1. n \in 0..3 BY <2>1, <3>1 DEF KeySet
      <4>2. held' = [held EXCEPT ![e] = k] BY <3>1 DEF CacheOK
      <4>3. k = [held[e] EXCEPT !.left = n, !.recent = r] OBVIOUS
      <4> HIDE DEF n, k
      <4>4. k \in KeySet BY <2>1, <4>1, <4>3 DEF KeySet
      <4> QED BY <4>2, <4>4
    <3>2. ASSUME held' = [held EXCEPT ![e].recent = FALSE]
          PROVE  \E k \in KeySet : held' = [held EXCEPT ![e] = k]
      <4> DEFINE k == [held[e] EXCEPT !.recent = FALSE]
      <4>1. held' = [held EXCEPT ![e] = k] BY <3>2 DEF CacheOK
      <4>2. k \in KeySet BY <2>1 DEF KeySet
      <4> QED BY <4>1, <4>2
    <3>3. held[e].recent \in BOOLEAN BY <2>1 DEF KeySet
    <3> QED BY <1>8, <3>1, <3>2, <3>3 DEF Age
  <2>4. UNCHANGED <<secretPtr, registered, entries, flight, failing, raced>>
    BY <1>8 DEF Age
  <2> QED BY <2>2, <2>4 DEF CacheOK
<1>9. ASSUME NEW id \in Ids, removeSandbox(id) PROVE CacheOK'
  BY <1>9, ForgetType DEF removeSandbox, CacheOK
<1>10. ASSUME NEW p \in Ptrs, Import(p) PROVE CacheOK'
  BY <1>10 DEF Import, CacheOK, cacheVars
<1>11. CASE UNCHANGED vars
  BY <1>11 DEF vars, cacheVars, CacheOK
<1> QED BY <1>1, <1>2, <1>3, <1>4, <1>5, <1>6, <1>7, <1>8, <1>9, <1>10, <1>11 DEF Next, Step

-----------------------------------------------------------------------------
(* What an unregistered sandbox has *)

(* A call that keeps its sandbox and its margin is the same registration or
   the same request to TracesInv. *)
LEMMA SameCalls ==
    ASSUME CacheOK, TracesInv, UNCHANGED <<registered, raced>>,
           \A c \in Callers : call'[c].id = call[c].id /\ call'[c].margin = call[c].margin,
           \A id \in Ids \ (registered \cup raced) :
              entries'[id] # None \/ id \in failing' =>
                 entries[id] # None \/ id \in failing \/ checking(id)
    PROVE  TracesInv'
<1>1. \A id \in Ids : checking(id) => checking(id)'
  BY DEF checking, vending
<1>2. \A c \in Callers : vending(c)' => call'[c].id \in registered' \cup raced'
  BY DEF TracesInv, vending
<1>3. \A id \in Ids \ (registered' \cup raced') :
         entries'[id] # None \/ id \in failing' => checking(id)'
  BY <1>1 DEF TracesInv
<1> QED BY <1>2, <1>3 DEF TracesInv

(* A call begins: a request is of a registered sandbox. *)
LEMMA BeginTraces ==
    ASSUME CacheOK, CallsOK, TracesInv, NEW c \in Callers, NEW id \in Ids,
           Vend(c, id) \/ addSandbox(c, id)
    PROVE  TracesInv'
<1>1. PICK m \in {ensureMargin, getMargin} :
        /\ m = getMargin => id \in registered
        /\ call' = [call EXCEPT ![c] = [NoCall EXCEPT !.id = id, !.ptr = secretPtr, !.margin = m]]
  BY DEF Vend, addSandbox, ensureMargin, getMargin
<1> DEFINE k == [NoCall EXCEPT !.id = id, !.ptr = secretPtr, !.margin = m]
<1>2. k.id = id /\ k.margin = m
  BY DEF NoCall
<1>3. UNCHANGED <<registered, entries, failing, raced>> /\ pc[c] = "idle"
  BY DEF Vend, addSandbox, cacheVars
<1>4. call[c].id = None
  BY <1>3, NoCallType DEF CallsOK, CallerOK
<1>5. call' = [call EXCEPT ![c] = k]
  BY <1>1
<1> HIDE DEF k
<1>6. call'[c] = k /\ \A d \in Callers \ {c} : call'[d] = call[d]
  BY <1>5 DEF CallsOK
<1>7. \A d \in Callers : vending(d)' => call'[d].id \in registered' \cup raced'
  BY <1>1, <1>2, <1>3, <1>6 DEF TracesInv, vending
<1>8. \A i \in Ids : checking(i) => checking(i)'
  BY <1>4, <1>6, VendAssumption DEF checking, vending
<1> QED BY <1>3, <1>7, <1>8 DEF TracesInv

(* A call returns whose sandbox has nothing that this call alone accounts for. *)
LEMMA ReturnTraces ==
    ASSUME CacheOK, CallsOK, TracesInv, NEW c \in Callers, return(c),
           \A d \in Callers : d # c /\ vending(d) => call[d].id \in registered' \cup raced',
           \A id \in Ids \ (registered' \cup raced') :
              /\ id \in registered \cup raced => entries'[id] = None /\ id \notin failing'
              /\ entries'[id] # None \/ id \in failing' =>
                    /\ entries[id] # None \/ id \in failing
                    /\ id # call[c].id \/ vending(c)
    PROVE  TracesInv'
<1>1. call'[c] = NoCall /\ \A d \in Callers \ {c} : call'[d] = call[d]
  BY DEF return, CallsOK
<1>2. NoCall.margin # getMargin
  BY NoCallType DEF getMargin
<1>3. \A d \in Callers : vending(d)' => call'[d].id \in registered' \cup raced'
  BY <1>1, <1>2 DEF vending
<1>4. \A id \in Ids : checking(id) /\ (id # call[c].id \/ vending(c)) => checking(id)'
  BY <1>1 DEF checking, vending
<1>5. ASSUME NEW id \in Ids \ (registered' \cup raced'), entries'[id] # None \/ id \in failing'
      PROVE  checking(id)'
  <2>1. id \notin registered \cup raced
    BY <1>5
  <2>2. (entries[id] # None \/ id \in failing) /\ (id # call[c].id \/ vending(c))
    BY <1>5
  <2>3. checking(id)
    BY <2>1, <2>2 DEF TracesInv
  <2> QED BY <1>4, <2>2, <2>3
<1> QED BY <1>3, <1>5 DEF TracesInv

(* What forget leaves of the sandboxes that are neither registered nor raced. *)
LEMMA ForgetTraces ==
    ASSUME CacheOK, TracesInv, NEW id \in Ids, forget(id)
    PROVE  /\ entries'[id] = None /\ id \notin failing'
           /\ \A i \in Ids \ {id} : /\ entries'[i] = entries[i]
                                    /\ (i \in failing' <=> i \in failing)
                                    /\ (i \in raced' <=> i \in raced)
           /\ \A c \in Callers : vending(c) /\ call[c].id = id => id \in raced'
  BY DEF forget, CacheOK

LEMMA RegisterTraces ==
    ASSUME CacheOK, CallsOK, TracesInv, NEW c \in Callers, Register(c)
    PROVE  TracesInv'
<1> DEFINE id == call[c].id
<1>1. id \in Ids /\ ~vending(c) /\ return(c)
  BY CallNames DEF Register, CallsOK, CallerOK, vending, ensureMargin, getMargin
<1>2. CASE forget(id) /\ registered' = registered \ {id}
  <2>1. /\ entries'[id] = None /\ id \notin failing'
        /\ \A i \in Ids \ {id} : /\ entries'[i] = entries[i]
                                 /\ (i \in failing' <=> i \in failing)
                                 /\ (i \in raced' <=> i \in raced)
        /\ \A d \in Callers : vending(d) /\ call[d].id = id => id \in raced'
    BY <1>1, <1>2, ForgetTraces
  <2>2. \A d \in Callers : d # c /\ vending(d) => call[d].id \in registered' \cup raced'
    <3> SUFFICES ASSUME NEW d \in Callers, vending(d)
                 PROVE  call[d].id \in registered' \cup raced'
      OBVIOUS
    <3>1. call[d].id \in Ids /\ call[d].id \in registered \cup raced
      BY DEF TracesInv, CacheOK
    <3> QED BY <1>2, <2>1, <3>1
  <2>3. \A i \in Ids \ (registered' \cup raced') :
           /\ i \in registered \cup raced => entries'[i] = None /\ i \notin failing'
           /\ entries'[i] # None \/ i \in failing' =>
                 /\ entries[i] # None \/ i \in failing
                 /\ i # id \/ vending(c)
    BY <1>1, <1>2, <2>1
  <2> HIDE DEF id
  <2> QED BY <1>1, <2>2, <2>3, ReturnTraces DEF id
<1>3. CASE id \in registered' /\ registered \subseteq registered' /\ UNCHANGED <<entries, failing, raced>>
           /\ registered' \subseteq registered \cup {id}
  <2>1. \A d \in Callers : d # c /\ vending(d) => call[d].id \in registered' \cup raced'
    BY <1>3 DEF TracesInv
  <2>2. \A i \in Ids \ (registered' \cup raced') :
           /\ i \in registered \cup raced => entries'[i] = None /\ i \notin failing'
           /\ entries'[i] # None \/ i \in failing' =>
                 /\ entries[i] # None \/ i \in failing
                 /\ i # id \/ vending(c)
    BY <1>1, <1>3
  <2> HIDE DEF id
  <2> QED BY <1>1, <2>1, <2>2, ReturnTraces DEF id
<1>4. CASE refused(c)
  <2>1. id \notin registered => registered \ {id} = registered
    OBVIOUS
  <2> QED BY <1>2, <1>3, <1>4, <2>1 DEF refused
<1> QED BY <1>2, <1>3, <1>4 DEF Register

LEMMA StepTraces ==
    ASSUME CacheOK, CallsOK, TracesInv, [Next]_vars
    PROVE  TracesInv'
<1>1. ASSUME NEW c \in Callers, NEW id \in Ids, Vend(c, id) \/ addSandbox(c, id)
      PROVE  TracesInv'
  BY <1>1, BeginTraces
<1>2. ASSUME NEW c \in Callers, FindEntry(c) PROVE TracesInv'
  <2>1. pc[c] = "get" /\ UNCHANGED <<registered, raced, failing>>
    BY <1>2 DEF FindEntry
  <2>2. PICK e \in Entries :
          /\ entries' = entries \/ entries' = [entries EXCEPT ![call[c].id] = e]
          /\ call' = [call EXCEPT ![c].e = e]
    BY <1>2 DEF FindEntry
  <2>3. \A d \in Callers : call'[d].id = call[d].id /\ call'[d].margin = call[d].margin
    BY <2>2 DEF CallsOK, CallSet
  <2>4. call[c].id \in Ids
    BY <2>1, CallNames
  <2>5. call[c].id \notin registered \cup raced => checking(call[c].id)
    BY DEF checking, TracesInv
  <2>6. \A id \in Ids \ (registered \cup raced) :
           entries'[id] # None \/ id \in failing' =>
              entries[id] # None \/ id \in failing \/ checking(id)
    BY <2>1, <2>2, <2>4, <2>5 DEF CacheOK
  <2> QED BY <2>1, <2>3, <2>6, SameCalls
<1>3. ASSUME NEW c \in Callers, Look(c) \/ Woken(c) \/ HangUp(c) PROVE TracesInv'
  <2>1. UNCHANGED <<registered, entries, failing, raced>>
    BY <1>3 DEF Look, Woken, HangUp, cacheVars
  <2>2. \A d \in Callers : call'[d].id = call[d].id /\ call'[d].margin = call[d].margin
    <3> HIDE DEF answer
    <3> QED BY <1>3 DEF Look, Woken, HangUp, CallsOK, CallSet
  <2> QED BY <2>1, <2>2, SameCalls
<1>4. ASSUME NEW c \in Callers, VendDone(c) PROVE TracesInv'
  <2>1. UNCHANGED <<registered, entries, raced>> /\ vending(c) /\ return(c)
    BY <1>4 DEF VendDone, cacheVars
  <2>2. failing' \subseteq failing \cup {call[c].id}
    BY <1>4 DEF VendDone, noteSucceeded, noteFailed
  <2>3. call[c].id \in registered \cup raced
    BY <2>1 DEF TracesInv
  <2>4. \A d \in Callers : d # c /\ vending(d) => call[d].id \in registered' \cup raced'
    BY <2>1 DEF TracesInv
  <2>5. \A id \in Ids \ (registered' \cup raced') :
              /\ id \in registered \cup raced => entries'[id] = None /\ id \notin failing'
              /\ entries'[id] # None \/ id \in failing' =>
                    /\ entries[id] # None \/ id \in failing
                    /\ id # call[c].id \/ vending(c)
    BY <2>1, <2>2, <2>3
  <2> QED BY <2>1, <2>4, <2>5, ReturnTraces
<1>5. ASSUME NEW c \in Callers, CheckDone(c) PROVE TracesInv'
  <2>1. UNCHANGED <<registered, entries, raced>> /\ ~vending(c)
    BY <1>5 DEF CheckDone, cacheVars
  <2>2. failing' \subseteq failing \cup {call[c].id}
    BY <1>5 DEF CheckDone, noteSucceeded, noteFailed
  <2>3. \A d \in Callers : call'[d].id = call[d].id /\ call'[d].margin = call[d].margin
    <3> HIDE DEF answer
    <3> QED BY <1>5 DEF CheckDone, CallsOK, CallSet
  <2>4. checking(call[c].id)
    BY <2>1 DEF checking
  <2>5. \A id \in Ids \ (registered \cup raced) :
           entries'[id] # None \/ id \in failing' =>
              entries[id] # None \/ id \in failing \/ checking(id)
    BY <2>1, <2>2, <2>4
  <2> QED BY <2>1, <2>3, <2>5, SameCalls
<1>6. ASSUME NEW c \in Callers, Register(c) PROVE TracesInv'
  BY <1>6, RegisterTraces
<1>7. ASSUME NEW e \in Entries, FetchOK(e) \/ FetchFails(e) PROVE TracesInv'
  <2>1. PICK keys : fetched(e, keys)
    BY <1>7 DEF FetchOK, FetchFails
  <2>2. UNCHANGED <<registered, entries, failing, raced>>
    BY <2>1 DEF fetched
  <2>3. \A d \in Callers : call'[d].id = call[d].id /\ call'[d].margin = call[d].margin
    <3> HIDE DEF answer
    <3> QED BY <2>1 DEF fetched, CallsOK, CallSet
  <2> QED BY <2>2, <2>3, SameCalls
<1>8. ASSUME NEW id \in Ids, removeSandbox(id) PROVE TracesInv'
  <2>1. /\ forget(id) /\ registered' = registered \ {id} /\ UNCHANGED call
    BY <1>8 DEF removeSandbox, callVars
  <2>2. /\ entries'[id] = None /\ id \notin failing'
        /\ \A i \in Ids \ {id} : /\ entries'[i] = entries[i]
                                 /\ (i \in failing' <=> i \in failing)
                                 /\ (i \in raced' <=> i \in raced)
        /\ \A d \in Callers : vending(d) /\ call[d].id = id => id \in raced'
    BY <2>1, ForgetTraces
  <2>3. ASSUME NEW d \in Callers, vending(d)'
        PROVE  call'[d].id \in registered' \cup raced'
    <3>1. vending(d) BY <2>1, <2>3 DEF vending
    <3>2. call[d].id \in Ids /\ call[d].id \in registered \cup raced
      BY <3>1 DEF TracesInv, CacheOK
    <3> QED BY <2>1, <2>2, <3>1, <3>2
  <2>4. \A i \in Ids : checking(i)' <=> checking(i)
    BY <2>1 DEF checking, vending
  <2>5. ASSUME NEW i \in Ids \ (registered' \cup raced'), entries'[i] # None \/ i \in failing'
        PROVE  checking(i)'
    <3>1. i # id /\ i \notin registered \cup raced /\ (entries[i] # None \/ i \in failing)
      BY <2>1, <2>2, <2>5
    <3> QED BY <2>4, <3>1 DEF TracesInv
  <2> QED BY <2>3, <2>5 DEF TracesInv
<1>9. CASE UNCHANGED <<registered, entries, failing, raced, call>>
  BY <1>9, SameCalls
<1>10. ASSUME NEW e \in Entries, Age(e) PROVE TracesInv'
  BY <1>9, <1>10 DEF Age, callVars
<1>11. ASSUME NEW p \in Ptrs, Import(p) PROVE TracesInv'
  BY <1>9, <1>11 DEF Import, callVars, cacheVars
<1>12. CASE UNCHANGED vars
  BY <1>9, <1>12 DEF vars, callVars, cacheVars
<1> QED BY <1>1, <1>2, <1>3, <1>4, <1>5, <1>6, <1>7, <1>8, <1>10, <1>11, <1>12 DEF Next, Step

-----------------------------------------------------------------------------

LEMMA InitInv == Init => IInv
<1> SUFFICES ASSUME Init PROVE IInv
  OBVIOUS
<1>1. NoKeys \in KeySet BY NoKeysType
<1>2. NoCall \in CallSet /\ NoCall.margin = 0 BY NoCallType
<1>3. CacheOK
  <2> HIDE DEF NoKeys
  <2> QED BY <1>1 DEF Init, CacheOK
<1>4. CallsOK
  BY <1>2 DEF Init, CallsOK, CallerOK, Labels
<1>5. TracesInv
  BY <1>2 DEF Init, TracesInv, vending, getMargin
<1> QED BY <1>3, <1>4, <1>5 DEF IInv

LEMMA Inductive == Spec => []IInv
<1>1. IInv /\ [Next]_vars => IInv'
  BY StepCache, StepCalls, StepTraces DEF IInv
<1> QED BY <1>1, InitInv, PTL DEF Spec

(* Every caller of the cache (Cache.get, for a request and for a registration)
   that is answered with keys is answered with keys of the pointer it read,
   and those the entry already held (entry.servable) have not expired, for any
   number of sandboxes, pointers, callers and entry objects. *)
THEOREM AnswersOwnPointer == Spec => []AnswersPointer
<1>1. IInv => AnswersPointer
  BY DEF IInv, CallsOK, CallerOK, answersFor, heldIsLive, AnswersPointer, succeeded
<1> QED BY <1>1, Inductive, PTL

(* A sandbox that is not registered leaves neither a cache entry nor a failure
   (forget, addSandbox's refusals, removeSandbox) once its calls have returned,
   unless it was forgotten under a request of its own. *)
THEOREM NothingLeft == Spec => []LeavesNothing
<1>1. IInv => LeavesNothing
  BY DEF IInv, TracesInv, LeavesNothing, quiet, checking
<1> QED BY <1>1, Inductive, PTL
=============================================================================
