----------------------------- MODULE DnsAnswer -----------------------------
(***************************************************************************)
(* DNS messages as the egress resolver reads them (internal/egress dns.go  *)
(* and Resolver.Answer): which queries are forwarded, what the upstream    *)
(* resolver reads in the bytes that are forwarded, and which addresses an  *)
(* answer gives a diverted host through its chain of aliases.              *)
(*                                                                         *)
(* A name in a query is written in one of four ways: in plain labels, in a *)
(* label that holds a dot, as a compression pointer into the two bytes of  *)
(* the message ID, or too long.                                            *)
(***************************************************************************)
EXTENDS Naturals, Sequences, FiniteSets

CONSTANTS
    HostNames,  \* names in an answer; "d" is the diverted host
    MaxRecords  \* bound: the records of an answer section
ASSUME DnsAssumption == "d" \in HostNames /\ "none" \notin HostNames /\ MaxRecords \in Nat

VARIABLE dns  \* what was tried last: a query or an answer

NameWritings == {"plain", "dot", "pointer", "long"}
QueryMsg == [whole : BOOLEAN, response : BOOLEAN, opcode : {0, 1}, questions : {1, 2},
             name : NameWritings, tail : {"clean", "records", "bytes"}, type : {"A", "AAAA"}]

\* Changed form of nameOK: the structure of the name alone is looked at.
nameOKLoose(w) == w # "long"

\* readName and nameLabels of a question: plain labels of hostname bytes, no
\* compression, not too long.
nameOK(w) == w = "plain"

\* parseQuery with checkQueryTail: the header, one question, its name, and nothing
\* after it that is not an additional record.
parseQuery(m) ==
    IF ~m.whole THEN "short"
    ELSE IF m.response THEN "response"
    ELSE IF m.opcode # 0 THEN "opcode"
    ELSE IF m.questions # 1 \/ ~nameOK(m.name) \/ m.tail # "clean" THEN "malformed"
    ELSE "ok"

\* The name that a reader of the bytes finds: the policy reads them under the
\* guest's ID, the upstream under a random one.
NameRead(m, id) ==
    IF m.name = "pointer" THEN id ELSE IF m.name = "dot" THEN "one label" ELSE "name"
NameJudged(m) == IF m.name = "pointer" THEN "guest" ELSE "name"

\* Resolver.Answer up to the forward: no answer, an error, a record of the
\* resolver's own, a refusal, an empty answer to a type it does not forward.
Answer(m, local, allowed) ==
    LET e == parseQuery(m) IN
    IF e \in {"short", "response"} THEN "nothing"
    ELSE IF e = "opcode" THEN "NotImp"
    ELSE IF e = "malformed" THEN "FormErr"
    ELSE IF local THEN "local"
    ELSE IF ~allowed THEN "Refused"
    ELSE IF m.type # "A" THEN "empty"
    ELSE "forward"

\* inspectAnswer: the response is to this very question; its additional records
\* but the OPT record do not reach the guest.
RespMsg == [whole : BOOLEAN, id : BOOLEAN, response : BOOLEAN, questions : {1, 2},
            same : BOOLEAN, records : BOOLEAN]
inspectAnswer(r) ==
    IF r.whole /\ r.id /\ r.response /\ r.questions = 1 /\ r.same /\ r.records
    THEN "answer" ELSE "ServFail"

\* One pass over the records: the target of each alias that belongs to a name
\* that was reached.
Alias(names, r) == IF r.owner \in names /\ r.target # "none" THEN names \cup {r.target} ELSE names
Pass(names, records) ==
    LET after[n \in 0..Len(records)] == IF n = 0 THEN names ELSE Alias(after[n - 1], records[n])
    IN  after[Len(records)]

\* Changed form of chain: one pass.
chainOnce(records) == Pass({"d"}, records)

\* chainAddrs: as many passes as the section has records.
chain(records) ==
    LET reached[n \in 0..Len(records)] == IF n = 0 THEN {"d"} ELSE Pass(reached[n - 1], records)
    IN  reached[Len(records)]

chainAddrs(records) ==
    {records[i].addr : i \in {j \in 1..Len(records) :
        records[j].target = "none" /\ records[j].owner \in chain(records)}}

\* Records of an answer section: an alias, or an address named by its owner.
AliasOrAddr ==
    {[owner |-> o, target |-> t, addr |-> "none"] : o \in HostNames, t \in HostNames}
      \cup {[owner |-> o, target |-> "none", addr |-> o] : o \in HostNames}

DnsInit == dns = <<>>

DnsTry ==
    /\ dns = <<>>
    /\ \/ \E m \in QueryMsg, local, allowed \in BOOLEAN :
            dns' = <<"query", m, Answer(m, local, allowed)>>
       \/ \E r \in RespMsg : dns' = <<"response", r, inspectAnswer(r)>>
       \/ \E k \in 1..MaxRecords : \E s \in [1..k -> AliasOrAddr] :
            dns' = <<"chain", s, chainAddrs(s)>>

-----------------------------------------------------------------------------
\* The names that an answer makes the diverted host stand for.
UnderAliases(S, records) == \A i \in 1..Len(records) :
    records[i].owner \in S /\ records[i].target # "none" => records[i].target \in S
HostsOf(records) == {n \in HostNames : \A S \in SUBSET HostNames : "d" \in S /\ UnderAliases(S, records) => n \in S}

\* The resolver judges what the upstream is asked: the name in a forwarded
\* query reads the same under the ID that replaces the guest's, and no byte
\* goes with it that was not read (dns.go:66-118, 160-190).  And the addresses
\* of a diverted host are all that its aliases lead to, in whatever order the
\* section lists them (dns.go:350-410).
ResolverJudges ==
    dns # <<>> =>
        /\ dns[1] = "query" /\ dns[3] = "forward" =>
             /\ \A id \in {"guest", "fresh"} : NameRead(dns[2], id) = NameJudged(dns[2])
             /\ dns[2].tail = "clean"
        /\ dns[1] = "chain" =>
             dns[3] = HostsOf(dns[2]) \cap
                        {dns[2][i].addr : i \in {j \in 1..Len(dns[2]) : dns[2][j].target = "none"}}
=============================================================================
