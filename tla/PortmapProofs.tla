--------------------------- MODULE PortmapProofs ---------------------------
(***************************************************************************)
(* Proofs about Portmap for every set of gateways, every set of --type     *)
(* values and every bound on the attempts: the slot for a background       *)
(* attempt is taken exactly while one runs, the mapping held is the last   *)
(* located gateway's, and no granted mapping is left unaccounted for.      *)
(*                                                                         *)
(* The argument rests on the slot: only one attempt runs at a time, so     *)
(* nothing but that attempt (and close) touches what the client knows of   *)
(* its gateway between the request and the grant.                          *)
(***************************************************************************)
EXTENDS Portmap, FiniteSetTheorems, NaturalsInduction, WellFoundedInduction, TLAPS

Busy == {"spawned", "entered", "located", "asked", "failed", "stored"}
Fresh == {"unspawned", "spawned", "entered", "located"}
Early == {"start", "probing", "answering", "asking"}

Preferred(s) == IF prefer_pcp(s) THEN "pcp" ELSE "pmp"

(* At most one attempt runs, and one does exactly when the slot is taken.  *)
Slot ==
  /\ ~st.running_create => \A n \in Attempts : att[n].pc \notin Busy
  /\ st.running_create => \E n \in Attempts : att[n].pc \in Busy
  /\ \A m, n \in Attempts : att[m].pc \in Busy /\ att[n].pc \in Busy => m = n

(* Before the run asks there is no attempt and no mapping.                 *)
Untouched ==
  run.pc \in Early =>
    /\ st.mapping = NoMapping
    /\ \A n \in Attempts : att[n].pc = "unspawned"

(* An attempt that has located a gateway located the client's last one;    *)
(* one that has asked used the protocol the client prefers, unless the     *)
(* client has since been closed; none has an answer before it asks.        *)
Asking ==
  \A n \in Attempts :
    /\ att[n].pc \in {"located", "asked"} => att[n].gw \in Gateways /\ att[n].gw = st.last_gw
    /\ att[n].pc = "asked" => att[n].kind \in Kinds /\ ~att[n].took
    /\ att[n].pc = "asked" /\ ~st.closed => att[n].kind = Preferred(st)
    /\ att[n].pc \in Fresh => ~att[n].port
    /\ att[n].took => att[n].port

(* What the client holds is from its last gateway, by the protocol it      *)
(* prefers.                                                                *)
Holding ==
  st.mapping # NoMapping =>
    st.mapping.gw = st.last_gw /\ st.mapping.kind = Preferred(st)

(* A datagram of an attempt and a mapping it was granted carry the gateway *)
(* and protocol the attempt asked with.                                    *)
Signed(d) ==
  att[d.n].pc \notin Fresh /\ d.gw = att[d.n].gw /\ d.kind = att[d.n].kind

Sent == \A d \in net : d.op # "release" => Signed(d)
Issued == \A g \in grants : Signed(g)

(* A request is granted at most once: while it or its grant is under way   *)
(* the attempt has no port, and the two are never under way together.      *)
Once ==
  /\ \A d \in net : d.op \in {"map", "granted"} => ~att[d.n].port
  /\ \A d, e \in net : d.op = "map" /\ e.op = "granted" => d.n # e.n

GrantUnderWay(n) == att[n].port \/ \E d \in net : d.op = "granted" /\ d.n = n

(* The gateway gives a PCP mapping to one nonce at a time: once the        *)
(* running attempt has been granted one there, no mapping an earlier       *)
(* attempt took is left.                                                   *)
Alone ==
  \A n \in Attempts : att[n].pc = "asked" /\ att[n].kind = "pcp" /\ GrantUnderWay(n) =>
    \A g \in grants : att[g.n].took => ~(g.kind = "pcp" /\ g.gw = att[n].gw)

PortmapInv ==
  /\ TypeOK
  /\ Slot
  /\ Untouched
  /\ Asking
  /\ Holding
  /\ Sent
  /\ Issued
  /\ Once
  /\ Alone
  /\ GrantsAreAccounted

----------------------------------------------------------------------------
(* The operators of the model.                                             *)

(* A nonempty set of attempts has a first one.                             *)
LEMMA FirstExists ==
  ASSUME NEW S, S \subseteq Nat, S # {}
  PROVE  \E n \in S : \A m \in S : n <= m
<1>1. PICK n \in S : \A m \in S : <<m, n>> \notin OpToRel(<, Nat)
  BY WFMin, NatLessThanWellFounded
<1>2. \A m \in S : ~(m < n)
  BY <1>1 DEF OpToRel
<1> QED
  BY <1>2

(* The number of the attempt that is started next is one not yet used.     *)
LEMMA NextIsUnspawned ==
  ASSUME Unspawned # {}
  PROVE  NextAttempt \in Attempts /\ att[NextAttempt].pc = "unspawned"
<1>1. Unspawned \subseteq Nat
  BY PortmapAssumption DEF Unspawned, Attempts
<1>2. \E n \in Unspawned : \A m \in Unspawned : n <= m
  BY <1>1, FirstExists
<1>3. NextAttempt \in Unspawned
  BY <1>2 DEF NextAttempt
<1> QED
  BY <1>3 DEF Unspawned

Clients ==
  [closed : BOOLEAN, running_create : BOOLEAN, hook : BOOLEAN,
   last_gw : Gateways \union {NoGateway}, last_probe : {"never", "recent", "old"},
   pmp : BOOLEAN, pcp : BOOLEAN, mapping : Mapping \union {NoMapping}]

Datagrams ==
  [op : {"map", "address?", "granted", "address", "refused", "release"},
   n : Attempts, gw : Gateways, kind : Kinds]

(* What a locate does to the client: its last gateway is the one found,    *)
(* and it keeps what it knows only when that is the one it knew.           *)
LEMMA Locating ==
  ASSUME st \in Clients, lookup \in Gateways \union {NoGateway}, NEW t, t = gateway_and_self_ip(st)
  PROVE  /\ t \in Clients
         /\ t.last_gw = lookup
         /\ t.closed = st.closed /\ t.running_create = st.running_create
         /\ \/ t = st
            \/ t.mapping = NoMapping
  BY DEF gateway_and_self_ip, moved, invalidate_mappings, Clients

(* A release is a datagram for the mapping it is about.                    *)
LEMMA Releasing ==
  ASSUME NEW m \in Mapping \union {NoMapping}
  PROVE  /\ release_mapping(m) \subseteq Datagrams
         /\ \A d \in release_mapping(m) : d.op = "release"
         /\ m # NoMapping => \E d \in release_mapping(m) :
              d.gw = m.gw /\ d.kind = m.kind /\ d.n = m.n
<1>1. CASE m = NoMapping
  BY <1>1 DEF release_mapping
<1>2. CASE m # NoMapping
  <2>1. m \in Mapping
    BY <1>2
  <2>2. datagram("release", m) \in Datagrams
    BY <2>1 DEF datagram, Datagrams, Mapping
  <2>3. release_mapping(m) = {datagram("release", m)}
    BY <1>2 DEF release_mapping
  <2> QED
    BY <2>2, <2>3 DEF datagram
<1> QED
  BY <1>1, <1>2

----------------------------------------------------------------------------
(* Types.                                                                  *)

Conns == [pump : BOOLEAN, gone : BOOLEAN, lines : BOOLEAN]
Runs == [pc : {"start", "probing", "answering", "asking", "waiting", "closing",
               "dropping_hook", "over"}, ty : Types, done : BOOLEAN]
Attempt == [pc : Pcs, gw : Gateways \union {NoGateway}, kind : Kinds \union {"none"},
            address : BOOLEAN, port : BOOLEAN, took : BOOLEAN]
Grants == [n : Attempts, gw : Gateways, kind : Kinds]

LEMMA Typed ==
  TypeOK <=> /\ run \in Runs /\ conn \in Conns /\ st \in Clients
             /\ att \in [Attempts -> Attempt] /\ lookup \in Gateways \union {NoGateway}
             /\ grants \subseteq Grants /\ net \subseteq Datagrams
  BY DEF TypeOK, Runs, Conns, Clients, Attempt, Grants, Datagrams

LEMMA TypedNext ==
  ASSUME run' \in Runs, conn' \in Conns, st' \in Clients, att' \in [Attempts -> Attempt],
         lookup' \in Gateways \union {NoGateway}, grants' \subseteq Grants,
         net' \subseteq Datagrams
  PROVE  TypeOK'
  BY DEF TypeOK, Runs, Conns, Clients, Attempt, Grants, Datagrams

LEMMA FieldsTyped ==
  ASSUME NEW a \in [Attempts -> Attempt], NEW n \in Attempts
  PROVE  /\ \A x \in Pcs : [a EXCEPT ![n].pc = x] \in [Attempts -> Attempt]
         /\ \A x \in Gateways \union {NoGateway} : [a EXCEPT ![n].gw = x] \in [Attempts -> Attempt]
         /\ \A x \in BOOLEAN : [a EXCEPT ![n].address = x] \in [Attempts -> Attempt]
         /\ \A x \in BOOLEAN : [a EXCEPT ![n].port = x] \in [Attempts -> Attempt]
         /\ \A x \in BOOLEAN : [a EXCEPT ![n].took = x] \in [Attempts -> Attempt]
<1> a[n] \in Attempt
  OBVIOUS
<1> QED
  BY DEF Attempt

LEMMA InitTyped == Init => TypeOK
<1> SUFFICES ASSUME Init PROVE TypeOK
  OBVIOUS
<1>1. run \in Runs /\ conn \in Conns /\ grants \subseteq Grants /\ net \subseteq Datagrams
  BY DEF Init, Runs, Conns
<1>2. st \in Clients
  BY DEF Init, Clients
<1>3. att \in [Attempts -> Attempt]
  BY DEF Init, Idle, Attempt, Pcs
<1> QED
  BY <1>1, <1>2, <1>3, Typed DEF Init

LEMMA RunTyped ==
  ASSUME PortmapInv, RunStep
  PROVE  TypeOK'
<1> USE DEF Runs, Conns, Logs
<1>0. /\ run \in Runs /\ conn \in Conns /\ st \in Clients
      /\ att \in [Attempts -> Attempt] /\ lookup \in Gateways \union {NoGateway}
      /\ grants \subseteq Grants /\ net \subseteq Datagrams
  BY Typed DEF PortmapInv
<1>m. st.mapping \in Mapping \union {NoMapping}
  BY <1>0 DEF Clients
<1>r. release_mapping(st.mapping) \subseteq Datagrams
  BY <1>m, Releasing
<1>1. CASE RunStart
  BY <1>0, <1>1, TypedNext DEF RunStart, Clients
<1>2. CASE ProbeSends
  <2>1. st' \in Clients
    BY <1>0, <1>2, Locating DEF ProbeSends
  <2>2. net' \subseteq Datagrams
    BY <1>0, <1>2, <1>r DEF ProbeSends, moved_release
  <2>3. run' \in Runs /\ conn' \in Conns /\ UNCHANGED <<att, lookup, grants>>
    BY <1>0, <1>2 DEF ProbeSends
  <2> QED
    BY <1>0, <2>1, <2>2, <2>3, TypedNext
<1>3. CASE ProbeEnds
  <2>1. PICK pmp \in BOOLEAN, pcp \in BOOLEAN, seen \in {st.last_probe, "recent"} :
          st' = [st EXCEPT !.pmp = pmp, !.pcp = pcp, !.last_probe = seen]
    BY <1>3 DEF ProbeEnds
  <2>4. st' \in Clients
    BY <1>0, <2>1 DEF Clients
  <2>2. run' \in Runs
    BY <1>0, <1>3 DEF ProbeEnds
  <2>3. conn' \in Conns /\ UNCHANGED <<att, lookup, grants, net>>
    BY <1>0, <1>3 DEF ProbeEnds
  <2> QED
    BY <1>0, <2>2, <2>3, <2>4, TypedNext
<1>4. CASE RunAsks
  <2>1. st' \in Clients
    BY <1>0, <1>4 DEF RunAsks, Clients
  <2>2. att' \in [Attempts -> Attempt]
    BY <1>0, <1>4 DEF RunAsks, Attempt, Pcs
  <2>3. run' \in Runs /\ conn' \in Conns /\ UNCHANGED <<lookup, grants, net>>
    BY <1>0, <1>4 DEF RunAsks
  <2> QED
    BY <1>0, <2>1, <2>2, <2>3, TypedNext
<1>5. CASE RunHearsDone \/ RunDeadline \/ RunAborted
  BY <1>0, <1>5, TypedNext DEF RunHearsDone, RunDeadline, RunAborted
<1>6. CASE CloseState
  BY <1>0, <1>6, <1>r, TypedNext DEF CloseState, close, invalidate_mappings, Clients
<1>7. CASE CloseHook
  BY <1>0, <1>7, TypedNext DEF CloseHook, Clients
<1> QED
  BY <1>1, <1>2, <1>3, <1>4, <1>5, <1>6, <1>7 DEF RunStep


LEMMA EnvironmentTyped ==
  ASSUME PortmapInv, PumpStep \/ Environment
  PROVE  TypeOK'
<1>0. /\ run \in Runs /\ conn \in Conns /\ st \in Clients
      /\ att \in [Attempts -> Attempt] /\ lookup \in Gateways \union {NoGateway}
      /\ grants \subseteq Grants /\ net \subseteq Datagrams
  BY Typed DEF PortmapInv
<1>1. CASE PumpStep \/ HangsUp
  BY <1>0, <1>1, TypedNext DEF PumpStep, PumpForwards, PumpEnds, HangsUp, Conns
<1>2. CASE GatewayMaps \/ GatewayTells
  <2>1. PICK d \in net :
          /\ net' \in {(net \ {d}) \union {answer(op, d)} : op \in {"refused", "granted", "address"}}
          /\ grants' \subseteq grants \union {grant(d)}
    BY <1>2 DEF GatewayMaps, GatewayTells
  <2>2. d \in Datagrams
    BY <1>0
  <2>3. \A op \in {"refused", "granted", "address"} : answer(op, d) \in Datagrams
    BY <2>2 DEF answer, Datagrams
  <2>4. grant(d) \in Grants
    BY <2>2 DEF grant, Grants, Datagrams
  <2>5. net' \subseteq Datagrams /\ grants' \subseteq Grants
    BY <1>0, <2>1, <2>3, <2>4
  <2>6. UNCHANGED <<run, conn, st, att, lookup>>
    BY <1>2 DEF GatewayMaps, GatewayTells
  <2> QED
    BY <1>0, <2>5, <2>6, TypedNext
<1>3. CASE GatewayReleases \/ GatewayForgets \/ NetworkMoves
  BY <1>0, <1>3, TypedNext DEF GatewayReleases, GatewayForgets, NetworkMoves
<1>4. CASE TimePasses
  <2>1. st.mapping.age \in {"fresh", "renew"} => st.mapping \in Mapping
    BY <1>0 DEF Clients, NoMapping
  <2>2. st.mapping \in Mapping =>
          /\ [st.mapping EXCEPT !.age = "renew"] \in Mapping
          /\ [st.mapping EXCEPT !.age = "expired"] \in Mapping
    BY DEF Mapping
  <2>3. st' \in Clients
    BY <1>0, <1>4, <2>1, <2>2 DEF TimePasses, Clients
  <2>4. UNCHANGED <<run, conn, att, lookup, grants, net>>
    BY <1>4 DEF TimePasses
  <2> QED
    BY <1>0, <2>3, <2>4, TypedNext
<1> QED
  BY <1>1, <1>2, <1>3, <1>4 DEF Environment

Half(n, address, port) == [att EXCEPT ![n].address = address, ![n].port = port]

Whole(n, address, port, x) ==
  [att EXCEPT ![n].address = address, ![n].port = port, ![n].took = TRUE, ![n].pc = x]

(* The three ways an answer is taken: a refusal, half of a grant, a whole  *)
(* one.                                                                    *)
LEMMA Receiving ==
  ASSUME NEW n \in Attempts, AttemptReceives(n)
  PROVE  \E d \in net, address \in BOOLEAN, port \in BOOLEAN :
           /\ att[n].pc = "asked" /\ d.n = n /\ d.op \in {"granted", "address", "refused"}
           /\ port <=> (att[n].port \/ d.op = "granted")
           /\ UNCHANGED <<run, lookup, grants>>
           /\ \/ /\ att' = [att EXCEPT ![n].pc = "failed"]
                 /\ net' = net \ {d} /\ UNCHANGED st
              \/ /\ att' = Half(n, address, port)
                 /\ net' = net \ {d} /\ UNCHANGED st
              \/ /\ port
                 /\ \E x \in {"failed", "stored"} :
                      att' = Whole(n, address, port, x)
                 /\ st' = stored(st, mapping_of(n))
                 /\ net' = (net \ {d}) \union stored_release(st, mapping_of(n))
<1>1. PICK d \in net : AttemptReceives(n)!(d)
  BY DEF AttemptReceives
<1> DEFINE address == att[n].address \/ d.op = "address"
           port == att[n].port \/ d.op = "granted"
           whole == port /\ (address \/ att[n].kind = "pcp")
<1>2. address \in BOOLEAN /\ port \in BOOLEAN
  OBVIOUS
<1>3. /\ att[n].pc = "asked" /\ d.n = n /\ d.op \in {"granted", "address", "refused"}
      /\ UNCHANGED <<run, lookup, grants>>
  BY <1>1
<1>4. CASE d.op = "refused"
  BY <1>1, <1>2, <1>3, <1>4
<1>5. CASE d.op # "refused" /\ ~whole
  <2>1. /\ att' = Half(n, address, port)
        /\ net' = net \ {d} /\ UNCHANGED st
    BY <1>1, <1>5 DEF Half
  <2> QED
    BY <1>2, <1>3, <2>1
<1>6. CASE d.op # "refused" /\ whole
  <2>1. /\ att' = Whole(n, address, port, IF st.closed THEN "failed" ELSE "stored")
        /\ st' = stored(st, mapping_of(n))
        /\ net' = (net \ {d}) \union stored_release(st, mapping_of(n))
    BY <1>1, <1>6 DEF Whole
  <2> QED
    BY <1>2, <1>3, <1>6, <2>1
<1> QED
  BY <1>4, <1>5, <1>6

LEMMA AttemptTyped ==
  ASSUME PortmapInv, NEW n \in Attempts, AttemptStep(n)
  PROVE  TypeOK'
<1> USE DEF Logs
<1>0. /\ run \in Runs /\ conn \in Conns /\ st \in Clients
      /\ att \in [Attempts -> Attempt] /\ lookup \in Gateways \union {NoGateway}
      /\ grants \subseteq Grants /\ net \subseteq Datagrams
  BY Typed DEF PortmapInv
<1>l. conn' \in Conns
  BY <1>0 DEF AttemptStep, AttemptEnters, AttemptLocates, AttemptAsks, AttemptTimesOut,
       AttemptReceives, AttemptReturns, TakesHook, CallsHook, Conns
<1>1. CASE AttemptEnters(n) \/ AttemptTimesOut(n) \/ TakesHook(n)
  BY <1>0, <1>1, <1>l, TypedNext DEF AttemptEnters, AttemptTimesOut, TakesHook, Attempt, Pcs
<1>2. CASE AttemptLocates(n)
  <2>1. st' \in Clients
    BY <1>0, <1>2, Locating DEF AttemptLocates
  <2>2. st.mapping \in Mapping \union {NoMapping}
    BY <1>0 DEF Clients
  <2>3. net' \subseteq Datagrams
    BY <1>0, <1>2, <2>2, Releasing DEF AttemptLocates, moved_release
  <2> DEFINE a == [att EXCEPT ![n].pc = IF lookup = NoGateway THEN "failed" ELSE "located"]
  <2>6. a \in [Attempts -> Attempt]
    BY <1>0, FieldsTyped DEF Pcs
  <2>7. att' = [a EXCEPT ![n].gw = lookup]
    BY <1>2 DEF AttemptLocates
  <2>4. att' \in [Attempts -> Attempt]
    BY <1>0, <2>6, <2>7, FieldsTyped
  <2>5. UNCHANGED <<run, lookup, grants>>
    BY <1>2 DEF AttemptLocates
  <2> QED
    BY <1>0, <1>l, <2>1, <2>3, <2>4, <2>5, TypedNext
<1>3. CASE AttemptAsks(n)
  <2>1. att' \in [Attempts -> Attempt]
    BY <1>0, <1>3 DEF AttemptAsks, Attempt, Pcs, Kinds, Clients
  <2>2. att[n].gw \in Gateways
    BY <1>3 DEF AttemptAsks, PortmapInv, Asking
  <2>3. \A m, known : m.n = n /\ m.gw = att[n].gw /\ m.kind \in Kinds => requests(m, known) \subseteq Datagrams
    BY <2>2 DEF requests, datagram, Datagrams
  <2>4. net' \subseteq Datagrams
    BY <1>0, <1>3, <2>3 DEF AttemptAsks, Kinds
  <2>5. UNCHANGED <<run, st, lookup, grants>>
    BY <1>3 DEF AttemptAsks
  <2> QED
    BY <1>0, <1>l, <2>1, <2>4, <2>5, TypedNext
<1>4. CASE AttemptReceives(n)
  <2>1. att[n].pc = "asked"
    BY <1>4 DEF AttemptReceives
  <2>2. mapping_of(n) \in Mapping
    BY <2>1 DEF PortmapInv, Asking, mapping_of, Mapping
  <2>3. st' \in Clients
    BY <1>0, <1>4, <2>2 DEF AttemptReceives, stored, Clients
  <2>4. net' \subseteq Datagrams
    BY <1>0, <1>4, <2>2, Releasing DEF AttemptReceives, stored_release
  <2>5. att' \in [Attempts -> Attempt]
    <3>1. \A a, p \in BOOLEAN : Half(n, a, p) \in [Attempts -> Attempt]
      BY <1>0, FieldsTyped DEF Half
    <3>2. \A a, p \in BOOLEAN, x \in {"failed", "stored"} : Whole(n, a, p, x) \in [Attempts -> Attempt]
      <4> SUFFICES ASSUME NEW a \in BOOLEAN, NEW p \in BOOLEAN, NEW x \in {"failed", "stored"}
                   PROVE  Whole(n, a, p, x) \in [Attempts -> Attempt]
        OBVIOUS
      <4> DEFINE h == Half(n, a, p)
                 t == [h EXCEPT ![n].took = TRUE]
      <4>1. t \in [Attempts -> Attempt]
        BY <3>1, FieldsTyped
      <4>2. [t EXCEPT ![n].pc = x] \in [Attempts -> Attempt]
        BY <4>1, FieldsTyped DEF Pcs
      <4> QED
        BY <4>2 DEF Whole, Half
    <3>3. [att EXCEPT ![n].pc = "failed"] \in [Attempts -> Attempt]
      BY <1>0, FieldsTyped DEF Pcs
    <3> QED
      BY <1>4, <3>1, <3>2, <3>3, Receiving
  <2>6. UNCHANGED <<run, lookup, grants>>
    BY <1>4 DEF AttemptReceives
  <2> QED
    BY <1>0, <1>l, <2>3, <2>4, <2>5, <2>6, TypedNext
<1>5. CASE AttemptReturns(n)
  <2>1. st' \in Clients
    BY <1>0, <1>5 DEF AttemptReturns, Clients
  <2>2. att' \in [Attempts -> Attempt]
    BY <1>0, <1>5, FieldsTyped DEF AttemptReturns, Pcs
  <2>3. UNCHANGED <<run, lookup, grants, net>>
    BY <1>5 DEF AttemptReturns
  <2> QED
    BY <1>0, <1>l, <2>1, <2>2, <2>3, TypedNext
<1>6. CASE CallsHook(n)
  <2>1. st' \in Clients
    BY <1>0, <1>6 DEF CallsHook, Clients
  <2>2. att' \in [Attempts -> Attempt]
    BY <1>0, <1>6 DEF CallsHook, Attempt, Pcs
  <2>3. run' \in Runs /\ UNCHANGED <<lookup, grants, net>>
    BY <1>0, <1>6 DEF CallsHook, Runs
  <2> QED
    BY <1>0, <1>l, <2>1, <2>2, <2>3, TypedNext
<1> QED
  BY <1>1, <1>2, <1>3, <1>4, <1>5, <1>6 DEF AttemptStep

----------------------------------------------------------------------------
(* The invariant.                                                          *)

LEMMA InitInv == Init => PortmapInv
<1> SUFFICES ASSUME Init PROVE PortmapInv
  OBVIOUS
<1>1. TypeOK
  BY InitTyped
<1>2. Slot /\ Untouched /\ Asking /\ Holding
  BY DEF Init, Idle, Slot, Busy, Untouched, Asking, Fresh, Holding
<1>3. Sent /\ Issued /\ Once /\ Alone /\ GrantsAreAccounted
  BY DEF Init, Idle, Sent, Issued, Once, Alone, GrantsAreAccounted
<1> QED
  BY <1>1, <1>2, <1>3 DEF PortmapInv

(* A step that leaves the attempts, the network and the gateways alone,    *)
(* and of the client at most what a probe finds or the age of its lease.   *)
LEMMA QuietStep ==
  ASSUME PortmapInv, TypeOK', UNCHANGED <<att, net, grants>>,
         run'.ty = run.ty, run'.pc \in Early => run.pc \in Early,
         st'.closed = st.closed, st'.running_create = st.running_create,
         st'.last_gw = st.last_gw,
         st'.mapping = st.mapping \/ st.mapping # NoMapping,
         st'.mapping.n = st.mapping.n, st'.mapping.gw = st.mapping.gw,
         st'.mapping.kind = st.mapping.kind,
         (st'.pmp = st.pmp /\ st'.pcp = st.pcp) \/ run.pc = "answering"
  PROVE  PortmapInv'
<1>1. Slot' /\ Sent' /\ Issued' /\ Once'
  BY DEF PortmapInv, Slot, Sent, Issued, Signed, Once
<1>2. Alone'
  BY DEF PortmapInv, Alone, GrantUnderWay
<1>3. GrantsAreAccounted'
  BY DEF PortmapInv, GrantsAreAccounted, covers
<1>4. Untouched'
  BY DEF PortmapInv, Untouched
<1>5. CASE st'.pmp = st.pmp /\ st'.pcp = st.pcp
  <2>1. Preferred(st)' = Preferred(st)
    BY <1>5 DEF Preferred, prefer_pcp, disable_pcp, disable_pmp
  <2>2. Asking' /\ Holding'
    BY <2>1 DEF PortmapInv, Asking, Holding
  <2> QED
    BY <1>1, <1>2, <1>3, <1>4, <2>2 DEF PortmapInv
<1>6. CASE run.pc = "answering"
  <2>1. st.mapping = NoMapping /\ \A n \in Attempts : att[n].pc = "unspawned"
    BY <1>6 DEF PortmapInv, Untouched, Early
  <2>2. Asking' /\ Holding'
    BY <2>1 DEF PortmapInv, Asking, Holding
  <2> QED
    BY <1>1, <1>2, <1>3, <1>4, <2>2 DEF PortmapInv
<1> QED
  BY <1>5, <1>6

(* Letting go of the mapping the client holds, with a release of it: what  *)
(* a network change and close have in common.  No attempt has asked, or    *)
(* the client is closed by it.                                             *)
LEMMA LettingGo ==
  ASSUME PortmapInv, TypeOK', UNCHANGED grants, st'.mapping = NoMapping,
         net' = net \union release_mapping(st.mapping),
         \A n \in Attempts : att'[n].took = att[n].took
  PROVE  GrantsAreAccounted'
<1>1. st.mapping \in Mapping \union {NoMapping} /\ grants \subseteq Grants
  BY Typed DEF PortmapInv, Clients
<1> SUFFICES ASSUME NEW g \in grants, att[g.n].took
             PROVE  \E d \in net' : d.op = "release" /\ covers(d, g)
  BY <1>1 DEF GrantsAreAccounted, Grants
<1>2. CASE \E d \in net : d.op = "release" /\ covers(d, g)
  BY <1>2
<1>3. CASE covers(st.mapping, g)
  <2>1. st.mapping # NoMapping
    BY <1>1, <1>3, PortmapAssumption DEF covers, NoMapping, Grants
  <2>2. PICK d \in release_mapping(st.mapping) :
          /\ d.op = "release" /\ d.gw = st.mapping.gw
          /\ d.kind = st.mapping.kind /\ d.n = st.mapping.n
    BY <1>1, <2>1, Releasing
  <2> QED
    BY <1>3, <2>2 DEF covers
<1> QED
  BY <1>2, <1>3 DEF PortmapInv, GrantsAreAccounted


LEMMA RunInv ==
  ASSUME PortmapInv, RunStep
  PROVE  PortmapInv'
<1>t. TypeOK'
  BY RunTyped
<1>0. /\ run \in Runs /\ st \in Clients /\ att \in [Attempts -> Attempt]
      /\ lookup \in Gateways \union {NoGateway} /\ grants \subseteq Grants /\ net \subseteq Datagrams
  BY Typed DEF PortmapInv
<1>1. CASE RunStart \/ ProbeEnds \/ RunHearsDone \/ RunDeadline \/ RunAborted \/ CloseHook
  <2>1. /\ UNCHANGED <<att, net, grants>>
        /\ run'.ty = run.ty /\ (run'.pc \in Early => run.pc \in Early)
    BY <1>0, <1>1 DEF RunStart, ProbeEnds, RunHearsDone, RunDeadline, RunAborted, CloseHook,
         Early, Runs
  <2>2. /\ st'.closed = st.closed /\ st'.running_create = st.running_create
        /\ st'.last_gw = st.last_gw /\ st'.mapping = st.mapping
        /\ (st'.pmp = st.pmp /\ st'.pcp = st.pcp) \/ run.pc = "answering"
    BY <1>0, <1>1 DEF RunStart, ProbeEnds, RunHearsDone, RunDeadline, RunAborted, CloseHook,
         Clients
  <2> QED
    BY <1>t, <2>1, <2>2, QuietStep
<1>2. CASE ProbeSends
  <2>1. st.mapping = NoMapping /\ \A n \in Attempts : att[n].pc = "unspawned"
    BY <1>2 DEF ProbeSends, PortmapInv, Untouched, Early
  <2>2. net' = net
    BY <1>2, <2>1 DEF ProbeSends, moved_release, release_mapping
  <2>3. /\ st'.mapping = NoMapping /\ st'.running_create = st.running_create
        /\ UNCHANGED <<att, grants>>
    BY <1>0, <1>2, <2>1, Locating DEF ProbeSends
  <2>4. Slot' /\ Sent' /\ Issued' /\ Once' /\ Alone'
    BY <2>2, <2>3 DEF PortmapInv, Slot, Sent, Issued, Signed, Once, Alone, GrantUnderWay
  <2>5. Untouched' /\ Holding'
    BY <2>1, <2>3 DEF Untouched, Holding
  <2>6. Asking'
    BY <2>1, <2>3 DEF PortmapInv, Asking
  <2>7. GrantsAreAccounted'
    BY <2>1, <2>2, <2>3 DEF PortmapInv, GrantsAreAccounted
  <2> QED
    BY <1>t, <2>4, <2>5, <2>6, <2>7 DEF PortmapInv
<1>3. CASE RunAsks
  <2>1. st.mapping = NoMapping /\ \A n \in Attempts : att[n].pc = "unspawned"
    BY <1>3 DEF RunAsks, PortmapInv, Untouched, Early
  <2>2. CASE ~starts(st)
    <3>1. UNCHANGED <<att, net, grants, st>> /\ run'.ty = run.ty /\ run'.pc \notin Early
      BY <1>0, <1>3, <2>2 DEF RunAsks, Early, Runs
    <3> QED
      BY <1>t, <3>1, QuietStep
  <2>3. CASE starts(st)
    <3>1. NextAttempt \in Attempts
      <4>1. 1 \in Unspawned
        BY <2>1, PortmapAssumption DEF Unspawned, Attempts
      <4> QED
        BY <4>1, NextIsUnspawned
    <3>2. /\ st' = [st EXCEPT !.running_create = TRUE]
          /\ att' = [att EXCEPT ![NextAttempt].pc = "spawned"]
          /\ run' = [run EXCEPT !.pc = "waiting"]
          /\ UNCHANGED <<net, grants>>
      BY <1>3, <2>3 DEF RunAsks
    <3>3. /\ run'.ty = run.ty /\ run'.pc = "waiting"
          /\ st'.running_create /\ st'.mapping = NoMapping /\ st'.closed = st.closed
      BY <1>0, <2>1, <3>2 DEF Runs, Clients
    <3>4. \A n \in Attempts :
            /\ att'[n].pc = IF n = NextAttempt THEN "spawned" ELSE "unspawned"
            /\ att'[n].port = att[n].port /\ att'[n].took = att[n].took
      BY <1>0, <2>1, <3>1, <3>2 DEF Attempt
    <3> HIDE DEF NextAttempt
    <3>5. Slot'
      BY <3>1, <3>3, <3>4 DEF Slot, Busy
    <3>6. Untouched' /\ Holding'
      BY <3>3 DEF Untouched, Early, Holding
    <3>7. Asking'
      BY <2>1, <3>4 DEF PortmapInv, Asking, Fresh
    <3>8. grants = {} /\ \A d \in net : d.op = "release"
      BY <1>0, <2>1 DEF PortmapInv, Issued, Sent, Signed, Fresh, Grants, Datagrams
    <3>9. Sent' /\ Issued' /\ Once' /\ GrantsAreAccounted'
      BY <3>2, <3>8 DEF Sent, Issued, Once, GrantsAreAccounted
    <3>10. Alone'
      BY <3>2, <3>8 DEF Alone
    <3> QED
      BY <1>t, <3>5, <3>6, <3>7, <3>9, <3>10 DEF PortmapInv
  <2> QED
    BY <2>2, <2>3
<1>4. CASE CloseState
  <2>1. /\ run'.ty = run.ty /\ run'.pc = "dropping_hook"
        /\ st'.mapping = NoMapping /\ st'.closed /\ st'.running_create = st.running_create
        /\ st'.last_gw = st.last_gw
    BY <1>0, <1>4 DEF CloseState, close, invalidate_mappings, Runs, Clients
  <2>2. net' = net \union release_mapping(st.mapping) /\ UNCHANGED <<att, grants>>
    BY <1>4 DEF CloseState
  <2>3. \A d \in release_mapping(st.mapping) : d.op = "release"
    BY <1>0, Releasing DEF Clients
  <2>4. Slot' /\ Issued'
    BY <2>1, <2>2 DEF PortmapInv, Slot, Issued, Signed
  <2>5. Sent' /\ Once'
    BY <2>2, <2>3 DEF PortmapInv, Sent, Signed, Once
  <2>6. Alone'
    BY <2>2, <2>3 DEF PortmapInv, Alone, GrantUnderWay
  <2>7. Untouched' /\ Holding'
    BY <2>1 DEF Untouched, Early, Holding
  <2>8. Asking'
    BY <2>1, <2>2 DEF PortmapInv, Asking
  <2>9. GrantsAreAccounted'
    BY <1>t, <2>1, <2>2, LettingGo
  <2> QED
    BY <1>t, <2>4, <2>5, <2>6, <2>7, <2>8, <2>9 DEF PortmapInv
<1> QED
  BY <1>1, <1>2, <1>3, <1>4 DEF RunStep


(* Taking a datagram from the network or adding a release disturbs nothing *)
(* that is said of the datagrams and the grants, and neither does a step   *)
(* of an attempt that neither asks nor takes a grant.                      *)
LEMMA NetShrinks ==
  ASSUME PortmapInv, UNCHANGED grants,
         \A m \in Attempts :
           /\ att'[m].gw = att[m].gw \/ att[m].pc \in Fresh
           /\ att'[m].kind = att[m].kind
           /\ att'[m].port = att[m].port /\ att'[m].took = att[m].took
           /\ att[m].pc \notin Fresh => att'[m].pc \notin Fresh
           /\ att'[m].pc = "asked" => att[m].pc = "asked",
         \A e \in net' : e \in net \/ e.op \in {"release", "refused", "address"},
         \A e \in net' : e.op \in {"refused", "address"} => e \in net \/ (e.n \in Attempts /\ Signed(e))
  PROVE  Sent' /\ Issued' /\ Once' /\ Alone'
<1>0. grants \subseteq Grants /\ net \subseteq Datagrams
  BY Typed DEF PortmapInv
<1>1. \A e : e.n \in Attempts /\ Signed(e) => Signed(e)'
  BY DEF Signed
<1>2. Sent' /\ Issued'
  BY <1>0, <1>1 DEF PortmapInv, Sent, Issued, Grants, Datagrams
<1>3. Once'
  BY <1>0 DEF PortmapInv, Once, Datagrams
<1>4. Alone'
  <2> SUFFICES ASSUME NEW n \in Attempts, att'[n].pc = "asked", att'[n].kind = "pcp",
                      GrantUnderWay(n)', NEW g \in grants, att'[g.n].took
               PROVE  ~(g.kind = "pcp" /\ g.gw = att'[n].gw)
    BY DEF Alone
  <2>1. att[n].pc = "asked" /\ att[n].kind = "pcp" /\ att'[n].gw = att[n].gw
    BY DEF Fresh
  <2>2. GrantUnderWay(n)
    BY DEF GrantUnderWay
  <2>3. att[g.n].took
    BY <1>0 DEF Grants
  <2> QED
    BY <2>1, <2>2, <2>3 DEF PortmapInv, Alone
<1> QED
  BY <1>2, <1>3, <1>4

LEMMA EnvironmentInv ==
  ASSUME PortmapInv, PumpStep \/ Environment
  PROVE  PortmapInv'
<1>t. TypeOK'
  BY EnvironmentTyped
<1>0. /\ run \in Runs /\ st \in Clients /\ att \in [Attempts -> Attempt]
      /\ lookup \in Gateways \union {NoGateway} /\ grants \subseteq Grants /\ net \subseteq Datagrams
  BY Typed DEF PortmapInv
<1>1. CASE PumpStep \/ HangsUp \/ NetworkMoves
  <2>1. UNCHANGED <<run, st, att, net, grants>>
    BY <1>1 DEF PumpStep, PumpForwards, PumpEnds, HangsUp, NetworkMoves
  <2> QED
    BY <1>t, <2>1, QuietStep
<1>2. CASE TimePasses
  <2>1. UNCHANGED <<run, att, net, grants>>
    BY <1>2 DEF TimePasses
  <2>2. CASE st.mapping.age \in {"fresh", "renew"}
    <3>1. st.mapping # NoMapping /\ st.mapping \in Mapping
      BY <1>0, <2>2 DEF NoMapping, Clients
    <3>2. /\ st'.closed = st.closed /\ st'.running_create = st.running_create
          /\ st'.last_gw = st.last_gw /\ st'.pmp = st.pmp /\ st'.pcp = st.pcp
          /\ st'.mapping.n = st.mapping.n /\ st'.mapping.gw = st.mapping.gw
          /\ st'.mapping.kind = st.mapping.kind
      BY <1>0, <1>2, <3>1 DEF TimePasses, Clients, Mapping
    <3> QED
      BY <1>t, <2>1, <3>1, <3>2, QuietStep
  <2>3. CASE st.mapping.age \notin {"fresh", "renew"}
    <3>1. /\ st'.closed = st.closed /\ st'.running_create = st.running_create
          /\ st'.last_gw = st.last_gw /\ st'.pmp = st.pmp /\ st'.pcp = st.pcp
          /\ st'.mapping = st.mapping
      BY <1>0, <1>2, <2>3 DEF TimePasses, Clients
    <3> QED
      BY <1>t, <2>1, <3>1, QuietStep
  <2> QED
    BY <2>2, <2>3
<1>3. ASSUME UNCHANGED <<run, st, att>>
      PROVE  Slot' /\ Untouched' /\ Asking' /\ Holding'
  <2>1. Preferred(st)' = Preferred(st)
    BY <1>3 DEF Preferred, prefer_pcp, disable_pcp, disable_pmp
  <2> QED
    BY <1>3, <2>1 DEF PortmapInv, Slot, Untouched, Asking, Holding
<1>4. ASSUME NEW d \in net, NEW op \in {"refused", "address"}, d.op # "release",
             net' = (net \ {d}) \union {answer(op, d)}, UNCHANGED <<run, st, att, grants>>
      PROVE  PortmapInv'
  <2>1. d \in Datagrams
    BY <1>0
  <2>2. /\ answer(op, d).op = op /\ answer(op, d).n = d.n
        /\ answer(op, d).gw = d.gw /\ answer(op, d).kind = d.kind
    BY <2>1 DEF answer, Datagrams
  <2>3. Signed(d) /\ Signed(answer(op, d))
    BY <1>4, <2>2 DEF PortmapInv, Sent, Signed
  <2>4. \A e \in net' : e \in net \/ (e.n \in Attempts /\ Signed(e))
    BY <1>4, <2>1, <2>2, <2>3 DEF Datagrams
  <2>5. Sent' /\ Issued' /\ Once' /\ Alone'
    BY <1>4, <2>2, <2>4, NetShrinks
  <2>6. GrantsAreAccounted'
    BY <1>4 DEF PortmapInv, GrantsAreAccounted
  <2> QED
    BY <1>t, <1>3, <1>4, <2>5, <2>6 DEF PortmapInv
<1>5. CASE GatewayTells
  BY <1>4, <1>5 DEF GatewayTells
<1>6. CASE GatewayReleases \/ GatewayForgets
  <2>1. grants' \subseteq grants /\ UNCHANGED <<run, st, att, net>>
    BY <1>6 DEF GatewayReleases, GatewayForgets
  <2>2. Sent' /\ Once'
    BY <2>1 DEF PortmapInv, Sent, Signed, Once
  <2>3. Issued' /\ Alone'
    BY <2>1 DEF PortmapInv, Issued, Signed, Alone, GrantUnderWay
  <2>4. GrantsAreAccounted'
    BY <2>1 DEF PortmapInv, GrantsAreAccounted
  <2> QED
    BY <1>t, <1>3, <2>1, <2>2, <2>3, <2>4 DEF PortmapInv
<1>7. CASE GatewayMaps
  <2>1. PICK d \in net :
          /\ d.op = "map"
          /\ \/ net' = (net \ {d}) \union {answer("refused", d)} /\ UNCHANGED grants
             \/ /\ d.kind = "pcp" => \A g \in grants : g.gw = d.gw /\ g.kind = "pcp" => g.n = d.n
                /\ net' = (net \ {d}) \union {answer("granted", d)}
                /\ grants' = {g \in grants : ~covers(d, g)} \union {grant(d)}
    BY <1>7 DEF GatewayMaps
  <2>2. UNCHANGED <<run, st, att>>
    BY <1>7 DEF GatewayMaps
  <2>3. CASE net' = (net \ {d}) \union {answer("refused", d)} /\ UNCHANGED grants
    BY <1>4, <2>1, <2>2, <2>3
  <2>4. CASE /\ d.kind = "pcp" => \A g \in grants : g.gw = d.gw /\ g.kind = "pcp" => g.n = d.n
             /\ net' = (net \ {d}) \union {answer("granted", d)}
             /\ grants' = {g \in grants : ~covers(d, g)} \union {grant(d)}
    <3> DEFINE a == answer("granted", d)
               h == grant(d)
    <3>1. d \in Datagrams
      BY <1>0
    <3>2. /\ a.op = "granted" /\ a.n = d.n /\ a.gw = d.gw /\ a.kind = d.kind
          /\ h.n = d.n /\ h.gw = d.gw /\ h.kind = d.kind
      BY <3>1 DEF answer, grant, Datagrams
    <3>3. Signed(d) /\ d.n \in Attempts /\ ~att[d.n].port /\ ~att[d.n].took
      BY <2>1, <3>1 DEF PortmapInv, Sent, Once, Asking, Datagrams
    <3>4. net' = (net \ {d}) \union {a} /\ grants' \subseteq grants \union {h}
      BY <2>4
    <3> HIDE DEF a, h
    <3>5. Sent' /\ Issued'
      BY <2>2, <3>2, <3>3, <3>4 DEF PortmapInv, Sent, Issued, Signed
    <3>6. \A e \in net : e.op = "map" /\ e.n = d.n => e = d
      BY <1>0, <2>1 DEF PortmapInv, Sent, Signed, Datagrams
    <3>7. Once'
      BY <2>2, <3>2, <3>3, <3>4, <3>6 DEF PortmapInv, Once
    <3>8. Alone'
      <4> SUFFICES ASSUME NEW n \in Attempts, att[n].pc = "asked", att[n].kind = "pcp",
                          GrantUnderWay(n)', NEW g \in grants', att[g.n].took
                   PROVE  ~(g.kind = "pcp" /\ g.gw = att[n].gw)
        BY <2>2 DEF Alone
      <4>1. g \in grants
        BY <3>2, <3>3, <3>4
      <4>2. CASE n = d.n
        BY <2>4, <3>3, <4>1, <4>2 DEF Signed
      <4>3. CASE n # d.n
        <5>1. GrantUnderWay(n)
          BY <2>2, <3>2, <3>4, <4>3 DEF GrantUnderWay
        <5> QED
          BY <4>1, <5>1 DEF PortmapInv, Alone
      <4> QED
        BY <4>2, <4>3
    <3>9. GrantsAreAccounted'
      BY <2>1, <2>2, <3>2, <3>3, <3>4 DEF PortmapInv, GrantsAreAccounted
    <3> QED
      BY <1>t, <1>3, <2>2, <3>5, <3>7, <3>8, <3>9 DEF PortmapInv
  <2> QED
    BY <2>1, <2>3, <2>4
<1> QED
  BY <1>1, <1>2, <1>5, <1>6, <1>7 DEF Environment


(* A step of a live attempt that neither asks nor takes a grant: it moves  *)
(* on, and may give the slot back.                                         *)
LEMMA MovesOn ==
  ASSUME PortmapInv, TypeOK', NEW n \in Attempts, NEW x \in Pcs,
         att' = [att EXCEPT ![n].pc = x], att[n].pc # "unspawned",
         x \notin {"unspawned", "located", "asked"}, x \in Fresh => att[n].pc \in Fresh,
         \/ (x \in Busy <=> att[n].pc \in Busy) /\ st'.running_create = st.running_create
         \/ att[n].pc \in Busy /\ x \notin Busy /\ ~st'.running_create,
         UNCHANGED grants, run'.pc = run.pc, run'.ty = run.ty, net' \subseteq net,
         \A e \in net : e.op = "release" => e \in net',
         st'.closed = st.closed, st'.last_gw = st.last_gw, st'.mapping = st.mapping,
         st'.pmp = st.pmp, st'.pcp = st.pcp
  PROVE  PortmapInv'
<1>0. att \in [Attempts -> Attempt] /\ st \in Clients /\ grants \subseteq Grants
  BY Typed DEF PortmapInv
<1>1. /\ att'[n].pc = x
      /\ \A m \in Attempts : m # n => att'[m] = att[m]
      /\ \A m \in Attempts :
           /\ att'[m].gw = att[m].gw /\ att'[m].kind = att[m].kind
           /\ att'[m].port = att[m].port /\ att'[m].took = att[m].took
  BY <1>0 DEF Attempt
<1>2. Slot'
  BY <1>0, <1>1 DEF PortmapInv, Slot, Clients
<1>3. Untouched'
  BY <1>1 DEF PortmapInv, Untouched
<1>4. Preferred(st)' = Preferred(st)
  BY DEF Preferred, prefer_pcp, disable_pcp, disable_pmp
<1>5. Asking' /\ Holding'
  BY <1>1, <1>4 DEF PortmapInv, Asking, Holding
<1>6. Sent' /\ Issued' /\ Once' /\ Alone'
  <2>1. \A m \in Attempts :
          /\ att[m].pc \notin Fresh => att'[m].pc \notin Fresh
          /\ att'[m].pc = "asked" => att[m].pc = "asked"
    BY <1>1
  <2> QED
    BY <1>1, <2>1, NetShrinks
<1>7. GrantsAreAccounted'
  BY <1>0, <1>1 DEF PortmapInv, GrantsAreAccounted, Grants
<1> QED
  BY <1>2, <1>3, <1>5, <1>6, <1>7 DEF PortmapInv


LEMMA LocatesInv ==
  ASSUME PortmapInv, TypeOK', NEW n \in Attempts, AttemptLocates(n)
  PROVE  PortmapInv'
<1>0. /\ st \in Clients /\ att \in [Attempts -> Attempt] /\ grants \subseteq Grants
      /\ lookup \in Gateways \union {NoGateway}
  BY Typed DEF PortmapInv
<1>1. /\ att[n].pc = "entered" /\ UNCHANGED <<run, grants>>
      /\ net' = net \union moved_release(st)
      /\ st' = gateway_and_self_ip(st)
      /\ att' = [att EXCEPT ![n].pc = IF lookup = NoGateway THEN "failed" ELSE "located",
                            ![n].gw = lookup]
  BY DEF AttemptLocates
<1>2. /\ att'[n].pc = (IF lookup = NoGateway THEN "failed" ELSE "located")
      /\ att'[n].gw = lookup
      /\ \A m \in Attempts : m # n => att'[m] = att[m]
      /\ \A m \in Attempts :
           /\ att'[m].kind = att[m].kind
           /\ att'[m].port = att[m].port /\ att'[m].took = att[m].took
  BY <1>0, <1>1 DEF Attempt
<1>3. \A m \in Attempts : att[m].pc \in Busy => m = n
  BY <1>1 DEF PortmapInv, Slot, Busy
<1>4. /\ st'.last_gw = lookup /\ st'.closed = st.closed
      /\ st'.running_create = st.running_create
      /\ st' = st \/ st'.mapping = NoMapping
  BY <1>0, <1>1, Locating
<1>5. Slot'
  BY <1>0, <1>1, <1>2, <1>4 DEF PortmapInv, Slot, Busy, Clients
<1>6. Untouched'
  BY <1>1 DEF PortmapInv, Untouched
<1>7. Asking'
  <2> SUFFICES ASSUME NEW m \in Attempts
               PROVE  /\ att'[m].pc \in {"located", "asked"} => att'[m].gw \in Gateways /\ att'[m].gw = lookup
                      /\ att'[m].pc # "asked"
                      /\ att'[m].pc \in Fresh => ~att'[m].port
                      /\ att'[m].took => att'[m].port
    BY <1>4 DEF Asking
  <2>1. CASE m = n
    BY <1>0, <1>1, <1>2, <2>1 DEF PortmapInv, Asking, Fresh
  <2>2. CASE m # n
    BY <1>2, <1>3, <2>2 DEF PortmapInv, Asking, Busy
  <2> QED
    BY <2>1, <2>2
<1>8. Holding'
  <2>1. CASE st' = st
    BY <1>1, <2>1 DEF PortmapInv, Holding, Preferred, prefer_pcp, disable_pcp, disable_pmp
  <2>2. CASE st'.mapping = NoMapping
    BY <2>2 DEF Holding
  <2> QED
    BY <1>4, <2>1, <2>2
<1>9. Sent' /\ Issued' /\ Once' /\ Alone'
  <2>1. \A d \in release_mapping(st.mapping) : d.op = "release"
    BY <1>0, Releasing DEF Clients
  <2>2. \A e \in net' : e \in net \/ e.op = "release"
    BY <1>1, <2>1 DEF moved_release
  <2>3. \A m \in Attempts :
          /\ att'[m].gw = att[m].gw \/ att[m].pc \in Fresh
          /\ att[m].pc \notin Fresh => att'[m].pc \notin Fresh
          /\ att'[m].pc = "asked" => att[m].pc = "asked"
    <3>1. "entered" \in Fresh /\ att'[n].pc # "asked"
      BY <1>2 DEF Fresh
    <3> QED
      BY <1>1, <1>2, <3>1
  <2> QED
    BY <1>1, <1>2, <2>2, <2>3, NetShrinks
<1>10. GrantsAreAccounted'
  <2>1. CASE moved(st)
    <3>1. st'.mapping = NoMapping /\ net' = net \union release_mapping(st.mapping)
      BY <1>0, <1>1, <2>1 DEF gateway_and_self_ip, invalidate_mappings, moved_release, Clients
    <3> QED
      BY <1>1, <1>2, <3>1, LettingGo
  <2>2. CASE ~moved(st)
    <3>1. st' = st /\ net' = net
      BY <1>1, <2>2 DEF gateway_and_self_ip, moved_release
    <3> QED
      BY <1>0, <1>1, <1>2, <3>1 DEF PortmapInv, GrantsAreAccounted, Grants
  <2> QED
    BY <2>1, <2>2
<1> QED
  BY <1>5, <1>6, <1>7, <1>8, <1>9, <1>10 DEF PortmapInv

LEMMA AsksInv ==
  ASSUME PortmapInv, TypeOK', NEW n \in Attempts, AttemptAsks(n)
  PROVE  PortmapInv'
<1> DEFINE kind == Preferred(st)
           m == [n |-> n, gw |-> att[n].gw, kind |-> kind]
<1>0. /\ st \in Clients /\ att \in [Attempts -> Attempt] /\ grants \subseteq Grants
      /\ net \subseteq Datagrams
  BY Typed DEF PortmapInv
<1>1. att[n].pc = "located" /\ UNCHANGED <<run, st, grants>>
  BY DEF AttemptAsks
<1>2. CASE /\ att' \in {[att EXCEPT ![n].pc = x] : x \in {"stored", "failed"}}
           /\ UNCHANGED net
  <2>1. PICK x \in {"stored", "failed"} : att' = [att EXCEPT ![n].pc = x]
    BY <1>2
  <2> QED
    BY <1>1, <1>2, <2>1, MovesOn DEF Busy, Fresh, Pcs
<1>3. CASE /\ att' = [att EXCEPT ![n].pc = "asked", ![n].kind = kind, ![n].address = st.pmp]
           /\ net' = net \union requests(m, st.pmp)
  <2>1. /\ att'[n].pc = "asked" /\ att'[n].kind = kind
        /\ \A k \in Attempts : k # n => att'[k] = att[k]
        /\ \A k \in Attempts :
             /\ att'[k].gw = att[k].gw
             /\ att'[k].port = att[k].port /\ att'[k].took = att[k].took
    BY <1>0, <1>3 DEF Attempt
  <2>2. \A d \in requests(m, st.pmp) :
          d.op \in {"map", "address?"} /\ d.n = n /\ d.gw = att[n].gw /\ d.kind = kind
    BY DEF requests, datagram
  <2> HIDE DEF m
  <2>3. Preferred(st)' = kind /\ kind \in Kinds
    BY <1>1 DEF Preferred, prefer_pcp, disable_pcp, disable_pmp, Kinds
  <2> HIDE DEF kind
  <2>4. \A k \in Attempts : att[k].pc \in Busy => k = n
    BY <1>1 DEF PortmapInv, Slot, Busy
  <2>5. ~att[n].port /\ ~att[n].took
    BY <1>1 DEF PortmapInv, Asking, Fresh
  <2>6. /\ \A d \in net : d.op # "release" => d.n # n
        /\ \A g \in grants : g.n # n
    BY <1>1 DEF PortmapInv, Sent, Issued, Signed, Fresh
  <2>7. Slot' /\ Untouched'
    BY <1>0, <1>1, <2>1 DEF PortmapInv, Slot, Busy, Untouched, Clients
  <2>8. Asking'
    <3> SUFFICES ASSUME NEW k \in Attempts
                 PROVE  /\ att'[k].pc \in {"located", "asked"} => att'[k].gw \in Gateways /\ att'[k].gw = st.last_gw
                        /\ att'[k].pc = "asked" => att'[k].kind = kind /\ ~att'[k].took
                        /\ att'[k].pc \in Fresh => ~att'[k].port
                        /\ att'[k].took => att'[k].port
      BY <1>1, <2>3 DEF Asking
    <3>1. CASE k = n
      BY <1>1, <2>1, <2>5, <3>1 DEF PortmapInv, Asking
    <3>2. CASE k # n
      BY <2>1, <2>4, <3>2 DEF PortmapInv, Asking, Busy
    <3> QED
      BY <3>1, <3>2
  <2>9. Holding'
    BY <1>1, <2>3 DEF PortmapInv, Holding, kind
  <2>10. Sent' /\ Issued'
    BY <1>0, <1>1, <1>3, <2>1, <2>2, <2>6 DEF PortmapInv, Sent, Issued, Signed, Fresh, Grants, Datagrams
  <2>11. Once'
    BY <1>0, <1>3, <2>1, <2>2, <2>5, <2>6 DEF PortmapInv, Once, Datagrams
  <2>12. Alone'
    <3>1. \A k \in Attempts : att'[k].pc = "asked" => k = n
      BY <2>1, <2>4 DEF Busy
    <3>2. ~GrantUnderWay(n)'
      BY <1>3, <2>1, <2>2, <2>5, <2>6 DEF GrantUnderWay
    <3> QED
      BY <3>1, <3>2 DEF Alone
  <2>13. GrantsAreAccounted'
    BY <1>0, <1>1, <1>3, <2>1 DEF PortmapInv, GrantsAreAccounted, Grants
  <2> QED
    BY <2>7, <2>8, <2>9, <2>10, <2>11, <2>12, <2>13 DEF PortmapInv
<1> QED
  BY <1>2, <1>3 DEF AttemptAsks, Preferred


(* What every answer the attempt takes has in common: the datagram is gone *)
(* and, if it was the grant, nothing is left to grant the attempt again.   *)
LEMMA TakingOne ==
  ASSUME PortmapInv, NEW n \in Attempts, NEW d \in net, d.n = n,
         NEW port \in BOOLEAN, port <=> (att[n].port \/ d.op = "granted"),
         d.op \in {"granted", "address", "refused"},
         \A e \in net' : (e \in net /\ e # d) \/ e.op = "release",
         att'[n].port = port, \A m \in Attempts : m # n => att'[m] = att[m]
  PROVE  Once'
<1>0. net \subseteq Datagrams
  BY Typed DEF PortmapInv
<1>1. \A e \in net : e.op = "granted" /\ d.op = "granted" /\ e.n = n => e = d
  BY <1>0 DEF PortmapInv, Sent, Signed, Datagrams
<1>2. \A e \in net : e.op = "map" /\ e.n = n => d.op # "granted"
  BY DEF PortmapInv, Once
<1>3. \A e \in net' : e.op \in {"map", "granted"} => ~att'[e.n].port
  <2> SUFFICES ASSUME NEW e \in net', e.op \in {"map", "granted"} PROVE ~att'[e.n].port
    OBVIOUS
  <2>1. e \in net /\ e # d /\ e.n \in Attempts /\ ~att[e.n].port
    BY <1>0 DEF PortmapInv, Once, Datagrams
  <2>2. CASE e.n = n
    BY <1>1, <1>2, <2>1, <2>2
  <2>3. CASE e.n # n
    BY <2>1, <2>3
  <2> QED
    BY <2>2, <2>3
<1> QED
  BY <1>3 DEF PortmapInv, Once

LEMMA ReceivesInv ==
  ASSUME PortmapInv, TypeOK', NEW n \in Attempts, AttemptReceives(n)
  PROVE  PortmapInv'
<1>0. /\ st \in Clients /\ att \in [Attempts -> Attempt] /\ grants \subseteq Grants
      /\ net \subseteq Datagrams
  BY Typed DEF PortmapInv
<1>1. PICK d \in net, address \in BOOLEAN, port \in BOOLEAN :
        /\ att[n].pc = "asked" /\ d.n = n /\ d.op \in {"granted", "address", "refused"}
        /\ port <=> (att[n].port \/ d.op = "granted")
        /\ UNCHANGED <<run, lookup, grants>>
        /\ \/ /\ att' = [att EXCEPT ![n].pc = "failed"]
              /\ net' = net \ {d} /\ UNCHANGED st
           \/ /\ att' = Half(n, address, port)
              /\ net' = net \ {d} /\ UNCHANGED st
           \/ /\ port
              /\ \E x \in {"failed", "stored"} : att' = Whole(n, address, port, x)
              /\ st' = stored(st, mapping_of(n))
              /\ net' = (net \ {d}) \union stored_release(st, mapping_of(n))
  BY Receiving
<1>2. \A k \in Attempts : att[k].pc \in Busy => k = n
  BY <1>1 DEF PortmapInv, Slot, Busy
<1>3. run.pc \notin Early
  BY <1>1 DEF PortmapInv, Untouched
<1>4. CASE att' = [att EXCEPT ![n].pc = "failed"] /\ net' = net \ {d} /\ UNCHANGED st
  BY <1>1, <1>4, MovesOn DEF Busy, Fresh, Pcs
<1>5. CASE att' = Half(n, address, port) /\ net' = net \ {d} /\ UNCHANGED st
  <2>1. /\ att'[n].port = port
        /\ \A k \in Attempts : k # n => att'[k] = att[k]
        /\ \A k \in Attempts :
             /\ att'[k].pc = att[k].pc /\ att'[k].gw = att[k].gw
             /\ att'[k].kind = att[k].kind /\ att'[k].took = att[k].took
    BY <1>0, <1>5 DEF Half, Attempt
  <2>2. Once'
    BY <1>1, <1>5, <2>1, TakingOne
  <2>3. Slot' /\ Untouched'
    BY <1>1, <1>5, <2>1 DEF PortmapInv, Slot, Untouched
  <2>4. Preferred(st)' = Preferred(st)
    BY <1>1, <1>5 DEF Preferred, prefer_pcp, disable_pcp, disable_pmp
  <2>5. Asking' /\ Holding'
    BY <1>1, <1>5, <2>1, <2>4 DEF PortmapInv, Asking, Holding, Fresh
  <2>6. Sent' /\ Issued'
    BY <1>0, <1>1, <1>5, <2>1 DEF PortmapInv, Sent, Issued, Signed, Grants, Datagrams
  <2>7. Alone'
    <3>1. \A k \in Attempts : GrantUnderWay(k)' => GrantUnderWay(k)
      BY <1>1, <1>5, <2>1 DEF GrantUnderWay
    <3> QED
      BY <1>0, <1>1, <2>1, <3>1 DEF PortmapInv, Alone, Grants
  <2>8. GrantsAreAccounted'
    BY <1>0, <1>1, <1>5, <2>1 DEF PortmapInv, GrantsAreAccounted, Grants
  <2> QED
    BY <2>2, <2>3, <2>5, <2>6, <2>7, <2>8 DEF PortmapInv
<1>6. CASE /\ port
           /\ \E x \in {"failed", "stored"} : att' = Whole(n, address, port, x)
           /\ st' = stored(st, mapping_of(n))
           /\ net' = (net \ {d}) \union stored_release(st, mapping_of(n))
  <2> DEFINE m == mapping_of(n)
  <2>1. /\ att'[n].port /\ att'[n].took /\ att'[n].pc \in {"failed", "stored"}
        /\ \A k \in Attempts : k # n => att'[k] = att[k]
        /\ \A k \in Attempts : att'[k].gw = att[k].gw /\ att'[k].kind = att[k].kind
    BY <1>0, <1>6 DEF Whole, Attempt
  <2>2. /\ m \in Mapping /\ m # NoMapping
        /\ m.n = n /\ m.gw = att[n].gw /\ m.kind = att[n].kind
    BY <1>1, PortmapAssumption DEF PortmapInv, Asking, mapping_of, Mapping, NoMapping
  <2>3. /\ st'.closed = st.closed /\ st'.running_create = st.running_create
        /\ st'.last_gw = st.last_gw /\ st'.pmp = st.pmp /\ st'.pcp = st.pcp
        /\ st'.mapping = IF st.closed THEN st.mapping ELSE m
    BY <1>0, <1>6 DEF stored, Clients
  <2>4. /\ \A e \in release_mapping(m) : e.op = "release"
        /\ \E e \in release_mapping(m) : e.gw = m.gw /\ e.kind = m.kind /\ e.n = m.n
    BY <2>2, Releasing
  <2>5. net' = (net \ {d}) \union (IF st.closed THEN release_mapping(m) ELSE {})
    BY <1>6 DEF stored_release
  <2> HIDE DEF m
  <2>6. \A e \in net' : (e \in net /\ e # d) \/ e.op = "release"
    BY <2>4, <2>5
  <2>7. Once'
    <3>1. att'[n].port = port
      BY <1>0, <1>6 DEF Whole, Attempt
    <3> QED
      BY <1>1, <2>1, <2>6, <3>1, TakingOne
  <2>8. Slot' /\ Untouched'
    BY <1>0, <1>1, <1>2, <1>3, <2>1, <2>3 DEF PortmapInv, Slot, Busy, Untouched, Clients
  <2>9. Preferred(st)' = Preferred(st)
    BY <1>1, <2>3 DEF Preferred, prefer_pcp, disable_pcp, disable_pmp
  <2>10. Asking'
    <3> SUFFICES ASSUME NEW k \in Attempts
                 PROVE  /\ att'[k].pc \notin {"located", "asked"}
                        /\ att'[k].pc \in Fresh => ~att'[k].port
                        /\ att'[k].took => att'[k].port
      BY DEF Asking
    <3>1. CASE k = n
      BY <2>1, <3>1 DEF Fresh
    <3>2. CASE k # n
      BY <1>2, <2>1, <3>2 DEF PortmapInv, Asking, Busy
    <3> QED
      BY <3>1, <3>2
  <2>11. Holding'
    BY <1>1, <2>2, <2>3, <2>9 DEF PortmapInv, Asking, Holding
  <2>12. Sent' /\ Issued'
    <3>1. \A e : e.n \in Attempts /\ Signed(e) => Signed(e)'
      BY <2>1 DEF Signed, Fresh
    <3> QED
      BY <1>0, <1>1, <2>6, <3>1 DEF PortmapInv, Sent, Issued, Grants, Datagrams
  <2>13. Alone'
    BY <1>2, <2>1 DEF Alone, Busy
  <2>14. GrantsAreAccounted'
    <3> SUFFICES ASSUME NEW g \in grants, att'[g.n].took
                 PROVE  \/ covers(st'.mapping, g)
                        \/ \E e \in net' : e.op = "release" /\ covers(e, g)
      BY <1>1 DEF GrantsAreAccounted
    <3>0. g \in Grants /\ Signed(g)
      BY <1>0 DEF PortmapInv, Issued
    <3>1. CASE g.n = n
      <4>1. covers(m, g)
        BY <2>2, <3>0, <3>1 DEF covers, Signed
      <4>2. CASE st.closed
        BY <2>4, <2>5, <4>1, <4>2 DEF covers
      <4>3. CASE ~st.closed
        BY <2>3, <4>1, <4>3
      <4> QED
        BY <4>2, <4>3
    <3>2. CASE g.n # n
      <4>1. att[g.n].took
        BY <2>1, <3>0, <3>2 DEF Grants
      <4>2. CASE \E e \in net : e.op = "release" /\ covers(e, g)
        BY <1>1, <2>5, <4>2
      <4>3. CASE covers(st.mapping, g) /\ st.closed
        BY <2>3, <4>3
      <4>4. CASE covers(st.mapping, g) /\ ~st.closed
        <5>1. st.mapping # NoMapping
          BY <3>0, <4>4, PortmapAssumption DEF covers, NoMapping, Grants
        <5>2. g.gw = m.gw /\ g.kind = m.kind
          BY <1>1, <2>2, <4>4, <5>1 DEF PortmapInv, Holding, Asking, covers
        <5>3. g.kind # "pcp"
          <6>1. GrantUnderWay(n)
            BY <1>1, <1>6 DEF GrantUnderWay
          <6> QED
            BY <1>1, <2>2, <4>1, <5>2, <6>1 DEF PortmapInv, Alone
        <5> QED
          BY <2>3, <4>4, <5>2, <5>3 DEF covers
      <4> QED
        BY <4>1, <4>2, <4>3, <4>4 DEF PortmapInv, GrantsAreAccounted
    <3> QED
      BY <3>1, <3>2
  <2> QED
    BY <2>7, <2>8, <2>10, <2>11, <2>12, <2>13, <2>14 DEF PortmapInv
<1> QED
  BY <1>1, <1>4, <1>5, <1>6


LEMMA CallsInv ==
  ASSUME PortmapInv, TypeOK', NEW n \in Attempts, CallsHook(n)
  PROVE  PortmapInv'
<1>0. /\ run \in Runs /\ st \in Clients /\ att \in [Attempts -> Attempt] /\ grants \subseteq Grants
      /\ net \subseteq Datagrams
  BY Typed DEF PortmapInv
<1>1. /\ att[n].pc = "calling" /\ UNCHANGED <<grants, net>>
      /\ run'.pc = run.pc /\ run'.ty = run.ty
  BY <1>0 DEF CallsHook, Runs
<1>2. CASE ~starts(st)
  <2>1. att' = [att EXCEPT ![n].pc = "done"] /\ UNCHANGED st
    BY <1>2 DEF CallsHook
  <2> QED
    BY <1>1, <2>1, MovesOn DEF Busy, Fresh, Pcs
<1>3. CASE starts(st)
  <2> DEFINE k == NextAttempt
  <2>1. k \in Attempts /\ att[k].pc = "unspawned"
    BY <1>3, NextIsUnspawned DEF CallsHook
  <2>2. /\ st' = [st EXCEPT !.running_create = TRUE]
        /\ att' = [att EXCEPT ![n].pc = "done", ![k].pc = "spawned"]
    BY <1>3 DEF CallsHook
  <2> HIDE DEF k
  <2>3. k # n
    BY <1>1, <2>1
  <2>4. /\ att'[n].pc = "done" /\ att'[k].pc = "spawned"
        /\ \A m \in Attempts : m # n /\ m # k => att'[m] = att[m]
        /\ \A m \in Attempts :
             /\ att'[m].gw = att[m].gw /\ att'[m].kind = att[m].kind
             /\ att'[m].port = att[m].port /\ att'[m].took = att[m].took
    BY <1>0, <2>1, <2>2, <2>3 DEF Attempt
  <2>5. /\ st'.closed = st.closed /\ st'.running_create /\ st'.last_gw = st.last_gw
        /\ st'.mapping = st.mapping /\ st'.pmp = st.pmp /\ st'.pcp = st.pcp
    BY <1>0, <2>2 DEF Clients
  <2>6. \A m \in Attempts : att[m].pc \notin Busy
    BY <1>3 DEF starts, maybe_start, PortmapInv, Slot
  <2>7. Slot'
    BY <2>1, <2>4, <2>5, <2>6 DEF Slot, Busy
  <2>8. Untouched'
    BY <1>1 DEF PortmapInv, Untouched
  <2>9. Preferred(st)' = Preferred(st)
    BY <1>1, <2>5 DEF Preferred, prefer_pcp, disable_pcp, disable_pmp
  <2>10. Asking' /\ Holding'
    <3>1. \A m \in Attempts : att'[m].pc \notin {"located", "asked"}
      BY <2>4, <2>6 DEF Busy
    <3>2. \A m \in Attempts : att'[m].pc \in Fresh => att[m].pc \in Fresh
      BY <2>1, <2>4 DEF Fresh
    <3> QED
      BY <2>4, <2>5, <2>9, <3>1, <3>2 DEF PortmapInv, Asking, Holding
  <2>11. Sent' /\ Issued' /\ Once' /\ Alone'
    <3>1. \A m \in Attempts : att[m].pc \notin Fresh => att'[m].pc \notin Fresh
      BY <2>1, <2>4 DEF Fresh
    <3>2. \A m \in Attempts : att'[m].pc = "asked" => att[m].pc = "asked"
      BY <2>4
    <3> QED
      BY <1>1, <2>4, <3>1, <3>2, NetShrinks
  <2>12. GrantsAreAccounted'
    BY <1>0, <1>1, <2>4, <2>5 DEF PortmapInv, GrantsAreAccounted, Grants
  <2> QED
    BY <2>7, <2>8, <2>10, <2>11, <2>12 DEF PortmapInv
<1> QED
  BY <1>2, <1>3

LEMMA AttemptInv ==
  ASSUME PortmapInv, NEW n \in Attempts, AttemptStep(n)
  PROVE  PortmapInv'
<1>t. TypeOK'
  BY AttemptTyped
<1>0. st \in Clients /\ att \in [Attempts -> Attempt]
  BY Typed DEF PortmapInv
<1>1. CASE AttemptEnters(n)
  BY <1>t, <1>1, MovesOn DEF AttemptEnters, Busy, Fresh, Pcs
<1>2. CASE AttemptTimesOut(n)
  BY <1>t, <1>2, MovesOn DEF AttemptTimesOut, Busy, Fresh, Pcs
<1>3. CASE TakesHook(n)
  BY <1>t, <1>3, MovesOn DEF TakesHook, Busy, Fresh, Pcs
<1>4. CASE AttemptReturns(n)
  <2>1. /\ ~st'.running_create /\ st'.closed = st.closed /\ st'.last_gw = st.last_gw
        /\ st'.mapping = st.mapping /\ st'.pmp = st.pmp /\ st'.pcp = st.pcp
    BY <1>0, <1>4 DEF AttemptReturns, Clients
  <2>2. PICK x \in {"done", "returned"} : att' = [att EXCEPT ![n].pc = x]
    BY <1>4 DEF AttemptReturns
  <2>3. att[n].pc \in {"failed", "stored"} /\ UNCHANGED <<run, grants, net>>
    BY <1>4 DEF AttemptReturns
  <2> QED
    BY <1>t, <2>1, <2>2, <2>3, MovesOn DEF Busy, Fresh, Pcs
<1>5. CASE AttemptLocates(n)
  BY <1>t, <1>5, LocatesInv
<1>6. CASE AttemptAsks(n)
  BY <1>t, <1>6, AsksInv
<1>7. CASE AttemptReceives(n)
  BY <1>t, <1>7, ReceivesInv
<1>8. CASE CallsHook(n)
  BY <1>t, <1>8, CallsInv
<1> QED
  BY <1>1, <1>2, <1>3, <1>4, <1>5, <1>6, <1>7, <1>8 DEF AttemptStep

LEMMA Inductive == Init /\ [][Next]_vars => []PortmapInv
<1>1. PortmapInv /\ [Next]_vars => PortmapInv'
  <2> SUFFICES ASSUME PortmapInv, [Next]_vars PROVE PortmapInv'
    OBVIOUS
  <2>1. CASE RunStep
    BY <2>1, RunInv
  <2>2. CASE PumpStep \/ Environment
    BY <2>2, EnvironmentInv
  <2>3. ASSUME NEW n \in Attempts, AttemptStep(n) PROVE PortmapInv'
    BY <2>3, AttemptInv
  <2>4. CASE UNCHANGED vars
    <3>1. TypeOK'
      BY <2>4 DEF vars, PortmapInv, TypeOK
    <3> QED
      BY <2>4, <3>1, QuietStep DEF vars
  <2> QED
    BY <2>1, <2>2, <2>3, <2>4 DEF Next
<1> QED
  BY <1>1, InitInv, PTL

----------------------------------------------------------------------------
(* The theorems.                                                           *)

(* The run, the client, its attempts, the network and the gateways stay    *)
(* well formed: in particular every request carries a gateway that was     *)
(* found and a protocol that was chosen (create_or_get_mapping).           *)
THEOREM TypeCorrect == Spec => []TypeOK
<1>1. PortmapInv => TypeOK
  BY DEF PortmapInv
<1> QED
  BY <1>1, Inductive, PTL DEF Spec

(* running_create is set exactly while one background attempt runs, and    *)
(* two never overlap, however the run, its hook and the attempts that end  *)
(* late interleave (maybe_start_mapping, the drop of its guard).           *)
THEOREM SlotIsNeverLeaked == Spec => []SlotMatchesAttempt
<1>1. ASSUME PortmapInv PROVE SlotMatchesAttempt
  <2> DEFINE running == {n \in Attempts : att[n].pc \in Busy}
  <2>1. CASE st.running_create
    <3>1. PICK n \in Attempts : running = {n}
      BY <1>1, <2>1 DEF PortmapInv, Slot
    <3>2. Cardinality(running) = 1
      BY <3>1, FS_Singleton
    <3> QED
      BY <2>1, <3>2 DEF SlotMatchesAttempt, Busy
  <2>2. CASE ~st.running_create
    <3>1. running = {}
      BY <1>1, <2>2 DEF PortmapInv, Slot
    <3>2. Cardinality(running) = 0
      BY <3>1, FS_EmptySet
    <3> QED
      BY <2>2, <3>2 DEF SlotMatchesAttempt, Busy
  <2> QED
    BY <2>1, <2>2
<1> QED
  BY <1>1, Inductive, PTL DEF Spec

(* The client never holds a mapping of a network it has left: a grant is   *)
(* stored only while the gateway it was asked of is the last one located   *)
(* (gateway_and_self_ip, store_mapping).                                   *)
THEOREM HeldIsCurrent == Spec => []HeldIsFromLastGateway
<1>1. PortmapInv => HeldIsFromLastGateway
  BY DEF PortmapInv, Holding, HeldIsFromLastGateway
<1> QED
  BY <1>1, Inductive, PTL DEF Spec

(* Nothing the client was granted is left on a router without the client   *)
(* holding it or having sent its release: not by close, not by a network   *)
(* change, not by an attempt that finishes after the close, and not by a   *)
(* renewal under another nonce (store_mapping, close, release_packet).     *)
THEOREM NothingIsLeftBehind == Spec => []GrantsAreAccounted
<1>1. PortmapInv => GrantsAreAccounted
  BY DEF PortmapInv
<1> QED
  BY <1>1, Inductive, PTL DEF Spec
============================================================================
