--------------------------- MODULE LocalApiProofs ---------------------------
(***************************************************************************)
(* Proofs about the LocalAPI server, for any number of connections, any    *)
(* requests and any size of the two pools of permits.                      *)
(***************************************************************************)
EXTENDS LocalApi, FiniteSetTheorems, TLAPS

(* A handler's record, as far as the proofs look into it.                  *)
Fields == {"pc", "access", "req", "url", "force", "stage", "gen", "reply", "served",
           "permit", "peer"}

(* What a handler's fields say of one another: the stream permit is held   *)
(* exactly while a streaming request is in hand, and only a caller that    *)
(* may write is ever told that the daemon stops.  Logout and set alone ask *)
(* the engine under the lock.                                              *)
Fit(h) ==
  /\ DOMAIN h = Fields
  /\ h.permit \in BOOLEAN
  /\ h.permit <=> h.req \in Streams
  /\ h.pc \in {"absent", "closed", "reading"} => h.req = "none"
  /\ h.pc = "writing" /\ h.reply # "spliced" => h.req = "none"
  /\ h.pc = "streaming" => h.req \in Streams
  /\ h.pc = "asking" => h.req \in {"Logout", "Set"}
  /\ h.reply = "spliced" => h.req \in Streams
  /\ h.reply = "stopping" => h.access = "ReadWrite" /\ h.pc \in {"writing", "closed"}

IsAlive(h) == h.pc \notin {"absent", "closed"}
Locked(h) == h.pc \in {"holding", "asking"}

Handlers == conn = [c \in Conns |-> conn[c]] /\ \A c \in Conns : Fit(conn[c])

(* A connection's step, as the counts see it: its handler becomes h, which *)
(* is fit, a permit is taken only where one is left, and nobody comes back.*)
Moves(c, h) ==
  /\ conn' = [conn EXCEPT ![c] = h]
  /\ Fit(h)
  /\ h.permit /\ ~conn[c].permit => Cardinality(Streaming) # MaxStreams
  /\ IsAlive(h) /\ ~IsAlive(conn[c]) => Cardinality(Living) < MaxConnections
  /\ ~At(c, "closed")

(* An update of some fields of a handler.                                  *)
Updated(o, fields) ==
  [f \in DOMAIN o |-> IF f \in DOMAIN fields THEN fields[f] ELSE o[f]]

LEMMA UpdatedFields ==
  ASSUME NEW o, DOMAIN o = Fields, NEW fields
  PROVE  /\ DOMAIN Updated(o, fields) = Fields
         /\ \A f \in Fields : Updated(o, fields)[f]
                                = IF f \in DOMAIN fields THEN fields[f] ELSE o[f]
BY DEF Updated

LEMMA GoesUpdates ==
  ASSUME NEW c \in Conns, NEW fields, Goes(c, fields), Handlers
  PROVE  conn' = [conn EXCEPT ![c] = Updated(conn[c], fields)]
BY DEF Goes, Updated, Handlers

LEMMA ClosesMoves ==
  ASSUME Handlers, NEW c \in Conns, Closes(c), ~At(c, "closed")
  PROVE  \E h : Moves(c, h) /\ h.pc = "closed"
<1> DEFINE h == [Absent EXCEPT !.pc = "closed"]
<1>1. h.pc = "closed" /\ h.permit = FALSE /\ h.req = "none" /\ h.reply = "none"
      /\ DOMAIN h = Fields
  BY DEF Absent, Fields
<1>2. conn' = [conn EXCEPT ![c] = h]
  BY DEF Closes
<1> HIDE DEF h
<1>3. Fit(h)
  BY <1>1 DEF Fit, Streams
<1>4. Moves(c, h)
  BY <1>1, <1>2, <1>3 DEF Moves, IsAlive
<1>5. QED
  BY <1>1, <1>4

(* An answer, refusals and acknowledged stops included.                    *)
LEMMA AnswersMoves ==
  ASSUME Handlers, NEW c \in Conns, IsAlive(conn[c]), NEW reply, Answers(c, reply),
         reply # "spliced", reply = "stopping" => conn[c].access = "ReadWrite"
  PROVE  \E h : Moves(c, h) /\ h.pc = "writing"
<1> DEFINE o == conn[c]
           h == [Absent EXCEPT !.pc = "writing", !.reply = reply, !.access = o.access,
                               !.served = o.served, !.peer = o.peer]
<1>1. conn' = [conn EXCEPT ![c] = h]
  BY DEF Answers, Drops
<1> HIDE DEF o
<1>2. /\ h.pc = "writing" /\ h.permit = FALSE /\ h.req = "none"
      /\ h.reply = reply /\ h.access = o.access /\ DOMAIN h = Fields
  BY DEF Absent, Fields
<1> HIDE DEF h
<1>3. Fit(h)
  BY <1>2 DEF Fit, Streams, o
<1>4. Moves(c, h)
  BY <1>1, <1>2, <1>3 DEF Moves, IsAlive, At
<1>5. QED
  BY <1>2, <1>4

(* A step of a handler that changes neither its request nor its answer.    *)
Advances(c, pc) ==
  /\ pc \in {"locking", "holding", "calling", "asking"}
  /\ pc = "asking" => conn[c].req \in {"Logout", "Set"}
  /\ ~At(c, "writing")

LEMMA AdvanceMoves ==
  ASSUME Handlers, NEW c \in Conns, NEW fields, Goes(c, fields), IsAlive(conn[c]),
         DOMAIN fields \cap {"req", "permit", "reply", "access"} = {},
         "pc" \in DOMAIN fields => Advances(c, fields["pc"])
  PROVE  \E h : /\ Moves(c, h)
                /\ h.pc = IF "pc" \in DOMAIN fields THEN fields["pc"] ELSE conn[c].pc
                /\ h.gen = IF "gen" \in DOMAIN fields THEN fields["gen"] ELSE conn[c].gen
<1> DEFINE h == Updated(conn[c], fields)
<1>1. Fit(conn[c])
  BY DEF Handlers
<1>2. /\ DOMAIN h = Fields
      /\ \A f \in Fields : h[f] = IF f \in DOMAIN fields THEN fields[f] ELSE conn[c][f]
  BY <1>1, UpdatedFields DEF Fit
<1> HIDE DEF h
<1>3. /\ h.req = conn[c].req /\ h.permit = conn[c].permit /\ h.reply = conn[c].reply
      /\ h.access = conn[c].access
      /\ h.pc = IF "pc" \in DOMAIN fields THEN fields["pc"] ELSE conn[c].pc
      /\ h.gen = IF "gen" \in DOMAIN fields THEN fields["gen"] ELSE conn[c].gen
  BY <1>2 DEF Fields
<1>4. Fit(h)
  BY <1>1, <1>2, <1>3 DEF Fit, IsAlive, At, Advances
<1>5. conn' = [conn EXCEPT ![c] = h]
  BY GoesUpdates DEF h
<1>6. QED
  BY <1>3, <1>4, <1>5 DEF Moves, IsAlive, At, Advances

----------------------------------------------------------------------------
(* The step of one connection, as the lock and the accept loop see it.     *)

Server == [pc : {"accepting", "draining", "stopped"}, stop : BOOLEAN,
           signal : BOOLEAN, ended : {"no", "signal", "api"}]

(* The lock is taken where it is free and given back where it is held.     *)
(* The backend changes under the lock, and not while the engine is asked.  *)
LockStep(c, h) ==
  /\ \/ lock' = lock /\ (Locked(h) <=> Locked(conn[c]))
     \/ lock = c /\ lock' = Free /\ ~Locked(h)
     \/ lock = Free /\ lock' = c /\ Locked(h)
  /\ node' = node \/ (lock = c /\ h.pc # "asking")
  /\ h.pc = "asking" => \/ At(c, "asking") /\ h.gen = conn[c].gen
                        \/ h.gen = node.dev /\ node.dev # 0

(* The stop permit is stored by a connection that has just told its caller.*)
StopStep(h) ==
  /\ server' \in Server
  /\ server'.pc = server.pc /\ server'.signal = server.signal /\ server'.ended = server.ended
  /\ server.stop => server'.stop
  /\ server'.stop => server.stop \/ (h.pc = "closed" /\ h.reply = "stopping")

ConnStep(c) == \E h : Moves(c, h) /\ LockStep(c, h) /\ StopStep(h)

LEMMA AcceptStep ==
  ASSUME server \in Server, Handlers, NEW c \in Conns, NEW uid, Accept(c, uid)
  PROVE  ConnStep(c)
<1>0. /\ Fit(conn[c]) /\ At(c, "absent") /\ lock' = lock /\ server' = server /\ node' = node
      /\ conn[c].req = "none" /\ ~conn[c].permit /\ conn[c].reply \notin {"spliced", "stopping"}
  BY DEF Handlers, Accept, Fit, At, Streams
<1>1. ASSUME NEW fields, Goes(c, fields),
             DOMAIN fields \in {{"pc"}, {"pc", "access"}},
             fields["pc"] \in {"closed", "reading"},
             fields["pc"] = "reading" => Cardinality(Living) < MaxConnections
      PROVE  ConnStep(c)
  <2> DEFINE h == Updated(conn[c], fields)
  <2>1. conn' = [conn EXCEPT ![c] = h]
    BY <1>1, GoesUpdates
  <2>2. /\ DOMAIN h = Fields
        /\ \A f \in Fields : h[f] = IF f \in DOMAIN fields THEN fields[f] ELSE conn[c][f]
    BY <1>0, UpdatedFields DEF Fit
  <2> HIDE DEF h
  <2>3. /\ h.pc = fields["pc"] /\ h.req = "none" /\ h.permit = conn[c].permit
        /\ h.reply = conn[c].reply
    BY <1>0, <1>1, <2>2 DEF Fields
  <2>4. Fit(h)
    BY <1>0, <1>1, <2>2, <2>3 DEF Fit, Streams
  <2>5. Moves(c, h)
    BY <1>0, <1>1, <2>1, <2>3, <2>4 DEF Moves, IsAlive, At
  <2>6. LockStep(c, h) /\ StopStep(h)
    BY <1>0, <1>1, <2>3 DEF LockStep, StopStep, At, Locked
  <2>7. QED
    BY <2>5, <2>6 DEF ConnStep
<1>2. CASE Cardinality(Living) < MaxConnections
  <2>1. Goes(c, [pc |-> "reading", access |-> access_for_uid(uid)])
    BY <1>2 DEF Accept
  <2>2. QED
    BY <1>1, <1>2, <2>1
<1>3. CASE ~(Cardinality(Living) < MaxConnections)
  <2>1. Goes(c, [pc |-> "closed"])
    BY <1>3 DEF Accept, Becomes
  <2>2. QED
    BY <1>1, <2>1
<1>4. QED
  BY <1>2, <1>3

(* The ways a handler answers, closes and advances, as steps.              *)
LEMMA AnswersStep ==
  ASSUME server \in Server, server' = server, Handlers, NEW c \in Conns, IsAlive(conn[c]),
         NEW reply, Answers(c, reply),
         reply # "spliced", reply = "stopping" => conn[c].access = "ReadWrite",
         node' = node \/ lock = c,
         \/ lock' = lock /\ ~Locked(conn[c])
         \/ lock = c /\ lock' = Free
  PROVE  ConnStep(c)
<1>1. PICK h : Moves(c, h) /\ h.pc = "writing"
  BY AnswersMoves
<1>2. LockStep(c, h) /\ StopStep(h)
  BY <1>1 DEF LockStep, StopStep, Locked, At
<1>3. QED
  BY <1>1, <1>2 DEF ConnStep

LEMMA ClosesStep ==
  ASSUME server \in Server, server' = server, Handlers, NEW c \in Conns, Closes(c),
         ~At(c, "closed"), lock' = lock, node' = node, ~Locked(conn[c])
  PROVE  ConnStep(c)
<1>1. PICK h : Moves(c, h) /\ h.pc = "closed"
  BY ClosesMoves
<1>2. LockStep(c, h) /\ StopStep(h)
  BY <1>1 DEF LockStep, StopStep, Locked, At
<1>3. QED
  BY <1>1, <1>2 DEF ConnStep

LEMMA AdvanceStep ==
  ASSUME server \in Server, server' = server, Handlers, NEW c \in Conns, NEW fields,
         Goes(c, fields), IsAlive(conn[c]), ~At(c, "writing"),
         DOMAIN fields \cap {"req", "permit", "reply", "access"} = {},
         "pc" \in DOMAIN fields,
         \/ /\ fields["pc"] \in {"locking", "calling"}
            /\ node' = node \/ lock = c
            /\ \/ lock' = lock /\ ~Locked(conn[c])
               \/ lock = c /\ lock' = Free
         \/ fields["pc"] = "holding" /\ lock = Free /\ lock' = c /\ node' = node
         \/ /\ fields["pc"] = "asking" /\ At(c, "holding") /\ lock' = lock /\ node' = node
            /\ "gen" \in DOMAIN fields /\ fields["gen"] = node.dev /\ node.dev # 0
            /\ conn[c].req \in {"Logout", "Set"}
  PROVE  ConnStep(c)
<1>1. PICK h : /\ Moves(c, h) /\ h.pc = fields["pc"]
               /\ h.gen = IF "gen" \in DOMAIN fields THEN fields["gen"] ELSE conn[c].gen
  <2>1. Advances(c, fields["pc"])
    BY DEF Advances
  <2>2. QED
    BY <2>1, AdvanceMoves
<1>2. LockStep(c, h) /\ StopStep(h)
  BY <1>1 DEF LockStep, StopStep, Locked, At
<1>3. QED
  BY <1>1, <1>2 DEF ConnStep

LEMMA PeerStep ==
  ASSUME server \in Server, Handlers, NEW c \in Conns, PeerMoves(c)
  PROVE  ConnStep(c)
<1>1. PICK peer : Goes(c, [peer |-> peer])
  BY DEF PeerMoves
<1>2. IsAlive(conn[c]) /\ lock' = lock /\ server' = server /\ node' = node
  BY DEF PeerMoves, Living, IsAlive
<1>3. PICK h : Moves(c, h) /\ h.pc = conn[c].pc /\ h.gen = conn[c].gen
  <2> DEFINE fields == [peer |-> peer]
  <2>1. Goes(c, fields) /\ DOMAIN fields = {"peer"}
    BY <1>1
  <2> HIDE DEF fields
  <2>2. QED
    BY <1>2, <2>1, AdvanceMoves
<1>4. LockStep(c, h) /\ StopStep(h)
  BY <1>2, <1>3 DEF LockStep, StopStep, At, Locked
<1>5. QED
  BY <1>3, <1>4 DEF ConnStep

(* A request is taken in hand; only a stream takes a permit, and only      *)
(* where one is left.                                                      *)
LEMMA TakenStep ==
  ASSUME server \in Server, server' = server, lock' = lock, node' = node, Handlers,
         NEW c \in Conns, At(c, "reading"), NEW fields, Goes(c, fields),
         DOMAIN fields \cap {"reply", "access"} = {}, {"pc", "req"} \subseteq DOMAIN fields,
         fields["pc"] \in {"locking", "streaming"},
         \/ fields["req"] \in Streams /\ "permit" \in DOMAIN fields /\ fields["permit"] = TRUE
            /\ Cardinality(Streaming) # MaxStreams
         \/ fields["req"] \notin Streams /\ "permit" \notin DOMAIN fields
            /\ fields["pc"] = "locking"
  PROVE  ConnStep(c)
<1> DEFINE h == Updated(conn[c], fields)
<1>0. /\ Fit(conn[c]) /\ conn[c].req = "none" /\ conn[c].permit = FALSE
      /\ conn[c].reply \notin {"spliced", "stopping"}
  BY DEF Handlers, Fit, At, Streams
<1>1. /\ DOMAIN h = Fields
      /\ \A f \in Fields : h[f] = IF f \in DOMAIN fields THEN fields[f] ELSE conn[c][f]
  BY <1>0, UpdatedFields DEF Fit
<1>2. conn' = [conn EXCEPT ![c] = h]
  BY GoesUpdates
<1> HIDE DEF h
<1>3. /\ h.pc = fields["pc"] /\ h.req = fields["req"] /\ h.reply = conn[c].reply
      /\ h.permit = IF "permit" \in DOMAIN fields THEN fields["permit"] ELSE FALSE
  BY <1>0, <1>1 DEF Fields
<1>4. Fit(h)
  BY <1>0, <1>1, <1>3 DEF Fit
<1>5. Moves(c, h)
  BY <1>2, <1>3, <1>4 DEF Moves, IsAlive, At
<1>6. LockStep(c, h) /\ StopStep(h)
  BY <1>3 DEF LockStep, StopStep, At, Locked
<1>7. QED
  BY <1>5, <1>6 DEF ConnStep

LEMMA ReadLineStep ==
  ASSUME server \in Server, Handlers, NEW c \in Conns, ReadLine(c)
  PROVE  ConnStep(c)
<1>0. /\ At(c, "reading") /\ IsAlive(conn[c]) /\ ~Locked(conn[c])
      /\ server' = server /\ lock' = lock /\ node' = node
  BY DEF ReadLine, At, IsAlive, Locked
<1>1. ASSUME NEW reply \in {"ok", "error", "last"}, Answers(c, reply)
      PROVE  ConnStep(c)
  BY <1>0, <1>1, AnswersStep
<1>2. ASSUME NEW request \in Streams, TakesOver(c, request)
      PROVE  ConnStep(c)
  <2>1. CASE ~authorized(request, conn[c].access) \/ Cardinality(Streaming) = MaxStreams
    <3>1. \E reply \in {"error", "last"} : Answers(c, reply)
      BY <1>2, <2>1 DEF TakesOver
    <3>2. QED
      BY <1>1, <3>1
  <2>2. CASE authorized(request, conn[c].access) /\ Cardinality(Streaming) # MaxStreams
    <3>1. PICK pc \in {"locking", "streaming"} :
            Goes(c, [pc |-> pc, req |-> request, stage |-> "only", permit |-> TRUE])
      BY <1>2, <2>2 DEF TakesOver
    <3>2. QED
      BY <1>0, <2>2, <3>1, TakenStep
  <2>3. QED
    BY <2>1, <2>2
<1>3. ASSUME NEW allowed \in BOOLEAN, Answers(c, shutdown_verdict(c, allowed))
      PROVE  ConnStep(c)
  <2> DEFINE verdict == shutdown_verdict(c, allowed)
  <2>1. verdict # "spliced" /\ (verdict = "stopping" => conn[c].access = "ReadWrite")
    BY DEF shutdown_verdict, authorized, requires_write, Reads
  <2> HIDE DEF verdict
  <2>2. Answers(c, verdict)
    BY <1>3 DEF verdict
  <2>3. QED
    BY <1>0, <2>1, <2>2, AnswersStep
<1>4. ASSUME NEW request, request \notin Streams, Dispatch(c, request)
      PROVE  ConnStep(c)
  <2>1. CASE ~authorized(request, conn[c].access) \/ request \in Constant
    <3>1. Answers(c, "error") \/ Answers(c, "ok")
      BY <1>4, <2>1 DEF Dispatch
    <3>2. QED
      BY <1>1, <3>1
  <2>2. CASE authorized(request, conn[c].access) /\ request \notin Constant /\ request = "Up"
    <3>1. PICK url, force, stage :
            Goes(c, [pc |-> "locking", req |-> request, url |-> url, force |-> force,
                     stage |-> stage])
      BY <1>4, <2>2 DEF Dispatch
    <3>2. QED
      BY <1>0, <1>4, <3>1, TakenStep
  <2>3. CASE authorized(request, conn[c].access) /\ request \notin Constant /\ request # "Up"
    <3>1. PICK stage : Goes(c, [pc |-> "locking", req |-> request, stage |-> stage])
      BY <1>4, <2>3 DEF Dispatch
    <3>2. QED
      BY <1>0, <1>4, <3>1, TakenStep
  <2>4. QED
    BY <2>1, <2>2, <2>3
<1>5. \/ \E request \in Streams : TakesOver(c, request)
      \/ \E allowed \in BOOLEAN : Answers(c, shutdown_verdict(c, allowed))
      \/ \E request : request \notin Streams /\ Dispatch(c, request)
      \/ \E reply \in {"error", "last"} : Answers(c, reply)
  BY DEF ReadLine
<1>6. QED
  BY <1>1, <1>2, <1>3, <1>4, <1>5

(* The answer is out.  Only one that says the daemon stops stores the stop *)
(* permit, and its connection ends there.                                  *)
LEMMA WriteStep ==
  ASSUME server \in Server, Handlers, NEW c \in Conns, WriteResponse(c)
  PROVE  ConnStep(c)
<1>0. Fit(conn[c]) /\ At(c, "writing") /\ lock' = lock /\ node' = node
  BY DEF Handlers, WriteResponse
<1>1. ASSUME conn[c].reply # "stopping" PROVE server' = server
  BY <1>1 DEF WriteResponse, Server
<1>2. CASE conn[c].reply = "last"
  BY <1>0, <1>1, <1>2, ClosesStep DEF WriteResponse, At, Locked
<1>3. ASSUME NEW fields, Goes(c, fields),
             DOMAIN fields \in {{"pc"}, {"pc", "reply", "served"}},
             \/ /\ conn[c].reply = "stopping" /\ fields["pc"] = "closed"
                /\ "reply" \notin DOMAIN fields
             \/ /\ conn[c].reply # "stopping" /\ "reply" \in DOMAIN fields
                /\ fields["reply"] = "none"
                /\ fields["pc"] = IF conn[c].reply = "spliced" THEN "streaming" ELSE "reading"
      PROVE  ConnStep(c)
  <2> DEFINE h == Updated(conn[c], fields)
  <2>1. /\ DOMAIN h = Fields
        /\ \A f \in Fields : h[f] = IF f \in DOMAIN fields THEN fields[f] ELSE conn[c][f]
    BY <1>0, UpdatedFields DEF Fit
  <2>2. conn' = [conn EXCEPT ![c] = h]
    BY <1>3, GoesUpdates
  <2> HIDE DEF h
  <2>3. /\ h.pc = fields["pc"] /\ h.req = conn[c].req /\ h.access = conn[c].access
        /\ h.permit = conn[c].permit
        /\ h.reply = IF conn[c].reply = "stopping" THEN "stopping" ELSE "none"
    BY <1>3, <2>1 DEF Fields
  <2>4. Fit(h)
    BY <1>0, <1>3, <2>1, <2>3 DEF Fit, At
  <2>5. Moves(c, h)
    BY <1>0, <2>2, <2>3, <2>4 DEF Moves, IsAlive, At
  <2>6. LockStep(c, h)
    BY <1>0, <1>3, <2>3 DEF LockStep, At, Locked
  <2>7. StopStep(h)
    <3>1. /\ server' \in Server /\ server'.pc = server.pc /\ server'.signal = server.signal
          /\ server'.ended = server.ended
          /\ server'.stop <=> server.stop \/ conn[c].reply = "stopping"
      BY DEF WriteResponse, Server
    <3>2. QED
      BY <1>3, <2>3, <3>1 DEF StopStep
  <2>8. QED
    BY <2>5, <2>6, <2>7 DEF ConnStep
<1>4. CASE conn[c].reply = "stopping"
  <2>1. Goes(c, [pc |-> "closed"])
    BY <1>4 DEF WriteResponse, Becomes
  <2>2. QED
    BY <1>3, <1>4, <2>1
<1>5. CASE conn[c].reply \notin {"last", "stopping"}
  <2>1. Goes(c, [pc |-> IF conn[c].reply = "spliced" THEN "streaming" ELSE "reading",
                 reply |-> "none", served |-> conn[c].served + 1])
    BY <1>5 DEF WriteResponse
  <2>2. QED
    BY <1>3, <1>5, <2>1
<1>6. QED
  BY <1>2, <1>4, <1>5

(* The engine has answered; an Nc keeps its permit and becomes a stream    *)
(* once its answer is out.                                                 *)
LEMMA EngineStep ==
  ASSUME server \in Server, Handlers, NEW c \in Conns, EngineAnswers(c)
  PROVE  ConnStep(c)
<1>0. /\ Fit(conn[c]) /\ At(c, "calling") /\ IsAlive(conn[c]) /\ ~Locked(conn[c])
      /\ ~At(c, "writing") /\ lock' = lock /\ server' = server /\ node' = node
  BY DEF Handlers, EngineAnswers, At, IsAlive, Locked
<1>1. CASE Answers(c, "ok") \/ Answers(c, "error")
  BY <1>0, <1>1, AnswersStep
<1>2. CASE Goes(c, [pc |-> "locking"])
  BY <1>0, <1>2, AdvanceStep
<1>3. CASE conn[c].req = "Nc" /\ Goes(c, [pc |-> "writing", reply |-> "spliced", gen |-> 0])
  <2> DEFINE fields == [pc |-> "writing", reply |-> "spliced", gen |-> 0]
             h == Updated(conn[c], fields)
  <2>1. /\ DOMAIN h = Fields
        /\ \A f \in Fields : h[f] = IF f \in DOMAIN fields THEN fields[f] ELSE conn[c][f]
    BY <1>0, UpdatedFields DEF Fit
  <2>2. conn' = [conn EXCEPT ![c] = h]
    BY <1>3, GoesUpdates
  <2> HIDE DEF h
  <2>3. /\ h.pc = "writing" /\ h.req = conn[c].req /\ h.permit = conn[c].permit
        /\ h.reply = "spliced"
    BY <2>1 DEF Fields
  <2>4. Fit(h)
    BY <1>0, <1>3, <2>1, <2>3 DEF Fit, Streams
  <2>5. Moves(c, h) /\ LockStep(c, h) /\ StopStep(h)
    BY <1>0, <2>2, <2>3, <2>4 DEF Moves, LockStep, StopStep, IsAlive, At, Locked
  <2>6. QED
    BY <2>5 DEF ConnStep
<1>4. QED
  BY <1>1, <1>2, <1>3 DEF EngineAnswers, Becomes

(* The parts of an arm that run under the lock, each of which gives it     *)
(* back, whether it answers or goes on.                                    *)
LEMMA UnderStep ==
  ASSUME server \in Server, Handlers, NEW c \in Conns,
         \/ AnswersBriefly(c) \/ ChangesBackend(c) \/ ClonesHandle(c)
         \/ RevertGuard(c) \/ UrlGuard(c) \/ Begins(c) \/ Finishes(c)
  PROVE  ConnStep(c)
<1>0. /\ At(c, "holding") /\ IsAlive(conn[c]) /\ ~At(c, "writing")
      /\ lock = c /\ lock' = Free /\ server' = server
  BY DEF AnswersBriefly, ChangesBackend, ClonesHandle, RevertGuard, UrlGuard, Begins, Finishes,
         Under, At, IsAlive
<1>1. \/ \E reply \in {"ok", "error"} : Answers(c, reply)
      \/ \E gen : Goes(c, [pc |-> "calling", gen |-> gen])
      \/ \E stage : Goes(c, [pc |-> "locking", stage |-> stage])
      \/ \E gen : Goes(c, [pc |-> "calling", stage |-> "finish", gen |-> gen])
  BY DEF AnswersBriefly, ChangesBackend, ClonesHandle, RevertGuard, UrlGuard, Begins, Finishes
<1>2. CASE \E reply \in {"ok", "error"} : Answers(c, reply)
  BY <1>0, <1>2, AnswersStep
<1>3. CASE \E gen : Goes(c, [pc |-> "calling", gen |-> gen])
  BY <1>0, <1>3, AdvanceStep
<1>4. CASE \E stage : Goes(c, [pc |-> "locking", stage |-> stage])
  BY <1>0, <1>4, AdvanceStep
<1>5. CASE \E gen : Goes(c, [pc |-> "calling", stage |-> "finish", gen |-> gen])
  BY <1>0, <1>5, AdvanceStep
<1>6. QED
  BY <1>1, <1>2, <1>3, <1>4, <1>5

(* Every step of a connection.                                             *)
LEMMA ConnNext ==
  ASSUME server \in Server, Handlers, NEW c \in Conns,
         \/ \E uid \in Uids : Accept(c, uid)
         \/ ReadLine(c) \/ TakesLock(c) \/ HandlerStep(c)
         \/ EngineAnswers(c) \/ EngineHears(c) \/ HandshakeEnds(c)
         \/ StreamWrites(c) \/ StreamEnds(c) \/ PeerMoves(c)
  PROVE  ConnStep(c)
<1>1. CASE TakesLock(c)
  <2>1. /\ Goes(c, [pc |-> "holding"]) /\ lock = Free /\ lock' = c /\ server' = server
        /\ node' = node
        /\ IsAlive(conn[c]) /\ ~At(c, "writing")
    BY <1>1 DEF TakesLock, Becomes, At, IsAlive
  <2>2. QED
    BY <2>1, AdvanceStep
<1>2. CASE HandshakeEnds(c)
  <2>1. /\ Goes(c, [pc |-> "locking"]) /\ lock' = lock /\ server' = server /\ node' = node
        /\ IsAlive(conn[c]) /\ ~At(c, "writing") /\ ~Locked(conn[c])
    BY <1>2 DEF HandshakeEnds, Becomes, At, IsAlive, Locked
  <2>2. QED
    BY <2>1, AdvanceStep
<1>3. CASE ReadsEof(c) \/ WriteFails(c) \/ StreamWrites(c) \/ StreamEnds(c)
  <2>1. /\ Closes(c) /\ lock' = lock /\ server' = server /\ node' = node
        /\ ~At(c, "closed") /\ ~Locked(conn[c])
    BY <1>3 DEF ReadsEof, WriteFails, StreamWrites, StreamEnds, At, Locked
  <2>2. QED
    BY <2>1, ClosesStep
<1>4. CASE AsksEngine(c)
  <2>1. /\ Goes(c, [pc |-> "asking", gen |-> node.dev]) /\ lock' = lock /\ server' = server
        /\ node' = node /\ At(c, "holding") /\ node.dev # 0
        /\ conn[c].req \in {"Logout", "Set"} /\ IsAlive(conn[c]) /\ ~At(c, "writing")
    BY <1>4 DEF AsksEngine, At, IsAlive
  <2>2. QED
    BY <2>1, AdvanceStep
<1>5. CASE EngineHears(c)
  <2>1. /\ \E reply \in {"ok", "error"} : Answers(c, reply)
        /\ lock = c /\ lock' = Free /\ server' = server /\ IsAlive(conn[c])
    BY <1>5 DEF EngineHears, At, IsAlive
  <2>2. QED
    BY <2>1, AnswersStep
<1>6. QED
  BY <1>1, <1>2, <1>3, <1>4, <1>5, AcceptStep, ReadLineStep, WriteStep, EngineStep, UnderStep,
     PeerStep
     DEF HandlerStep

----------------------------------------------------------------------------
(* The inductive invariant: the two pools are finite and within their      *)
(* caps, the lock is held by the handler that is in a locked section, and  *)
(* what the engine is asked under it is asked of the device that is up.    *)

Within(pool, cap) == IsFiniteSet(pool) /\ Cardinality(pool) <= cap

PoolInv ==
  /\ server \in Server
  /\ Handlers
  /\ Within(Streaming, MaxStreams)
  /\ Within(Living, MaxConnections)
  /\ LockIsAccountedFor
  /\ StopIsEarned

LEMMA WithinSubset ==
  ASSUME NEW pool, NEW less \in SUBSET pool, NEW cap \in Nat, Within(pool, cap)
  PROVE  Within(less, cap)
<1>1. IsFiniteSet(pool) /\ Cardinality(pool) <= cap /\ Cardinality(pool) \in Nat
  BY FS_CardinalityType DEF Within
<1>2. IsFiniteSet(less) /\ Cardinality(less) <= Cardinality(pool)
  BY <1>1, FS_Subset
<1>3. Cardinality(less) \in Nat
  BY <1>2, FS_CardinalityType
<1>4. QED
  BY <1>1, <1>2, <1>3 DEF Within

LEMMA WithinAdd ==
  ASSUME NEW pool, NEW x, NEW cap \in Nat, Within(pool, cap), Cardinality(pool) # cap
  PROVE  Within(pool \cup {x}, cap)
<1>1. IsFiniteSet(pool) /\ Cardinality(pool) <= cap /\ Cardinality(pool) \in Nat
  BY FS_CardinalityType DEF Within
<1>2. /\ IsFiniteSet(pool \cup {x})
      /\ Cardinality(pool \cup {x}) \in {Cardinality(pool), Cardinality(pool) + 1}
  BY <1>1, FS_AddElement
<1>3. QED
  BY <1>1, <1>2 DEF Within

LEMMA WithinEmpty ==
  ASSUME NEW cap \in Nat
  PROVE  Within({}, cap)
BY FS_EmptySet DEF Within

LEMMA InitPool == Init => PoolInv
<1> SUFFICES ASSUME Init PROVE PoolInv
  OBVIOUS
<1>1. server \in Server /\ server.stop = FALSE /\ server.ended = "no"
  BY DEF Init, Server
<1>2. \A c \in Conns : conn[c] = Absent /\ conn = [d \in Conns |-> conn[d]]
  BY DEF Init
<1>3. Fit(Absent) /\ Absent.pc = "absent"
  BY DEF Absent, Fit, Fields, Streams
<1>4. Living = {} /\ Streaming = {}
  BY <1>2, <1>3 DEF Living, Streaming
<1>5. LockIsAccountedFor
  BY <1>2, <1>3, LocalApiAssumption DEF LockIsAccountedFor, At, Init
<1>6. Handlers
  BY <1>2, <1>3 DEF Handlers, Init
<1>7. StopIsEarned
  BY <1>1 DEF StopIsEarned
<1>8. MaxStreams \in Nat /\ MaxConnections \in Nat
  BY LocalApiAssumption
<1>9. QED
  BY <1>1, <1>4, <1>5, <1>6, <1>7, <1>8, WithinEmpty DEF PoolInv

(* A step of one connection keeps the invariant.                           *)
LEMMA ConnKeepsPools ==
  ASSUME PoolInv, NEW c \in Conns, ConnStep(c)
  PROVE  PoolInv'
<1>1. PICK h : Moves(c, h) /\ LockStep(c, h) /\ StopStep(h)
  BY DEF ConnStep
<1>2. /\ conn' = [conn EXCEPT ![c] = h] /\ conn = [d \in Conns |-> conn[d]]
      /\ \A d \in Conns : Fit(conn[d])
      /\ Fit(h)
  BY <1>1 DEF Moves, PoolInv, Handlers
<1>3. /\ conn'[c] = h /\ \A d \in Conns \ {c} : conn'[d] = conn[d]
      /\ conn' = [d \in Conns |-> conn'[d]]
  BY <1>2
<1>4. Handlers'
  BY <1>2, <1>3 DEF Handlers
<1>5. MaxStreams \in Nat /\ MaxConnections \in Nat /\ Free \notin Conns
  BY LocalApiAssumption
<1>6. Within(Living, MaxConnections)'
  <2>1. CASE IsAlive(h) /\ ~IsAlive(conn[c])
    <3>1. Living' = Living \cup {c}
      BY <1>3, <2>1 DEF Living, IsAlive
    <3>2. Cardinality(Living) # MaxConnections
      BY <1>1, <1>5, <2>1, FS_CardinalityType DEF Moves, PoolInv, Within
    <3>3. QED
      BY <1>5, <3>1, <3>2, WithinAdd DEF PoolInv
  <2>2. CASE ~(IsAlive(h) /\ ~IsAlive(conn[c]))
    <3>1. Living' \subseteq Living
      BY <1>3, <2>2 DEF Living, IsAlive
    <3>2. QED
      BY <1>5, <3>1, WithinSubset DEF PoolInv
  <2>3. QED
    BY <2>1, <2>2
<1>7. Within(Streaming, MaxStreams)'
  <2>1. /\ Streaming = {d \in Conns : conn[d].permit}
        /\ Streaming' = {d \in Conns : conn'[d].permit}
    BY <1>2, <1>3 DEF Streaming, Living, Fit, Streams
  <2>2. CASE h.permit /\ ~conn[c].permit
    <3>1. Streaming' = Streaming \cup {c}
      BY <1>3, <2>1, <2>2
    <3>2. QED
      BY <1>1, <1>5, <2>2, <3>1, WithinAdd DEF PoolInv, Moves
  <2>3. CASE ~(h.permit /\ ~conn[c].permit)
    <3>1. Streaming' \subseteq Streaming
      BY <1>3, <2>1, <2>3
    <3>2. QED
      BY <1>5, <3>1, WithinSubset DEF PoolInv
  <2>4. QED
    BY <2>2, <2>3
<1>8. LockIsAccountedFor'
  <2>1. \A d \in Conns : (lock = d <=> Locked(conn[d])) /\ (lock' = d <=> Locked(conn'[d]))
    BY <1>1, <1>3, <1>5 DEF LockIsAccountedFor, LockStep, Locked, PoolInv
  <2>2. ASSUME NEW d \in Conns, conn'[d].pc = "asking"
        PROVE  conn'[d].gen = node'.dev /\ node'.dev # 0
    <3>1. CASE d = c
      BY <1>1, <1>3, <2>2, <3>1 DEF LockIsAccountedFor, LockStep, At, PoolInv
    <3>2. CASE d # c
      <4>1. conn[d].pc = "asking" /\ lock = d
        BY <1>3, <2>1, <2>2, <3>2 DEF Locked
      <4>2. node' = node
        BY <1>1, <3>2, <4>1 DEF LockStep
      <4>3. QED
        BY <1>3, <3>2, <4>1, <4>2 DEF LockIsAccountedFor, At, PoolInv
    <3>3. QED
      BY <3>1, <3>2
  <2>3. \A d \in Conns : conn'[d].pc = "asking" => conn'[d].req \in {"Logout", "Set"}
    BY <1>4 DEF Handlers, Fit
  <2>4. QED
    BY <2>1, <2>2, <2>3 DEF LockIsAccountedFor, Locked, At
<1>9. StopIsEarned'
  <2>1. server'.stop => \E d \in Conns : /\ conn'[d].pc = "closed"
                                         /\ conn'[d].reply = "stopping"
                                         /\ conn'[d].access = "ReadWrite"
    <3>1. CASE server.stop
      <4>1. PICK d \in Conns : /\ conn[d].pc = "closed" /\ conn[d].reply = "stopping"
                               /\ conn[d].access = "ReadWrite"
        BY <3>1 DEF PoolInv, StopIsEarned, At
      <4>2. d # c
        BY <1>1, <4>1 DEF Moves, At
      <4>3. QED
        BY <1>3, <4>1, <4>2
    <3>2. CASE ~server.stop
      BY <1>1, <1>2, <1>3, <3>2 DEF StopStep, Fit
    <3>3. QED
      BY <3>1, <3>2
  <2>2. QED
    BY <1>1, <2>1 DEF StopIsEarned, StopStep, PoolInv, At
<1>10. QED
  BY <1>1, <1>4, <1>6, <1>7, <1>8, <1>9 DEF PoolInv, StopStep

(* So do the accept loop's own steps, the abort of every handler included. *)
LEMMA ServerKeepsPools ==
  ASSUME PoolInv, Signalled \/ ServerStep \/ EngineMoves
  PROVE  PoolInv'
<1>0. /\ server \in Server /\ Handlers /\ LockIsAccountedFor /\ StopIsEarned
      /\ Within(Streaming, MaxStreams) /\ Within(Living, MaxConnections)
      /\ MaxStreams \in Nat /\ MaxConnections \in Nat /\ Free \notin Conns
  BY LocalApiAssumption DEF PoolInv
<1>1. /\ server' \in Server /\ server'.stop = server.stop
      /\ server.signal => server'.signal
      /\ server'.ended = "api" => server.stop
      /\ server'.ended = "signal" => server.signal
  BY <1>0 DEF Signalled, ServerStep, StopsAccepting, Drained, DrainTimesOut, Server,
              StopIsEarned, EngineMoves
<1>2. CASE Signalled \/ StopsAccepting \/ Drained \/ EngineMoves
  <2>1. conn' = conn /\ lock' = lock
    BY <1>2 DEF Signalled, StopsAccepting, Drained, EngineMoves
  <2>0. (node.dev # 0 => node'.dev = node.dev) \/ node' = node
    BY <1>2 DEF Signalled, StopsAccepting, Drained, EngineMoves
  <2>2. Living' = Living /\ Streaming' = Streaming
    BY <2>1 DEF Living, Streaming
  <2>3. Handlers' /\ LockIsAccountedFor'
    BY <1>0, <2>0, <2>1 DEF Handlers, LockIsAccountedFor, At
  <2>4. StopIsEarned'
    BY <1>0, <1>1, <2>1 DEF StopIsEarned, At
  <2>5. QED
    BY <1>0, <1>1, <2>2, <2>3, <2>4 DEF PoolInv
<1>3. CASE DrainTimesOut
  <2> DEFINE shut == [Absent EXCEPT !.pc = "closed"]
  <2>1. shut.pc = "closed" /\ Fit(shut)
    BY DEF Absent, Fit, Fields, Streams
  <2>2. lock' = Free /\ conn' = [d \in Conns |-> IF d \in Living THEN shut ELSE conn[d]]
    BY <1>3 DEF DrainTimesOut
  <2> HIDE DEF shut
  <2>3. \A d \in Conns : conn'[d] = IF d \in Living THEN shut ELSE conn[d]
    BY <2>2
  <2>4. Living' = {} /\ Streaming' = {}
    BY <2>1, <2>3 DEF Living, Streaming
  <2>5. Handlers'
    BY <1>0, <2>1, <2>2, <2>3 DEF Handlers
  <2>6. LockIsAccountedFor'
    BY <1>0, <2>1, <2>2, <2>3 DEF LockIsAccountedFor, Living, At
  <2>7. StopIsEarned'
    BY <1>0, <1>1, <2>3 DEF StopIsEarned, At, Living
  <2>8. QED
    BY <1>0, <1>1, <2>4, <2>5, <2>6, <2>7, WithinEmpty DEF PoolInv
<1>4. QED
  BY <1>2, <1>3 DEF ServerStep

LEMMA NextPool == PoolInv /\ [Next]_vars => PoolInv'
<1> SUFFICES ASSUME PoolInv, [Next]_vars PROVE PoolInv'
  OBVIOUS
<1>1. CASE UNCHANGED vars
  BY <1>1 DEF vars, PoolInv, Handlers, Within, Streaming, Living, LockIsAccountedFor, At, StopIsEarned
<1>2. CASE Signalled \/ ServerStep \/ EngineMoves
  BY <1>2, ServerKeepsPools
<1>3. CASE Next /\ ~(Signalled \/ ServerStep \/ EngineMoves)
  <2>1. \E c \in Conns : ConnStep(c)
    BY <1>3, ConnNext DEF Next, PoolInv
  <2>2. QED
    BY <2>1, ConnKeepsPools
<1>4. QED
  BY <1>1, <1>2, <1>3

LEMMA Pooled == Spec => []PoolInv
BY InitPool, NextPool, PTL DEF Spec

(* However connections come, ask and leave, streams hold at most their own *)
(* pool of permits, each with one (try_acquire_owned in handle_conn).      *)
THEOREM StreamsStayInTheirPool == Spec => []StreamsLeaveRoom
<1>1. PoolInv => StreamsLeaveRoom
  <2> SUFFICES ASSUME PoolInv PROVE StreamsLeaveRoom
    OBVIOUS
  <2>1. \A c \in Living : At(c, "streaming") => conn[c].permit
    BY DEF PoolInv, Handlers, Fit, At, Living
  <2>2. {c \in Living : At(c, "streaming")} \subseteq Streaming
    BY <2>1 DEF Streaming
  <2>3. Within({c \in Living : At(c, "streaming")}, MaxStreams)
    BY <2>2, WithinSubset, LocalApiAssumption DEF PoolInv
  <2>4. QED
    BY <2>1, <2>3 DEF StreamsLeaveRoom, Within
<1>2. QED
  BY <1>1, Pooled, PTL

(* The daemon stops by the LocalAPI only after a caller that may write was *)
(* told so, and the exit status names what ended the accept loop.          *)
THEOREM StopsAreEarned == Spec => []StopIsEarned
<1>1. PoolInv => StopIsEarned
  BY DEF PoolInv
<1>2. QED
  BY <1>1, Pooled, PTL

(* The backend's lock is held exactly by the handler that is in a locked   *)
(* section, and a handler that is aborted takes it with it.  Only logout   *)
(* and set keep it while they wait for the engine (Backend::logout,        *)
(* begin_set), and what they asked is then still the device that is up.    *)
THEOREM LockOnlyInSections == Spec => []LockIsAccountedFor
<1>1. PoolInv => LockIsAccountedFor
  BY DEF PoolInv
<1>2. QED
  BY <1>1, Pooled, PTL

(* The accept loop never runs more handlers than MAX_CONNECTIONS.          *)
THEOREM ConnectionsStayInTheirPool ==
  Spec => [](IsFiniteSet(Living) /\ Cardinality(Living) <= MaxConnections)
<1>1. PoolInv => IsFiniteSet(Living) /\ Cardinality(Living) <= MaxConnections
  BY DEF PoolInv, Within
<1>2. QED
  BY <1>1, Pooled, PTL
============================================================================
