------------------------------ MODULE LocalApi ------------------------------
(***************************************************************************)
(* The LocalAPI server (server.rs): the accept loop, its connections, the  *)
(* two pools of permits, the order in which a request's handler takes the  *)
(* backend's lock and calls the engine, and the two ways the server stops. *)
(*                                                                         *)
(* The backend is what the handlers' order can disturb: whether a device   *)
(* is up, which control server it was registered with, and the lock.  An   *)
(* engine call may take for ever.  A client may stop reading or hang up at *)
(* any moment.                                                             *)
(***************************************************************************)
EXTENDS Naturals, FiniteSets, Requests

CONSTANTS
  Conns,            \* the connections clients may open
  Requested,        \* the requests they send
  Uids,             \* who they are
  Urls,             \* control servers an `up` may name
  MaxConnections,
  MaxStreams,
  MaxRequests,      \* bound on the requests of one connection
  MaxGen,           \* bound on the bring-ups
  Free              \* nobody holds the lock

ASSUME LocalApiAssumption ==
  /\ Requested \subseteq AllRequests
  /\ {MaxConnections, MaxStreams, MaxRequests, MaxGen} \subseteq Nat \ {0}
  /\ Free \notin Conns

VARIABLES
  server,   \* the accept loop: where it is, its stop permit, what ended it
  conn,     \* the handlers and the clients' ends, by connection
  lock,     \* who holds the backend's lock
  node      \* the backend: its generation, the device that is up, its control server

vars == <<server, conn, lock, node>>

(* How a dispatch arm runs.  A brief one answers under the lock.           *)
Constant == {"Version", "SyspolicyList", "SyspolicyReload"}
Brief == {"Status", "GetPrefs", "ProfileList", "DebugStateDir", "CheckIpForwarding",
          "CheckPrefs", "GetServeConfig"}

(* These change the backend and hold the lock from beginning to end; what  *)
(* they wait for under it has a deadline, but for logout's deregistration. *)
Held == {"SetServeConfig", "SwitchProfile", "CreateProfile", "SwitchToEmptyProfile",
         "DeleteProfile", "Logout", "Down"}

(* These clone the engine's handle under the lock and call it without.     *)
EngineCalls ==
  {"Metrics", "LockStatus", "LockLog", "LockInit", "LockSign", "LockDisable",
   "DnsStatus", "DnsQuery", "Netcheck", "SuggestExitNode", "DebugRebind", "DebugReStun",
   "Services", "Cert", "Whois", "IdToken", "Ping", "DebugCapture", "Ip",
   "FileCp", "FileList", "FileTargets", "FileGet", "FileGetDir"}

(* These also take the lock again after the engine has answered.           *)
Relocks == {"BugReport", "SuggestExitNode"}

(* These lock, drive a device up without the lock, and lock again.         *)
Driven == {"Up", "Set", "ReloadConfig"}

Absent == [pc |-> "absent", access |-> "ReadOnly", req |-> "none", url |-> "none",
           force |-> FALSE, stage |-> "none", gen |-> 0, reply |-> "none",
           served |-> 0, permit |-> FALSE, peer |-> "reads"]

Init ==
  /\ server = [pc |-> "accepting", stop |-> FALSE, signal |-> FALSE, ended |-> "no"]
  /\ conn = [c \in Conns |-> Absent]
  /\ lock = Free
  /\ node = [gen |-> 0, dev |-> 0, running |-> FALSE,
             url |-> CHOOSE url \in Urls : TRUE]

Living == {c \in Conns : conn[c].pc \notin {"absent", "closed"}}
Streaming == {c \in Living : conn[c].permit}

At(c, pc) == conn[c].pc = pc
Goes(c, fields) == conn' = [conn EXCEPT ![c] = [f \in DOMAIN @ |->
                              IF f \in DOMAIN fields THEN fields[f] ELSE @[f]]]
Becomes(c, pc) == Goes(c, [pc |-> pc])

(* What a request held ends with its arm, and with it the stream permit.   *)
Drops(c, pc, reply) ==
  conn' = [conn EXCEPT ![c] = [Absent EXCEPT !.pc = pc, !.reply = reply,
                                 !.access = conn[c].access, !.served = conn[c].served,
                                 !.peer = conn[c].peer]]

(* The handler returns, and its permits are given back.                    *)
Closes(c) == conn' = [conn EXCEPT ![c] = [Absent EXCEPT !.pc = "closed"]]

(* accept: credentials are read once, and a connection over the cap is     *)
(* dropped.  No credentials are the credentials of a stranger.             *)
Accept(c, uid) ==
  /\ server.pc = "accepting"
  /\ At(c, "absent")
  /\ IF Cardinality(Living) < MaxConnections
       THEN Goes(c, [pc |-> "reading", access |-> access_for_uid(uid)])
       ELSE Becomes(c, "closed")
  /\ UNCHANGED <<server, lock, node>>

(* write_response is what an answer waits for.                             *)
Answers(c, reply) == Drops(c, "writing", reply)

(* Mutant of TakesOver: the cap is one too high.                           *)
TakesOverOneTooMany(c, request) ==
  IF authorized(request, conn[c].access) /\ Cardinality(Streaming) <= MaxStreams
    THEN Goes(c, [pc |-> "streaming", req |-> request, permit |-> TRUE])
    ELSE Answers(c, "error")

(* An Nc or a DebugPortmap that is refused leaves the connection usable; a *)
(* Watch over the cap does not.                                            *)
TakesOver(c, request) ==
  IF ~authorized(request, conn[c].access)
    THEN Answers(c, "error")
    ELSE IF Cardinality(Streaming) = MaxStreams
      THEN Answers(c, IF request = "Watch" THEN "last" ELSE "error")
      ELSE Goes(c, [pc |-> IF request = "Nc" THEN "locking" ELSE "streaming",
                    req |-> request, stage |-> "only", permit |-> TRUE])

(* The refusal ladder of shutdown: write access, then the system policy.   *)
shutdown_verdict(c, allowed_by_policy) ==
  IF authorized("Shutdown", conn[c].access) /\ allowed_by_policy
    THEN "stopping" ELSE "error"

(* dispatch asks who is asking before it takes the lock.                   *)
Dispatch(c, request) ==
  IF ~authorized(request, conn[c].access)
    THEN Answers(c, "error")
    ELSE IF request \in Constant
      THEN Answers(c, "ok")
      ELSE IF request = "Up"
        THEN \E url \in Urls, force, reset \in BOOLEAN :
               Goes(c, [pc |-> "locking", req |-> request, url |-> url, force |-> force,
                        stage |-> IF reset THEN "url guard" ELSE "revert guard"])
        ELSE Goes(c, [pc |-> "locking", req |-> request,
                      stage |-> IF request \in Driven THEN "begin" ELSE "only"])

(* One line is read.  A line that is no request is answered and the loop   *)
(* goes on; one that is too long is answered and ends it.                  *)
ReadLine(c) ==
  /\ At(c, "reading")
  /\ conn[c].peer = "reads"
  /\ conn[c].served < MaxRequests
  /\ \/ \E request \in Requested :
          IF request \in Streams THEN TakesOver(c, request)
          ELSE IF request = "Shutdown"
            THEN \E allowed \in BOOLEAN : Answers(c, shutdown_verdict(c, allowed))
            ELSE Dispatch(c, request)
     \/ \E reply \in {"error", "last"} : Answers(c, reply)
  /\ UNCHANGED <<server, lock, node>>

(* End of file ends the loop, as does a read that fails.                   *)
ReadsEof(c) ==
  /\ At(c, "reading")
  /\ conn[c].peer = "gone"
  /\ Closes(c)
  /\ UNCHANGED <<server, lock, node>>

(* Every answer is written within WRITE_TIMEOUT or the connection ends; a  *)
(* client that does not read may have room for it all the same.  Only a    *)
(* shutdown whose answer was written stops the daemon.                     *)
WriteResponse(c) ==
  /\ At(c, "writing")
  /\ conn[c].peer # "gone"
  /\ IF conn[c].reply = "last" THEN Closes(c)
     ELSE IF conn[c].reply = "stopping" THEN Becomes(c, "closed")
       ELSE Goes(c, [pc |-> IF conn[c].reply = "spliced" THEN "streaming" ELSE "reading",
                     reply |-> "none", served |-> conn[c].served + 1])
  /\ server' = [server EXCEPT !.stop = @ \/ conn[c].reply = "stopping"]
  /\ UNCHANGED <<lock, node>>

(* Mutant of WriteFails: the stop does not wait for the acknowledgement.   *)
WriteFailsAndStops(c) ==
  /\ At(c, "writing")
  /\ conn[c].peer # "reads"
  /\ Closes(c)
  /\ server' = [server EXCEPT !.stop = @ \/ conn[c].reply = "stopping"]
  /\ UNCHANGED <<lock, node>>

WriteFails(c) ==
  /\ At(c, "writing")
  /\ conn[c].peer # "reads"
  /\ Closes(c)
  /\ UNCHANGED <<server, lock, node>>

(* The backend's mutex.                                                    *)
TakesLock(c) ==
  /\ At(c, "locking")
  /\ lock = Free
  /\ lock' = c
  /\ Becomes(c, "holding")
  /\ UNCHANGED <<server, node>>

(* A part of an arm that runs under the lock, and releases it.             *)
Under(c, requests, stage) ==
  /\ At(c, "holding")
  /\ lock = c
  /\ conn[c].req \in requests
  /\ conn[c].stage = stage
  /\ lock' = Free
  /\ UNCHANGED server

AnswersBriefly(c) ==
  /\ Under(c, Brief \union Relocks, "only")
  /\ conn[c].req \in Brief \/ conn[c].gen > 0
  /\ Answers(c, "ok")
  /\ UNCHANGED node

(* down, logout and the switches stop the device; each may be refused, and *)
(* may fail when the device has been stopped already.                      *)
stops_device(request) == request \notin {"SetServeConfig", "DeleteProfile", "Set"}

TornDown == [node EXCEPT !.dev = 0, !.running = FALSE,
                         !.gen = IF @ < MaxGen THEN @ + 1 ELSE @]

ChangesBackend(c) ==
  /\ Under(c, Held, "only")
  /\ \/ Answers(c, "error") /\ UNCHANGED node
     \/ /\ conn[c].req = "Logout" => node.dev = 0
        /\ \E reply \in {"ok", "error"} : Answers(c, reply)
        /\ node' = IF stops_device(conn[c].req) THEN TornDown ELSE node

(* logout deregisters, and set applies what needs no new device, by asking *)
(* the engine and waiting for its answer with the lock in hand.            *)
AsksEngine(c) ==
  /\ At(c, "holding")
  /\ lock = c
  /\ <<conn[c].req, conn[c].stage>> \in {<<"Logout", "only">>, <<"Set", "begin">>}
  /\ node.dev # 0
  /\ Goes(c, [pc |-> "asking", gen |-> node.dev])
  /\ UNCHANGED <<server, lock, node>>

(* The answer, or an error: set reports it, logout goes on all the same.   *)
EngineHears(c) ==
  /\ At(c, "asking")
  /\ lock = c
  /\ lock' = Free
  /\ \E reply \in {"ok", "error"} : Answers(c, reply)
  /\ node' = IF stops_device(conn[c].req) THEN TornDown ELSE node
  /\ UNCHANGED server

(* The engine is authorised by somebody, or its key expires.  Until it     *)
(* runs it reads no mailbox, and what it was asked waits.                  *)
EngineMoves ==
  /\ node.dev # 0
  /\ node' = [gen |-> node.gen, dev |-> node.dev, running |-> ~node.running, url |-> node.url]
  /\ UNCHANGED <<server, conn, lock>>

(* Mutant of ClonesHandle: the lock is kept for the engine call.           *)
ClonesHandleLocked(c) ==
  /\ At(c, "holding")
  /\ lock = c
  /\ conn[c].req \in EngineCalls \union {"Nc", "BugReport"}
  /\ Goes(c, [pc |-> "calling", gen |-> node.dev])
  /\ UNCHANGED <<server, lock, node>>

(* The handle is cloned and the lock dropped before the engine is called.  *)
(* `ip` and the report of a bug have an answer without an engine.          *)
ClonesHandle(c) ==
  /\ Under(c, EngineCalls \union {"Nc", "BugReport"}, "only")
  /\ conn[c].gen = 0
  /\ IF node.dev = 0
       THEN Answers(c, IF conn[c].req \in {"Ip", "BugReport"} THEN "ok" ELSE "error")
       ELSE Goes(c, [pc |-> "calling", gen |-> node.dev])
  /\ UNCHANGED node

(* The engine answers, or the call's own deadline passes.                  *)
EngineAnswers(c) ==
  /\ At(c, "calling")
  /\ conn[c].stage = "only"
  /\ IF conn[c].req \in Relocks THEN Becomes(c, "locking")
     ELSE IF conn[c].req = "Nc"
       THEN Answers(c, "error") \/ Goes(c, [pc |-> "writing", reply |-> "spliced", gen |-> 0])
       ELSE Answers(c, "ok") \/ Answers(c, "error")
  /\ UNCHANGED <<server, lock, node>>

(* up: the accidental-revert guard reads the preferences.                  *)
RevertGuard(c) ==
  /\ Under(c, {"Up"}, "revert guard")
  /\ \/ Answers(c, "error")
     \/ Goes(c, [pc |-> "locking", stage |-> "url guard"])
  /\ UNCHANGED node

(* control_url::change_blocked                                             *)
change_blocked(c) == node.running /\ conn[c].url # node.url /\ ~conn[c].force

UrlGuard(c) ==
  /\ Under(c, {"Up"}, "url guard")
  /\ IF change_blocked(c) THEN Answers(c, "error")
                          ELSE Goes(c, [pc |-> "locking", stage |-> "begin"])
  /\ UNCHANGED node

(* begin_up, begin_set, reload_config: the preferences are written, the    *)
(* device is torn down, and the lock is dropped for the handshake.  A set  *)
(* that needs no new device, and a begin that fails, answer at once.       *)
Begins(c) ==
  /\ Under(c, Driven, "begin")
  /\ \/ /\ \E reply \in {"ok", "error"} : Answers(c, reply)
        /\ UNCHANGED node
     \/ /\ node.gen < MaxGen
        /\ conn[c].req = "Up" \/ node.dev # 0
        /\ node' = [gen |-> node.gen + 1, dev |-> 0, running |-> FALSE,
                    url |-> IF conn[c].req = "Up" THEN conn[c].url ELSE node.url]
        /\ Goes(c, [pc |-> "calling", stage |-> "finish", gen |-> node.gen + 1])

HandshakeEnds(c) ==
  /\ At(c, "calling")
  /\ conn[c].stage = "finish"
  /\ Becomes(c, "locking")
  /\ UNCHANGED <<server, lock, node>>

(* finish_up: the device is installed unless the attempt was superseded.   *)
Finishes(c) ==
  /\ Under(c, Driven, "finish")
  /\ \/ Answers(c, "error") /\ UNCHANGED node
     \/ /\ node.gen = conn[c].gen
        /\ \E running \in BOOLEAN :
             node' = [node EXCEPT !.dev = node.gen, !.running = running]
        /\ Answers(c, "ok")

(* A frame is written when the node moves, a line when the run logs one, a *)
(* byte when the overlay sends one: that is when a stream learns that its  *)
(* client is gone.                                                         *)
StreamWrites(c) ==
  /\ At(c, "streaming")
  /\ conn[c].peer # "reads"
  /\ Closes(c)
  /\ UNCHANGED <<server, lock, node>>

(* The run's deadline, the overlay's end of file.                          *)
StreamEnds(c) ==
  /\ At(c, "streaming")
  /\ conn[c].req # "Watch"
  /\ Closes(c)
  /\ UNCHANGED <<server, lock, node>>

(* The client.                                                             *)
PeerMoves(c) ==
  /\ c \in Living
  /\ conn[c].peer \in {"reads", "stalled"}
  /\ \/ conn[c].peer = "reads" /\ Goes(c, [peer |-> "stalled"])
     \/ Goes(c, [peer |-> "gone"])
  /\ UNCHANGED <<server, lock, node>>

(* SIGINT or SIGTERM.                                                      *)
Signalled ==
  /\ server.pc = "accepting"
  /\ ~server.signal
  /\ server' = [server EXCEPT !.signal = TRUE]
  /\ UNCHANGED <<conn, lock, node>>

StopsAccepting ==
  /\ server.pc = "accepting"
  /\ \/ server.signal /\ server' = [server EXCEPT !.pc = "draining", !.ended = "signal"]
     \/ server.stop /\ server' = [server EXCEPT !.pc = "draining", !.ended = "api"]
  /\ UNCHANGED <<conn, lock, node>>

Drained ==
  /\ server.pc = "draining"
  /\ Living = {}
  /\ server' = [server EXCEPT !.pc = "stopped"]
  /\ UNCHANGED <<conn, lock, node>>

(* DRAIN_TIMEOUT: the handlers that are left are aborted where they are,   *)
(* and what they held is released.                                         *)
DrainTimesOut ==
  /\ server.pc = "draining"
  /\ Living # {}
  /\ conn' = [c \in Conns |-> IF c \in Living THEN [Absent EXCEPT !.pc = "closed"]
                                               ELSE conn[c]]
  /\ lock' = Free
  /\ server' = [server EXCEPT !.pc = "stopped"]
  /\ UNCHANGED node

HandlerStep(c) ==
  \/ ReadsEof(c) \/ WriteResponse(c) \/ WriteFails(c)
  \/ AnswersBriefly(c) \/ ChangesBackend(c) \/ AsksEngine(c) \/ ClonesHandle(c)
  \/ RevertGuard(c) \/ UrlGuard(c) \/ Begins(c) \/ Finishes(c)

ServerStep == StopsAccepting \/ Drained \/ DrainTimesOut

Next ==
  \/ \E c \in Conns :
       \/ \E uid \in Uids : Accept(c, uid)
       \/ ReadLine(c) \/ TakesLock(c) \/ HandlerStep(c)
       \/ EngineAnswers(c) \/ EngineHears(c) \/ HandshakeEnds(c)
       \/ StreamWrites(c) \/ StreamEnds(c) \/ PeerMoves(c)
  \/ EngineMoves
  \/ Signalled
  \/ ServerStep

(* The runtime polls a handler that can move, and the mutex is a queue.    *)
(* Nothing is assumed of the engine, of streams or of clients.             *)
Spec ==
  /\ Init /\ [][Next]_vars
  /\ WF_vars(ServerStep)
  /\ \A c \in Conns : WF_vars(HandlerStep(c)) /\ SF_vars(TakesLock(c))
-----------------------------------------------------------------------------
TypeOK ==
  /\ server \in [pc : {"accepting", "draining", "stopped"}, stop : BOOLEAN,
                 signal : BOOLEAN, ended : {"no", "signal", "api"}]
  /\ \A c \in Conns :
       /\ conn[c].pc \in {"absent", "closed", "reading", "writing", "locking", "holding",
                          "calling", "asking", "streaming"}
       /\ conn[c].gen \in 0 .. MaxGen
       /\ conn[c].served \in 0 .. MaxRequests
       /\ conn[c].peer \in {"reads", "stalled", "gone"}
  /\ lock \in Conns \union {Free}
  /\ node.dev \in {0, node.gen} \/ node.dev \in 1 .. MaxGen

(* However many clients watch, splice or probe, and however they leave,    *)
(* streams never fill the general pool: short requests can still be        *)
(* accepted (server.rs MAX_STREAM_CONNECTIONS).                            *)
StreamsLeaveRoom ==
  /\ Cardinality({c \in Living : At(c, "streaming")}) <= MaxStreams
  /\ \A c \in Living : At(c, "streaming") => conn[c].permit

(* A stop that the LocalAPI asked for was acknowledged first, to a caller  *)
(* that may write; and the exit status names what really ended the loop,   *)
(* since the service manager restarts on one and not on the other          *)
(* (server.rs handle_conn Shutdown, StoppedByLocalApi).                    *)
StopIsEarned ==
  /\ server.stop => \E c \in Conns : /\ At(c, "closed")
                                     /\ conn[c].reply = "stopping"
                                     /\ conn[c].access = "ReadWrite"
  /\ server.ended = "api" => server.stop
  /\ server.ended = "signal" => server.signal

(* The lock is held by whoever is in a locked section and by nobody else:  *)
(* never across a handshake, a transfer, a write or a stream.  The engine  *)
(* is waited for under it by logout and set alone, and the device they     *)
(* asked is still the one that is up when the answer comes: no down, up or *)
(* switch comes in between (Backend::logout, Backend::begin_set,           *)
(* device_handle).                                                         *)
LockIsAccountedFor == \A c \in Conns :
  /\ lock = c <=> conn[c].pc \in {"holding", "asking"}
  /\ At(c, "asking") => /\ conn[c].req \in {"Logout", "Set"}
                        /\ conn[c].gen = node.dev
                        /\ node.dev # 0

(* A handler that waits for the backend's lock gets it, whatever handshake,*)
(* transfer, probe or stalled client the others are waiting for, provided  *)
(* that the engine answers each logout and live set that keeps the lock    *)
(* while it asks, which have no deadline (server.rs dispatch,              *)
(* Backend::logout, begin_set).                                            *)
LockIsNeverStuck ==
  (\A d \in Conns : []<>~At(d, "asking"))
     => \A c \in Conns : At(c, "locking") ~> ~At(c, "locking")

=============================================================================
