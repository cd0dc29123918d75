------------------------------ MODULE Scripts -------------------------------
(***************************************************************************)
(* What one invocation of the command-line client does, as a sequence of   *)
(* steps.  A step asks the daemon, refuses, returns, has an effect on the  *)
(* host, or asks the user; its conditions are facts: what the arguments,   *)
(* the host or an earlier answer turn out to say.  How an answer is        *)
(* rendered is left out.                                                   *)
(***************************************************************************)
EXTENDS Sequences

Step(op, arg) == <<[op |-> op, arg |-> arg, when |-> {}]>>

(* One round trip.  Any reply but the expected one, and no reply, ends the *)
(* invocation with a failure.                                              *)
Ask(request) == Step("ask", request)

(* A round trip whose failure the invocation survives.                     *)
Try(request) == Step("try", request)

(* A round trip whose refusal the invocation survives, but not its loss.   *)
Tolerate(request) == Step("tolerate", request)

(* A round trip read to the end of the connection.  A connection that ends *)
(* is the end of the stream, before its first frame too, and a frame of    *)
(* another kind is passed over; only an error is a failure.                *)
Frames(request) == Step("stream", request)

(* A refusal, with a failing status, that is the client's own: of what it  *)
(* was given, or of what it was told.                                      *)
Refuse(fact) == Step("refuse", fact)

(* Nothing more to do.                                                     *)
Return(fact) == Step("return", fact)

(* What was asked for cannot be had: the daemon or the host says so.       *)
FailIf(fact) == Step("fail", fact)

Stream(request) == Frames(request) \o FailIf("a later frame is an error")

(* Something outside the daemon: a file, a listener, a process.            *)
Effect(effect) == Step("effect", effect)

(* The user is asked, and no answer is a no.                               *)
Confirm(risk) == Step("confirm", risk)

(* The steps of a script, under a condition.                               *)
Guarded(script, guard) ==
  [i \in DOMAIN script |-> [script[i] EXCEPT !.when = @ \union {guard}]]

When(fact, script) == Guarded(script, <<fact, TRUE>>)
Unless(fact, script) == Guarded(script, <<fact, FALSE>>)

(* The body, and again for as long as the fact holds.                      *)
Repeat(fact, body) ==
  body \o <<[op |-> "again", arg |-> fact, when |-> {}, back |-> Len(body)]>>
=============================================================================
