----------------------------- MODULE TnetProofs -----------------------------
(***************************************************************************)
(* Proofs about Tnet for any subcommands invoked, any number of rounds and *)
(* of deaths of the daemon.  First an algebra of scripts: what holds of a  *)
(* step, of two scripts in a row, of a guarded script, of a loop and of a  *)
(* block that ends the invocation.  Then what every script has, and last   *)
(* that an invocation keeps to its script.                                 *)
(***************************************************************************)
EXTENDS Tnet, SequenceTheorems, TLAPS

Ops == {"ask", "try", "tolerate", "stream", "refuse", "return", "fail", "effect", "confirm"}

(* A step has its operation, its argument and its conditions; a loop's end *)
(* also says how far it goes back.                                         *)
IsStep(step) ==
  /\ {"op", "arg", "when"} \subseteq DOMAIN step
  /\ step.op \in Ops \/ (step.op = "again" /\ "back" \in DOMAIN step /\ step.back \in Nat)

IsSeq(s) == s \in Seq({s[i] : i \in DOMAIN s})

(* The steps that the loop ending at m goes round.                         *)
Body(s, m) == m - s[m].back .. m

(* Loops stay inside the script, and one inside another goes back no       *)
(* further than the other.                                                 *)
WellFormed(s) ==
  /\ IsSeq(s)
  /\ \A i \in 1 .. Len(s) : IsStep(s[i])
  /\ \A m \in 1 .. Len(s) : s[m].op = "again" =>
       /\ s[m].back < m
       /\ \A n \in 1 .. Len(s) :
            s[n].op = "again" /\ m \in Body(s, n) => n - s[n].back <= m - s[m].back

(* Kinds of steps, by their operation and argument.                        *)
RoundTrips == {"ask", "try", "tolerate", "stream"}
CertHalves == {"cert temp", "cert renamed"}
Kind(kind, op, arg) ==
  \/ kind = "writing" /\ op \in RoundTrips /\ requires_write(arg)
  \/ kind = "touching" /\ (op = "effect" \/ (op \in RoundTrips /\ requires_write(arg)))
  \/ kind = "refusing" /\ op \in {"refuse", "confirm"}
  \/ kind = "returning" /\ op = "return"
  \/ kind = "keying" /\ op = "effect" /\ arg \notin CertHalves
  \/ kind = "writing else" /\ op \in RoundTrips /\ requires_write(arg) /\ arg # "Cert"
  \/ kind = "showing" /\ op = "effect" /\ arg = "secret shown"
  \/ kind = "in the profile" /\ op \in RoundTrips /\ requires_write(arg)
       /\ arg # "SwitchToEmptyProfile"
Is(kind, step) == Kind(kind, step.op, step.arg)

Lacks(s, A) == \A i \in 1 .. Len(s) : ~Is(A, s[i])

(* A step whose conditions contradict each other is never taken.           *)
Void(step) == \E guard \in step.when : guard[2] = TRUE /\ <<guard[1], FALSE>> \in step.when

Barren(s, B) == \A i \in 1 .. Len(s) : Is(B, s[i]) => Void(s[i])

(* An end of the invocation that no run which met the conditions w gets    *)
(* past, the facts F being settled from the start.                         *)
IsEnd(step) == step.op = "return" /\ step.arg = "always"
Closes(step, w, F) ==
  /\ IsEnd(step)
  /\ step.when \subseteq w
  /\ \A guard \in step.when : guard[1] \in F

(* No step of kind B is taken after one of kind A.                         *)
Apart(s, A, B, F) ==
  \A i, j \in 1 .. Len(s) :
    i < j /\ Is(A, s[i]) /\ Is(B, s[j]) =>
      Void(s[j]) \/ \E k \in 1 .. Len(s) : i < k /\ k < j /\ Closes(s[k], s[i].when, F)

(* No loop takes a step of kind B.                                         *)
Steady(s, B) ==
  \A m \in 1 .. Len(s) : s[m].op = "again" =>
    \A j \in Body(s, m) : Is(B, s[j]) => Void(s[j])

(* A round trip that every run which gets past it has had answered.        *)
IsAsk(step, request) == step.op = "ask" /\ step.arg = request /\ step.when = {}
Includes(s, request) == \E i \in 1 .. Len(s) : IsAsk(s[i], request)
Leads(s, request, B) ==
  \A j \in 1 .. Len(s) : Is(B, s[j]) =>
    \E i \in 1 .. Len(s) : i < j /\ IsAsk(s[i], request)

(* A return that is not taken where the conditions w hold: they contradict *)
(* one of its own, or what it is about.                                    *)
Belies(step, w) ==
  \E fact :
    \/ <<fact, FALSE>> \in w /\ (step.arg = fact \/ <<fact, TRUE>> \in step.when)
    \/ <<fact, TRUE>> \in w /\ <<fact, FALSE>> \in step.when
Mute(s, w) ==
  WellFormed(s) /\ \A j \in 1 .. Len(s) : s[j].op = "return" => Belies(s[j], w)

(* A round trip that every run which gets past it has had answered where   *)
(* the conditions w on settled facts hold; and no success without it.      *)
Answering(step, w, request, F) ==
  /\ step.op = "ask" /\ step.arg = request
  /\ \A guard \in step.when : guard \in w /\ guard[1] \in F
Answers(s, w, request, F) ==
  /\ WellFormed(s)
  /\ \E i \in 1 .. Len(s) : Answering(s[i], w, request, F)
  /\ \A j \in 1 .. Len(s) : s[j].op = "return" =>
       Belies(s[j], w) \/ \E i \in 1 .. Len(s) : i < j /\ Answering(s[i], w, request, F)

(* Steps of kind B are only taken where the condition holds.               *)
Under(s, B, guard) == \A j \in 1 .. Len(s) : Is(B, s[j]) => guard \in s[j].when
-----------------------------------------------------------------------------
(* One step.                                                               *)

LEMMA StepShape ==
  ASSUME NEW op \in Ops, NEW arg
  PROVE  /\ WellFormed(Step(op, arg))
         /\ Len(Step(op, arg)) = 1
         /\ Step(op, arg)[1] = [op |-> op, arg |-> arg, when |-> {}]
<1> DEFINE s == Step(op, arg)
<1>1. Len(s) = 1 /\ DOMAIN s = {1} /\ s[1] = [op |-> op, arg |-> arg, when |-> {}]
  BY DEF Step
<1>2. IsSeq(s)
  BY <1>1 DEF Step, IsSeq
<1>3. IsStep(s[1])
  BY <1>1 DEF IsStep
<1>4. s[1].op # "again"
  BY <1>1 DEF Ops
<1> HIDE DEF s
<1>5. WellFormed(s)
  BY <1>1, <1>2, <1>3, <1>4 DEF WellFormed
<1> QED
  BY <1>1, <1>5 DEF s

LEMMA StepFacts ==
  ASSUME NEW op \in Ops, NEW arg, NEW A, NEW B, NEW F
  PROVE  /\ WellFormed(Step(op, arg))
         /\ Lacks(Step(op, arg), A) <=> ~Kind(A, op, arg)
         /\ Apart(Step(op, arg), A, B, F)
         /\ Steady(Step(op, arg), B)
<1>1. /\ WellFormed(Step(op, arg)) /\ Len(Step(op, arg)) = 1
      /\ Step(op, arg)[1] = [op |-> op, arg |-> arg, when |-> {}]
  BY StepShape
<1>2. Lacks(Step(op, arg), A) <=> ~Kind(A, op, arg)
  BY <1>1 DEF Lacks, Is
<1>3. Apart(Step(op, arg), A, B, F)
  BY <1>1 DEF Apart
<1>4. Steady(Step(op, arg), B)
  BY <1>1 DEF Steady, Ops
<1> QED
  BY <1>1, <1>2, <1>3, <1>4

-----------------------------------------------------------------------------
(* Two scripts in a row.                                                   *)

LEMMA OverAnySet ==
  ASSUME NEW S, NEW s \in Seq(S)
  PROVE  IsSeq(s)
<1> DEFINE T == {s[i] : i \in DOMAIN s}
<1>1. DOMAIN s = 1 .. Len(s) /\ Len(s) \in Nat /\ s \in [1 .. Len(s) -> S]
  BY LenProperties
<1>2. s \in [1 .. Len(s) -> T]
  BY <1>1
<1> HIDE DEF T
<1>3. s \in Seq(T)
  BY <1>1, <1>2
<1> QED
  BY <1>3 DEF IsSeq, T

Joined(u, s, t) ==
  /\ Len(s) \in Nat /\ Len(t) \in Nat
  /\ Len(u) = Len(s) + Len(t)
  /\ \A i \in 1 .. Len(s) : u[i] = s[i]
  /\ \A i \in 1 .. Len(t) : u[Len(s) + i] = t[i]
  /\ \A i \in 1 .. Len(u) : i \in 1 .. Len(s) \/ \E j \in 1 .. Len(t) : i = Len(s) + j

LEMMA CatShape ==
  ASSUME NEW s, NEW t, WellFormed(s), WellFormed(t)
  PROVE  Joined(s \o t, s, t) /\ IsSeq(s \o t)
<1> DEFINE S == {s[i] : i \in DOMAIN s} \union {t[i] : i \in DOMAIN t}
<1>1. s \in Seq(S) /\ t \in Seq(S)
  <2>1. s \in Seq({s[i] : i \in DOMAIN s}) /\ t \in Seq({t[i] : i \in DOMAIN t})
    BY DEF WellFormed, IsSeq
  <2>2. {s[i] : i \in DOMAIN s} \subseteq S /\ {t[i] : i \in DOMAIN t} \subseteq S
    OBVIOUS
  <2> HIDE DEF S
  <2> QED
    BY <2>1, <2>2, SeqMonotonic
<1> HIDE DEF S
<1>2. /\ s \o t \in Seq(S)
      /\ Len(s \o t) = Len(s) + Len(t)
      /\ \A i \in 1 .. Len(s) + Len(t) : (s \o t)[i] =
                     IF i <= Len(s) THEN s[i] ELSE t[i - Len(s)]
  BY <1>1, ConcatProperties
<1>3. Len(s) \in Nat /\ Len(t) \in Nat
  BY <1>1, LenProperties
<1>4. ASSUME NEW i \in 1 .. Len(s \o t)
      PROVE  i \in 1 .. Len(s) \/ \E j \in 1 .. Len(t) : i = Len(s) + j
  <2>1. CASE i <= Len(s)
    BY <1>3, <2>1
  <2>2. CASE i > Len(s)
    <3>1. i - Len(s) \in 1 .. Len(t) /\ i = Len(s) + (i - Len(s))
      BY <1>2, <1>3, <2>2
    <3> QED
      BY <3>1
  <2> QED
    BY <2>1, <2>2, <1>2, <1>3
<1>5. ASSUME NEW i \in 1 .. Len(t) PROVE (s \o t)[Len(s) + i] = t[i]
  <2>1. Len(s) + i \in 1 .. Len(s) + Len(t) /\ ~(Len(s) + i <= Len(s)) /\ (Len(s) + i) - Len(s) = i
    BY <1>3
  <2> QED
    BY <1>2, <2>1
<1>6. \A i \in 1 .. Len(s) : (s \o t)[i] = s[i]
  BY <1>2, <1>3
<1>7. IsSeq(s \o t)
  BY <1>2, OverAnySet
<1> QED
  BY <1>2, <1>3, <1>4, <1>5, <1>6, <1>7 DEF Joined

LEMMA LoopBack ==
  ASSUME NEW s, WellFormed(s), NEW m \in 1 .. Len(s), s[m].op = "again"
  PROVE  s[m].back \in Nat /\ s[m].back < m
<1>1. IsStep(s[m])
  BY DEF WellFormed
<1> QED
  BY <1>1 DEF WellFormed, IsStep, Ops

LEMMA CatWellFormed ==
  ASSUME NEW s, NEW t, WellFormed(s), WellFormed(t)
  PROVE  WellFormed(s \o t)
<1> DEFINE u == s \o t
<1>0. Joined(u, s, t) /\ IsSeq(u)
  BY CatShape
<1> HIDE DEF u
<1>1. /\ Len(s) \in Nat /\ Len(t) \in Nat
      /\ Len(u) = Len(s) + Len(t)
      /\ \A i \in 1 .. Len(s) : u[i] = s[i]
      /\ \A i \in 1 .. Len(t) : u[Len(s) + i] = t[i]
      /\ \A i \in 1 .. Len(u) : i \in 1 .. Len(s) \/ \E j \in 1 .. Len(t) : i = Len(s) + j
  BY <1>0 DEF Joined
<1>2. SUFFICES ASSUME NEW m \in 1 .. Len(u), u[m].op = "again"
               PROVE  /\ u[m].back < m
                      /\ \A n \in 1 .. Len(u) :
                           u[n].op = "again" /\ m \in Body(u, n) => n - u[n].back <= m - u[m].back
  <2>1. \A i \in 1 .. Len(u) : IsStep(u[i])
    BY <1>1 DEF WellFormed
  <2> QED
    BY <1>0, <2>1 DEF WellFormed, u
<1>3. CASE m \in 1 .. Len(s)
  <2>1. s[m].op = "again" /\ s[m].back \in Nat /\ s[m].back < m /\ u[m] = s[m]
    BY <1>1, <1>2, <1>3, LoopBack
  <2>2. ASSUME NEW n \in 1 .. Len(u), u[n].op = "again", m \in Body(u, n)
        PROVE  n - u[n].back <= m - u[m].back
    <3>1. CASE n \in 1 .. Len(s)
      BY <1>1, <1>3, <2>1, <2>2, <3>1 DEF WellFormed, Body
    <3>2. ASSUME NEW j \in 1 .. Len(t), n = Len(s) + j PROVE FALSE
      <4>1. u[n] = t[j] /\ t[j].back \in Nat /\ t[j].back < j
        BY <1>1, <2>2, <3>2, LoopBack
      <4> QED
        BY <1>1, <1>3, <2>2, <3>2, <4>1 DEF Body
    <3> QED
      BY <1>1, <3>1, <3>2
  <2> QED
    BY <2>1, <2>2
<1>4. ASSUME NEW k \in 1 .. Len(t), m = Len(s) + k
      PROVE  /\ u[m].back < m
             /\ \A n \in 1 .. Len(u) :
                  u[n].op = "again" /\ m \in Body(u, n) => n - u[n].back <= m - u[m].back
  <2>1. u[m] = t[k] /\ t[k].op = "again" /\ t[k].back \in Nat /\ t[k].back < k
    BY <1>1, <1>2, <1>4, LoopBack
  <2>2. ASSUME NEW n \in 1 .. Len(u), u[n].op = "again", m \in Body(u, n)
        PROVE  n - u[n].back <= m - u[m].back
    <3>1. n \in 1 .. Len(s) => u[n] = s[n] /\ s[n].back \in Nat
      BY <1>1, <2>2, LoopBack
    <3>2. n \notin 1 .. Len(s)
      BY <1>1, <1>4, <2>2, <3>1 DEF Body
    <3>3. PICK j \in 1 .. Len(t) : n = Len(s) + j
      BY <1>1, <3>2
    <3>4. u[n] = t[j] /\ t[j].op = "again" /\ t[j].back \in Nat /\ t[j].back < j
      BY <1>1, <2>2, <3>3, LoopBack
    <3>5. k \in Body(t, j)
      BY <1>1, <1>4, <2>2, <3>3, <3>4 DEF Body
    <3>6. j - t[j].back <= k - t[k].back
      BY <2>1, <3>4, <3>5 DEF WellFormed
    <3>7. n - t[j].back <= m - t[k].back
      <4>1. \A a, b, c, d, e, x, y \in Int :
              a - b <= c - d /\ x = e + a /\ y = e + c => x - b <= y - d
        OBVIOUS
      <4>2. /\ j \in Int /\ k \in Int /\ t[j].back \in Int /\ t[k].back \in Int /\ Len(s) \in Int
            /\ n \in Int /\ m \in Int
        BY <1>1, <2>1, <3>4
      <4> QED
        BY <1>4, <3>3, <3>6, <4>1, <4>2
    <3>8. u[n].back = t[j].back /\ u[m].back = t[k].back
      BY <2>1, <3>4
    <3> QED
      BY <3>7, <3>8
  <2> QED
    BY <1>1, <1>4, <2>1, <2>2
<1> QED
  BY <1>1, <1>3, <1>4

LEMMA CatLacks ==
  ASSUME NEW s, NEW t, WellFormed(s), WellFormed(t), NEW A
  PROVE  Lacks(s \o t, A) <=> Lacks(s, A) /\ Lacks(t, A)
<1> DEFINE u == s \o t
<1>0. Joined(u, s, t) /\ IsSeq(u)
  BY CatShape
<1> HIDE DEF u
<1>1. /\ Len(s) \in Nat /\ Len(t) \in Nat
      /\ Len(u) = Len(s) + Len(t)
      /\ \A i \in 1 .. Len(s) : u[i] = s[i]
      /\ \A i \in 1 .. Len(t) : u[Len(s) + i] = t[i]
      /\ \A i \in 1 .. Len(u) : i \in 1 .. Len(s) \/ \E j \in 1 .. Len(t) : i = Len(s) + j
  BY <1>0 DEF Joined
<1>2. ASSUME Lacks(u, A) PROVE Lacks(s, A) /\ Lacks(t, A)
  <2>1. \A i \in 1 .. Len(s) : i \in 1 .. Len(u)
    BY <1>1
  <2>2. \A i \in 1 .. Len(t) : Len(s) + i \in 1 .. Len(u)
    BY <1>1
  <2> QED
    BY <1>1, <1>2, <2>1, <2>2 DEF Lacks
<1>3. ASSUME Lacks(s, A), Lacks(t, A) PROVE Lacks(u, A)
  BY <1>1, <1>3 DEF Lacks
<1> QED
  BY <1>2, <1>3 DEF u

LEMMA CatBarren ==
  ASSUME NEW s, NEW t, WellFormed(s), WellFormed(t), NEW B, Barren(s, B), Barren(t, B)
  PROVE  Barren(s \o t, B)
<1> DEFINE u == s \o t
<1>0. Joined(u, s, t) /\ IsSeq(u)
  BY CatShape
<1> HIDE DEF u
<1> QED
  BY <1>0 DEF Joined, Barren, u

LEMMA CatSteady ==
  ASSUME NEW s, NEW t, WellFormed(s), WellFormed(t), NEW B, Steady(s, B), Steady(t, B)
  PROVE  Steady(s \o t, B)
<1> DEFINE u == s \o t
<1>0. Joined(u, s, t) /\ IsSeq(u)
  BY CatShape
<1> HIDE DEF u
<1>1. /\ Len(s) \in Nat /\ Len(t) \in Nat
      /\ Len(u) = Len(s) + Len(t)
      /\ \A i \in 1 .. Len(s) : u[i] = s[i]
      /\ \A i \in 1 .. Len(t) : u[Len(s) + i] = t[i]
      /\ \A i \in 1 .. Len(u) : i \in 1 .. Len(s) \/ \E j \in 1 .. Len(t) : i = Len(s) + j
  BY <1>0 DEF Joined
<1>2. SUFFICES ASSUME NEW m \in 1 .. Len(u), u[m].op = "again",
                      NEW j \in Body(u, m), Is(B, u[j])
               PROVE  Void(u[j])
  BY DEF Steady, u
<1>3. CASE m \in 1 .. Len(s)
  <2>1. u[m] = s[m] /\ s[m].back \in Nat /\ s[m].back < m
    BY <1>1, <1>2, <1>3, LoopBack
  <2>2. j \in 1 .. Len(s) /\ j \in Body(s, m)
    BY <1>1, <1>2, <1>3, <2>1 DEF Body
  <2> QED
    BY <1>1, <1>2, <1>3, <2>1, <2>2 DEF Steady
<1>4. ASSUME NEW k \in 1 .. Len(t), m = Len(s) + k PROVE Void(u[j])
  <2>1. u[m] = t[k] /\ t[k].back \in Nat /\ t[k].back < k
    BY <1>1, <1>2, <1>4, LoopBack
  <2>2. j - Len(s) \in 1 .. Len(t) /\ j - Len(s) \in Body(t, k) /\ j = Len(s) + (j - Len(s))
    BY <1>1, <1>2, <1>4, <2>1 DEF Body
  <2>3. u[j] = t[j - Len(s)]
    BY <1>1, <2>2
  <2> QED
    BY <1>2, <2>1, <2>2, <2>3 DEF Steady
<1> QED
  BY <1>1, <1>3, <1>4

LEMMA CatApart ==
  ASSUME NEW s, NEW t, WellFormed(s), WellFormed(t), NEW A, NEW B, NEW F,
         Apart(s, A, B, F), Barren(t, B)
  PROVE  Apart(s \o t, A, B, F)
<1> DEFINE u == s \o t
<1>0. Joined(u, s, t) /\ IsSeq(u)
  BY CatShape
<1> HIDE DEF u
<1>1. /\ Len(s) \in Nat /\ Len(t) \in Nat
      /\ Len(u) = Len(s) + Len(t)
      /\ \A i \in 1 .. Len(s) : u[i] = s[i]
      /\ \A i \in 1 .. Len(t) : u[Len(s) + i] = t[i]
      /\ \A i \in 1 .. Len(u) : i \in 1 .. Len(s) \/ \E j \in 1 .. Len(t) : i = Len(s) + j
  BY <1>0 DEF Joined
<1>2. SUFFICES ASSUME NEW i \in 1 .. Len(u), NEW j \in 1 .. Len(u), i < j,
                      Is(A, u[i]), Is(B, u[j]), ~Void(u[j])
               PROVE  \E k \in 1 .. Len(u) : i < k /\ k < j /\ Closes(u[k], u[i].when, F)
  BY DEF Apart, u
<1>3. CASE j \in 1 .. Len(s)
  <2>1. i \in 1 .. Len(s) /\ u[i] = s[i] /\ u[j] = s[j]
    BY <1>1, <1>2, <1>3
  <2>2. PICK k \in 1 .. Len(s) : i < k /\ k < j /\ Closes(s[k], s[i].when, F)
    BY <1>2, <1>3, <2>1 DEF Apart
  <2>3. k \in 1 .. Len(u) /\ u[k] = s[k]
    BY <1>1
  <2> QED
    BY <2>1, <2>2, <2>3
<1>4. ASSUME NEW m \in 1 .. Len(t), j = Len(s) + m PROVE FALSE
  BY <1>1, <1>2, <1>4 DEF Barren
<1> QED
  BY <1>1, <1>3, <1>4

(* No run that took a step of kind A gets to the end of the script.        *)
Gated(s, A, F) ==
  \A i \in 1 .. Len(s) : Is(A, s[i]) =>
    \E k \in 1 .. Len(s) : i < k /\ Closes(s[k], s[i].when, F)

LEMMA CatGated ==
  ASSUME NEW s, NEW t, WellFormed(s), WellFormed(t), NEW A, NEW F,
         Gated(s, A, F), Gated(t, A, F)
  PROVE  Gated(s \o t, A, F)
<1> DEFINE u == s \o t
<1>0. Joined(u, s, t) /\ IsSeq(u)
  BY CatShape
<1> HIDE DEF u
<1>1. /\ Len(s) \in Nat /\ Len(t) \in Nat
      /\ Len(u) = Len(s) + Len(t)
      /\ \A i \in 1 .. Len(s) : u[i] = s[i]
      /\ \A i \in 1 .. Len(t) : u[Len(s) + i] = t[i]
      /\ \A i \in 1 .. Len(u) : i \in 1 .. Len(s) \/ \E j \in 1 .. Len(t) : i = Len(s) + j
  BY <1>0 DEF Joined
<1>2. SUFFICES ASSUME NEW i \in 1 .. Len(u), Is(A, u[i])
               PROVE  \E k \in 1 .. Len(u) : i < k /\ Closes(u[k], u[i].when, F)
  BY DEF Gated, u
<1>3. CASE i \in 1 .. Len(s)
  <2>1. PICK k \in 1 .. Len(s) : i < k /\ Closes(s[k], s[i].when, F)
    BY <1>1, <1>2, <1>3 DEF Gated
  <2>2. k \in 1 .. Len(u) /\ u[k] = s[k] /\ u[i] = s[i]
    BY <1>1, <1>3
  <2> QED
    BY <2>1, <2>2
<1>4. ASSUME NEW m \in 1 .. Len(t), i = Len(s) + m
      PROVE  \E k \in 1 .. Len(u) : i < k /\ Closes(u[k], u[i].when, F)
  <2>1. u[i] = t[m]
    BY <1>1, <1>4
  <2>2. PICK k \in 1 .. Len(t) : m < k /\ Closes(t[k], t[m].when, F)
    BY <1>2, <2>1 DEF Gated
  <2>3. Len(s) + k \in 1 .. Len(u) /\ u[Len(s) + k] = t[k] /\ i < Len(s) + k
    BY <1>1, <1>4, <2>2
  <2> QED
    BY <2>1, <2>2, <2>3
<1> QED
  BY <1>1, <1>3, <1>4

LEMMA GatedApart ==
  ASSUME NEW s, NEW t, WellFormed(s), WellFormed(t), NEW A, NEW B, NEW F,
         Apart(s, A, B, F), Apart(t, A, B, F), Gated(s, A, F)
  PROVE  Apart(s \o t, A, B, F)
<1> DEFINE u == s \o t
<1>0. Joined(u, s, t) /\ IsSeq(u)
  BY CatShape
<1> HIDE DEF u
<1>1. /\ Len(s) \in Nat /\ Len(t) \in Nat
      /\ Len(u) = Len(s) + Len(t)
      /\ \A i \in 1 .. Len(s) : u[i] = s[i]
      /\ \A i \in 1 .. Len(t) : u[Len(s) + i] = t[i]
      /\ \A i \in 1 .. Len(u) : i \in 1 .. Len(s) \/ \E j \in 1 .. Len(t) : i = Len(s) + j
  BY <1>0 DEF Joined
<1>2. SUFFICES ASSUME NEW i \in 1 .. Len(u), NEW j \in 1 .. Len(u), i < j,
                      Is(A, u[i]), Is(B, u[j]), ~Void(u[j])
               PROVE  \E k \in 1 .. Len(u) : i < k /\ k < j /\ Closes(u[k], u[i].when, F)
  BY DEF Apart, u
<1>3. CASE j \in 1 .. Len(s)
  <2>1. i \in 1 .. Len(s) /\ u[i] = s[i] /\ u[j] = s[j]
    BY <1>1, <1>2, <1>3
  <2>2. PICK k \in 1 .. Len(s) : i < k /\ k < j /\ Closes(s[k], s[i].when, F)
    BY <1>2, <1>3, <2>1 DEF Apart
  <2>3. k \in 1 .. Len(u) /\ u[k] = s[k]
    BY <1>1
  <2> QED
    BY <2>1, <2>2, <2>3
<1>4. ASSUME NEW m \in 1 .. Len(t), j = Len(s) + m
      PROVE  \E k \in 1 .. Len(u) : i < k /\ k < j /\ Closes(u[k], u[i].when, F)
  <2>1. u[j] = t[m]
    BY <1>1, <1>4
  <2>2. CASE i \in 1 .. Len(s)
    <3>1. PICK k \in 1 .. Len(s) : i < k /\ Closes(s[k], s[i].when, F)
      BY <1>1, <1>2, <2>2 DEF Gated
    <3>2. k \in 1 .. Len(u) /\ k < j /\ u[k] = s[k] /\ u[i] = s[i]
      BY <1>1, <1>4, <2>2
    <3> QED
      BY <3>1, <3>2
  <2>3. ASSUME NEW n \in 1 .. Len(t), i = Len(s) + n
        PROVE  \E k \in 1 .. Len(u) : i < k /\ k < j /\ Closes(u[k], u[i].when, F)
    <3>1. u[i] = t[n] /\ n < m
      BY <1>1, <1>2, <1>4, <2>3
    <3>2. PICK k \in 1 .. Len(t) : n < k /\ k < m /\ Closes(t[k], t[n].when, F)
      BY <1>2, <2>1, <3>1 DEF Apart
    <3>3. /\ Len(s) + k \in 1 .. Len(u) /\ u[Len(s) + k] = t[k]
          /\ i < Len(s) + k /\ Len(s) + k < j
      BY <1>1, <1>4, <2>3, <3>2
    <3> QED
      BY <3>1, <3>2, <3>3
  <2> QED
    BY <1>1, <2>2, <2>3
<1> QED
  BY <1>1, <1>3, <1>4

LEMMA CatLeads ==
  ASSUME NEW s, NEW t, WellFormed(s), WellFormed(t), NEW request, NEW B
  PROVE  /\ Includes(s, request) \/ Includes(t, request) => Includes(s \o t, request)
         /\ Leads(s, request, B) /\ Includes(s, request) => Leads(s \o t, request, B)
         /\ Leads(s, request, B) /\ Leads(t, request, B) => Leads(s \o t, request, B)
<1> DEFINE u == s \o t
<1>0. Joined(u, s, t) /\ IsSeq(u)
  BY CatShape
<1> HIDE DEF u
<1>1. /\ Len(s) \in Nat /\ Len(t) \in Nat
      /\ Len(u) = Len(s) + Len(t)
      /\ \A i \in 1 .. Len(s) : u[i] = s[i]
      /\ \A i \in 1 .. Len(t) : u[Len(s) + i] = t[i]
      /\ \A i \in 1 .. Len(u) : i \in 1 .. Len(s) \/ \E j \in 1 .. Len(t) : i = Len(s) + j
  BY <1>0 DEF Joined
<1>2. /\ \A i \in 1 .. Len(s) : i \in 1 .. Len(u)
      /\ \A i \in 1 .. Len(t) : Len(s) + i \in 1 .. Len(u)
  BY <1>1
<1>3. Includes(s, request) \/ Includes(t, request) => Includes(u, request)
  BY <1>1, <1>2 DEF Includes
<1>4. ASSUME Leads(s, request, B),
             NEW j \in 1 .. Len(u), Is(B, u[j]), j \in 1 .. Len(s)
      PROVE  \E i \in 1 .. Len(u) : i < j /\ IsAsk(u[i], request)
  <2>1. PICK i \in 1 .. Len(s) : i < j /\ IsAsk(s[i], request)
    BY <1>1, <1>4 DEF Leads
  <2> QED
    BY <1>1, <1>2, <2>1
<1>5. ASSUME Includes(s, request) \/ Leads(t, request, B),
             NEW j \in 1 .. Len(u), Is(B, u[j]), NEW m \in 1 .. Len(t), j = Len(s) + m
      PROVE  \E i \in 1 .. Len(u) : i < j /\ IsAsk(u[i], request)
  <2>1. CASE Includes(s, request)
    <3>1. PICK i \in 1 .. Len(s) : IsAsk(s[i], request)
      BY <2>1 DEF Includes
    <3>2. i < j /\ u[i] = s[i]
      BY <1>1, <1>5
    <3> QED
      BY <1>2, <3>1, <3>2
  <2>2. CASE Leads(t, request, B)
    <3>1. u[j] = t[m]
      BY <1>1, <1>5
    <3>2. PICK i \in 1 .. Len(t) : i < m /\ IsAsk(t[i], request)
      BY <1>5, <2>2, <3>1 DEF Leads
    <3>3. Len(s) + i < j /\ u[Len(s) + i] = t[i]
      BY <1>1, <1>5, <3>2
    <3> QED
      BY <1>2, <3>2, <3>3
  <2> QED
    BY <1>5, <2>1, <2>2
<1>6. ASSUME Leads(s, request, B), Includes(s, request) \/ Leads(t, request, B)
      PROVE  Leads(u, request, B)
  BY <1>1, <1>4, <1>5, <1>6 DEF Leads
<1> QED
  BY <1>3, <1>6 DEF u

LEMMA CatUnder ==
  ASSUME NEW s, NEW t, WellFormed(s), WellFormed(t), NEW B, NEW guard,
         Under(s, B, guard), Under(t, B, guard)
  PROVE  Under(s \o t, B, guard)
<1> DEFINE u == s \o t
<1>0. Joined(u, s, t) /\ IsSeq(u)
  BY CatShape
<1> HIDE DEF u
<1>1. /\ Len(s) \in Nat /\ Len(t) \in Nat
      /\ Len(u) = Len(s) + Len(t)
      /\ \A i \in 1 .. Len(s) : u[i] = s[i]
      /\ \A i \in 1 .. Len(t) : u[Len(s) + i] = t[i]
      /\ \A i \in 1 .. Len(u) : i \in 1 .. Len(s) \/ \E j \in 1 .. Len(t) : i = Len(s) + j
  BY <1>0 DEF Joined
<1> QED
  BY <1>1 DEF Under, u

-----------------------------------------------------------------------------
(* A script under a condition.                                             *)

LEMMA GuardedShape ==
  ASSUME NEW s, WellFormed(s), NEW guard
  PROVE  LET g == Guarded(s, guard)
         IN  /\ WellFormed(g)
             /\ Len(g) = Len(s) /\ Len(s) \in Nat
             /\ \A i \in 1 .. Len(s) :
                  /\ g[i].op = s[i].op /\ g[i].arg = s[i].arg
                  /\ g[i].when = s[i].when \union {guard}
                  /\ s[i].op = "again" => g[i].back = s[i].back
<1> DEFINE g == Guarded(s, guard)
<1>1. DOMAIN s = 1 .. Len(s) /\ Len(s) \in Nat
  BY LenProperties DEF WellFormed, IsSeq
<1>2. ASSUME NEW i \in 1 .. Len(s)
      PROVE  /\ IsStep(g[i]) /\ g[i].op = s[i].op /\ g[i].arg = s[i].arg
             /\ g[i].when = s[i].when \union {guard}
             /\ s[i].op = "again" => g[i].back = s[i].back
  <2>1. IsStep(s[i]) /\ g[i] = [s[i] EXCEPT !.when = @ \union {guard}]
    BY <1>1 DEF Guarded, WellFormed
  <2> QED
    BY <2>1 DEF IsStep
<1>3. g = [i \in 1 .. Len(s) |-> g[i]]
  BY <1>1 DEF Guarded
<1> HIDE DEF g
<1>4. IsSeq(g) /\ Len(g) = Len(s)
  <2>1. DOMAIN g = 1 .. Len(s)
    BY <1>3
  <2>2. g \in [1 .. Len(s) -> {g[i] : i \in DOMAIN g}]
    BY <1>3, <2>1
  <2>3. g \in Seq({g[i] : i \in DOMAIN g})
    BY <1>1, <2>2
  <2> QED
    BY <1>1, <2>1, <2>3, LenProperties DEF IsSeq
<1>5. WellFormed(g)
  <2>1. SUFFICES ASSUME NEW m \in 1 .. Len(g), g[m].op = "again"
                 PROVE  /\ g[m].back < m
                        /\ \A n \in 1 .. Len(g) :
                             g[n].op = "again" /\ m \in Body(g, n) => n - g[n].back <= m - g[m].back
    BY <1>2, <1>4 DEF WellFormed
  <2>2. m \in 1 .. Len(s) /\ s[m].op = "again" /\ g[m].back = s[m].back
    BY <1>2, <1>4, <2>1
  <2>3. ASSUME NEW n \in 1 .. Len(g), g[n].op = "again", m \in Body(g, n)
        PROVE  n - g[n].back <= m - g[m].back
    <3>1. n \in 1 .. Len(s) /\ s[n].op = "again" /\ g[n].back = s[n].back
      BY <1>2, <1>4, <2>3
    <3> QED
      BY <2>2, <2>3, <3>1 DEF WellFormed, Body
  <2> QED
    BY <2>2, <2>3 DEF WellFormed
<1> QED
  BY <1>1, <1>2, <1>4, <1>5 DEF g

LEMMA GuardedFacts ==
  ASSUME NEW s, WellFormed(s), NEW guard, NEW A, NEW B, NEW F
  PROVE  /\ WellFormed(Guarded(s, guard))
         /\ Lacks(Guarded(s, guard), A) <=> Lacks(s, A)
         /\ Steady(s, B) => Steady(Guarded(s, guard), B)
         /\ Barren(s, B) => Barren(Guarded(s, guard), B)
         /\ Under(Guarded(s, guard), B, guard)
<1> DEFINE g == Guarded(s, guard)
<1>1. /\ WellFormed(g)
      /\ Len(g) = Len(s) /\ Len(s) \in Nat
      /\ \A i \in 1 .. Len(s) :
           /\ g[i].op = s[i].op /\ g[i].arg = s[i].arg
           /\ g[i].when = s[i].when \union {guard}
           /\ s[i].op = "again" => g[i].back = s[i].back
  BY GuardedShape
<1> HIDE DEF g
<1>2. Lacks(g, A) <=> Lacks(s, A)
  BY <1>1 DEF Lacks, Is
<1>3. ASSUME Steady(s, B) PROVE Steady(g, B)
  <2>1. SUFFICES ASSUME NEW m \in 1 .. Len(g), g[m].op = "again",
                        NEW j \in Body(g, m), Is(B, g[j])
                 PROVE  Void(g[j])
    BY DEF Steady
  <2>2. m \in 1 .. Len(s) /\ s[m].op = "again" /\ g[m].back = s[m].back
    BY <1>1, <2>1
  <2>3. s[m].back \in Nat /\ s[m].back < m
    BY <2>2, LoopBack
  <2>4. j \in Body(s, m) /\ j \in 1 .. Len(s)
    BY <1>1, <2>1, <2>2, <2>3 DEF Body
  <2>5. Void(s[j])
    BY <1>1, <1>3, <2>1, <2>2, <2>4 DEF Steady, Is
  <2> QED
    BY <1>1, <2>4, <2>5 DEF Void
<1>4. Under(g, B, guard)
  BY <1>1 DEF Under
<1>5. Barren(s, B) => Barren(g, B)
  BY <1>1 DEF Barren, Is, Void
<1> QED
  BY <1>1, <1>2, <1>3, <1>4, <1>5 DEF g

(* Steps that are only taken where a fact does not hold are never taken    *)
(* where it does.                                                          *)
LEMMA GuardedBarren ==
  ASSUME NEW s, WellFormed(s), NEW B, NEW fact, Under(s, B, <<fact, FALSE>>)
  PROVE  Barren(Guarded(s, <<fact, TRUE>>), B)
<1> DEFINE guard == <<fact, TRUE>>
           g == Guarded(s, guard)
<1>3. guard[1] = fact /\ guard[2] = TRUE
  OBVIOUS
<1> HIDE DEF guard
<1>1. /\ Len(g) = Len(s)
      /\ \A i \in 1 .. Len(s) :
           /\ g[i].op = s[i].op /\ g[i].arg = s[i].arg
           /\ g[i].when = s[i].when \union {guard}
  BY GuardedShape
<1> HIDE DEF g
<1>2. ASSUME NEW i \in 1 .. Len(g), Is(B, g[i]) PROVE Void(g[i])
  <2>1. <<fact, FALSE>> \in g[i].when /\ guard \in g[i].when
    BY <1>1, <1>2 DEF Under, Is
  <2> QED
    BY <1>3, <2>1 DEF Void
<1> QED
  BY <1>2 DEF Barren, g, guard

LEMMA GuardedApart ==
  ASSUME NEW s, WellFormed(s), NEW guard, NEW A, NEW B, NEW F, Apart(s, A, B, F),
         guard[1] \in F \/ Lacks(s, A) \/ Lacks(s, B)
  PROVE  Apart(Guarded(s, guard), A, B, F)
<1> DEFINE g == Guarded(s, guard)
<1>1. /\ WellFormed(g)
      /\ Len(g) = Len(s) /\ Len(s) \in Nat
      /\ \A i \in 1 .. Len(s) :
           /\ g[i].op = s[i].op /\ g[i].arg = s[i].arg
           /\ g[i].when = s[i].when \union {guard}
  BY GuardedShape
<1> HIDE DEF g
<1>2. SUFFICES ASSUME NEW i \in 1 .. Len(s), NEW j \in 1 .. Len(s), i < j,
                      Is(A, g[i]), Is(B, g[j])
               PROVE  Void(g[j]) \/ \E k \in 1 .. Len(s) :
                        i < k /\ k < j /\ Closes(g[k], g[i].when, F)
  BY <1>1 DEF Apart, g
<1>3. Is(A, s[i]) /\ Is(B, s[j])
  BY <1>1, <1>2 DEF Is
<1>4. guard[1] \in F
  BY <1>3 DEF Lacks
<1>5. CASE Void(s[j])
  BY <1>1, <1>5 DEF Void
<1>6. ASSUME NEW k \in 1 .. Len(s), i < k, k < j, Closes(s[k], s[i].when, F)
      PROVE  Closes(g[k], g[i].when, F)
  BY <1>1, <1>4, <1>6 DEF Closes, IsEnd
<1> QED
  BY <1>2, <1>3, <1>5, <1>6 DEF Apart

(* A block that ends the invocation.                                       *)
LEMMA BlockGated ==
  ASSUME NEW s, WellFormed(s), NEW fact, NEW v \in BOOLEAN, NEW F, fact \in F,
         NEW A, ~Kind(A, "return", "always")
  PROVE  Gated(Guarded(s \o Return("always"), <<fact, v>>), A, F)
<1> DEFINE r == Step("return", "always")
           u == s \o r
           guard == <<fact, v>>
           g == Guarded(u, guard)
<1>1. "return" \in Ops
  BY DEF Ops
<1>2. WellFormed(r) /\ Len(r) = 1
  BY <1>1, StepShape
<1>3. r[1] = [op |-> "return", arg |-> "always", when |-> {}]
  BY <1>1, StepShape
<1> HIDE DEF r
<1>4. WellFormed(u)
  BY <1>2, CatWellFormed
<1>5. /\ Len(s) \in Nat /\ Len(u) = Len(s) + Len(r)
      /\ \A i \in 1 .. Len(r) : u[Len(s) + i] = r[i]
  <2>1. Joined(u, s, r)
    BY <1>2, CatShape
  <2> QED
    BY <2>1 DEF Joined
<1> HIDE DEF u
<1>6. guard[1] \in F
  OBVIOUS
<1> HIDE DEF guard
<1>7. /\ Len(g) = Len(u)
      /\ \A i \in 1 .. Len(u) :
           /\ g[i].op = u[i].op /\ g[i].arg = u[i].arg
           /\ g[i].when = u[i].when \union {guard}
  BY <1>4, GuardedShape
<1> HIDE DEF g
<1>8. Len(g) \in 1 .. Len(u) /\ u[Len(g)] = [op |-> "return", arg |-> "always", when |-> {}]
  <2>1. 1 \in 1 .. Len(r) /\ Len(u) = Len(s) + 1
    BY <1>2, <1>5
  <2> QED
    BY <1>3, <1>5, <1>7, <2>1
<1>9. IsEnd(g[Len(g)]) /\ g[Len(g)].when = {guard}
  BY <1>7, <1>8 DEF IsEnd
<1>10. Len(g) > 0 /\ \A i \in 1 .. Len(g) : guard \in g[i].when
  BY <1>2, <1>5, <1>7
<1>11. Len(g) \in Nat /\ Len(g) \in 1 .. Len(g) /\ ~Is(A, g[Len(g)])
  BY <1>2, <1>5, <1>7, <1>9, <1>10 DEF Is, IsEnd
<1>12. ASSUME NEW i \in 1 .. Len(g), Is(A, g[i])
       PROVE  i < Len(g) /\ Closes(g[Len(g)], g[i].when, F)
  <2>1. i # Len(g)
    BY <1>11, <1>12
  <2>2. i < Len(g)
    BY <1>11, <2>1
  <2> QED
    BY <1>6, <1>9, <1>10, <2>2 DEF Closes
<1>13. Gated(g, A, F)
  BY <1>11, <1>12 DEF Gated
<1> QED
  BY <1>13 DEF g, u, r, guard, Return
-----------------------------------------------------------------------------
(* A loop.                                                                 *)

LEMMA RepeatShape ==
  ASSUME NEW s, WellFormed(s), NEW fact
  PROVE  LET u == Repeat(fact, s)
         IN  /\ WellFormed(u) /\ Len(s) \in Nat /\ Len(u) = Len(s) + 1
             /\ \A i \in 1 .. Len(s) : u[i] = s[i]
             /\ u[Len(s) + 1] = [op |-> "again", arg |-> fact, when |-> {}, back |-> Len(s)]
<1> DEFINE t == <<[op |-> "again", arg |-> fact, when |-> {}, back |-> Len(s)]>>
           u == Repeat(fact, s)
<1> DEFINE S == {s[i] : i \in DOMAIN s} \union {t[1]}
<1>1. Len(s) \in Nat
  BY LenProperties DEF WellFormed, IsSeq
<1>2. Len(t) = 1 /\ t[1] = [op |-> "again", arg |-> fact, when |-> {}, back |-> Len(s)]
  OBVIOUS
<1>3. u = s \o t
  BY DEF Repeat
<1>4. s \in Seq(S) /\ t \in Seq(S)
  <2>1. s \in Seq({s[i] : i \in DOMAIN s}) /\ {s[i] : i \in DOMAIN s} \subseteq S
    BY DEF WellFormed, IsSeq
  <2>2. t[1] \in S /\ t = <<t[1]>>
    OBVIOUS
  <2> HIDE DEF S, t
  <2>3. s \in Seq(S)
    BY <2>1, SeqMonotonic
  <2>4. <<t[1]>> \in Seq(S)
    BY <2>2
  <2> QED
    BY <2>2, <2>3, <2>4
<1> HIDE DEF S, t, u
<1>8. /\ u \in Seq(S)
      /\ Len(u) = Len(s) + Len(t)
      /\ \A i \in 1 .. Len(s) + Len(t) : u[i] = IF i <= Len(s) THEN s[i] ELSE t[i - Len(s)]
  BY <1>3, <1>4, ConcatProperties
<1>5. /\ Len(u) = Len(s) + 1
      /\ \A i \in 1 .. Len(s) : u[i] = s[i]
  BY <1>1, <1>2, <1>8
<1>6. u[Len(s) + 1] = [op |-> "again", arg |-> fact, when |-> {}, back |-> Len(s)]
  <2>1. Len(s) + 1 \in 1 .. Len(s) + Len(t) /\ ~(Len(s) + 1 <= Len(s)) /\ (Len(s) + 1) - Len(s) = 1
    BY <1>1, <1>2
  <2> QED
    BY <1>2, <1>8, <2>1
<1>7. WellFormed(u)
  <2>1. SUFFICES ASSUME NEW m \in 1 .. Len(u), u[m].op = "again"
                 PROVE  /\ u[m].back < m
                        /\ \A n \in 1 .. Len(u) :
                             u[n].op = "again" /\ m \in Body(u, n) => n - u[n].back <= m - u[m].back
    <3>1. IsSeq(u)
      BY <1>8, OverAnySet
    <3>2. IsStep(u[Len(s) + 1])
      BY <1>1, <1>6 DEF IsStep
    <3>3. \A i \in 1 .. Len(u) : i \in 1 .. Len(s) \/ i = Len(s) + 1
      BY <1>1, <1>5
    <3>4. \A i \in 1 .. Len(u) : IsStep(u[i])
      BY <1>5, <3>2, <3>3 DEF WellFormed
    <3> QED
      BY <3>1, <3>4 DEF WellFormed
  <2>2. CASE m \in 1 .. Len(s)
    <3>1. u[m] = s[m] /\ s[m].op = "again" /\ s[m].back \in Nat /\ s[m].back < m
      BY <1>5, <2>1, <2>2, LoopBack
    <3>2. ASSUME NEW n \in 1 .. Len(u), u[n].op = "again", m \in Body(u, n)
          PROVE  n - u[n].back <= m - u[m].back
      <4>1. CASE n \in 1 .. Len(s)
        BY <1>5, <2>2, <3>1, <3>2, <4>1 DEF WellFormed, Body
      <4>2. CASE n = Len(s) + 1
        <5>1. n - u[n].back = 1
          BY <1>1, <1>6, <4>2
        <5> QED
          BY <3>1, <5>1
      <4> QED
        BY <1>1, <1>5, <4>1, <4>2
    <3> QED
      BY <3>1, <3>2
  <2>3. CASE m = Len(s) + 1
    <3>1. u[m].back = Len(s) /\ u[m].back < m /\ m - u[m].back = 1
      BY <1>1, <1>6, <2>3
    <3>2. ASSUME NEW n \in 1 .. Len(u), u[n].op = "again", m \in Body(u, n)
          PROVE  n - u[n].back <= m - u[m].back
      <4>1. CASE n \in 1 .. Len(s)
        <5>1. u[n] = s[n] /\ s[n].back \in Nat
          BY <1>5, <3>2, <4>1, LoopBack
        <5> QED
          BY <1>1, <2>3, <3>2, <4>1, <5>1 DEF Body
      <4>2. CASE n = m
        BY <3>1, <4>2
      <4> QED
        BY <1>1, <1>5, <2>3, <4>1, <4>2
    <3> QED
      BY <3>1, <3>2
  <2> QED
    BY <1>1, <1>5, <2>2, <2>3
<1> QED
  BY <1>1, <1>5, <1>6, <1>7 DEF u

LEMMA RepeatFacts ==
  ASSUME NEW s, WellFormed(s), NEW fact, NEW A, NEW guard
  PROVE  /\ WellFormed(Repeat(fact, s))
         /\ Lacks(Repeat(fact, s), A) <=> Lacks(s, A)
         /\ Barren(s, A) => Barren(Repeat(fact, s), A)
         /\ Under(s, A, guard) => Under(Repeat(fact, s), A, guard)
<1> DEFINE u == Repeat(fact, s)
<1>1. /\ WellFormed(u) /\ Len(s) \in Nat /\ Len(u) = Len(s) + 1
      /\ \A i \in 1 .. Len(s) : u[i] = s[i]
      /\ u[Len(s) + 1] = [op |-> "again", arg |-> fact, when |-> {}, back |-> Len(s)]
  BY RepeatShape
<1> HIDE DEF u
<1>2. ~Is(A, u[Len(s) + 1])
  BY <1>1 DEF Is, Kind, RoundTrips
<1>3. \A i \in 1 .. Len(s) : i \in 1 .. Len(u)
  BY <1>1
<1>4. \A i \in 1 .. Len(u) : i \in 1 .. Len(s) \/ i = Len(s) + 1
  BY <1>1
<1>5. Lacks(u, A) <=> Lacks(s, A)
  BY <1>1, <1>2, <1>3, <1>4 DEF Lacks
<1>6. Barren(s, A) => Barren(u, A)
  BY <1>1, <1>2, <1>3, <1>4 DEF Barren
<1>7. Under(s, A, guard) => Under(u, A, guard)
  BY <1>1, <1>2, <1>3, <1>4 DEF Under
<1> QED
  BY <1>1, <1>5, <1>6, <1>7 DEF u

(* A script without one of two labels keeps them apart, and one without    *)
(* steps that must be led or guarded has them so.                          *)
LEMMA LackingFacts ==
  ASSUME NEW s, NEW A, NEW B, NEW F, NEW request, NEW guard
  PROVE  /\ Lacks(s, A) \/ Lacks(s, B) => Apart(s, A, B, F)
         /\ Lacks(s, A) => Gated(s, A, F) /\ Barren(s, A)
         /\ Lacks(s, B) => Leads(s, request, B) /\ Under(s, B, guard)
BY DEF Lacks, Apart, Leads, Under, Gated, Barren

-----------------------------------------------------------------------------
(* Kinds of scripts, each with the rules that build it up.  A quiet script *)
(* touches nothing, a firm one refuses nothing, a careful one refuses      *)
(* nothing once it has touched something, and a past one is ended for the  *)
(* runs that did; a reading one writes nothing, a single one writes once,  *)
(* and one that is over once it has written is a once.                     *)
Quiet(s) == WellFormed(s) /\ Lacks(s, "touching") /\ Steady(s, "refusing")
Firm(s) == WellFormed(s) /\ Barren(s, "refusing")
Careful(s, F) == WellFormed(s) /\ Apart(s, "touching", "refusing", F) /\ Steady(s, "refusing")
Past(s, F) == Careful(s, F) /\ Gated(s, "touching", F)
Reading(s) == WellFormed(s) /\ Lacks(s, "writing")
Single(s, F) == WellFormed(s) /\ Apart(s, "writing", "writing", F) /\ Steady(s, "writing")
Once(s, F) == Single(s, F) /\ Gated(s, "writing", F)
Hiding(s) == WellFormed(s) /\ Lacks(s, "showing")
Lasting(s) == WellFormed(s) /\ Lacks(s, "returning")

LEMMA BarrenSteady ==
  ASSUME NEW s, WellFormed(s), NEW A, Barren(s, A)
  PROVE  Steady(s, A)
<1>1. SUFFICES ASSUME NEW m \in 1 .. Len(s), s[m].op = "again", NEW j \in Body(s, m), Is(A, s[j])
               PROVE  Void(s[j])
  BY DEF Steady
<1>2. s[m].back \in Nat /\ s[m].back < m
  BY <1>1, LoopBack
<1>3. Len(s) \in Nat
  BY LenProperties DEF WellFormed, IsSeq
<1>4. j \in 1 .. Len(s)
  BY <1>1, <1>2, <1>3 DEF Body
<1> QED
  BY <1>1, <1>4 DEF Barren

LEMMA BarrenApart ==
  ASSUME NEW s, NEW A, NEW B, NEW F, Barren(s, B)
  PROVE  Apart(s, A, B, F)
BY DEF Barren, Apart

LEMMA TouchingFacts ==
  ASSUME NEW s, Lacks(s, "touching")
  PROVE  Lacks(s, "writing") /\ Lacks(s, "showing") /\ Lacks(s, "in the profile")
BY DEF Lacks, Is, Kind

(* The ways to make a step.                                                *)
LEMMA StepRules ==
  ASSUME NEW arg, NEW A, NEW B, NEW F
  PROVE  /\ \A s \in {Ask(arg), Try(arg), Tolerate(arg), Frames(arg), Refuse(arg), Return(arg),
                      FailIf(arg), Effect(arg), Confirm(arg)} :
              WellFormed(s) /\ Apart(s, A, B, F) /\ Steady(s, A)
         /\ Lacks(Ask(arg), A) <=> ~Kind(A, "ask", arg)
         /\ Lacks(Try(arg), A) <=> ~Kind(A, "try", arg)
         /\ Lacks(Tolerate(arg), A) <=> ~Kind(A, "tolerate", arg)
         /\ Lacks(Frames(arg), A) <=> ~Kind(A, "stream", arg)
         /\ Lacks(Refuse(arg), A) <=> ~Kind(A, "refuse", arg)
         /\ Lacks(Return(arg), A) <=> ~Kind(A, "return", arg)
         /\ Lacks(FailIf(arg), A) <=> ~Kind(A, "fail", arg)
         /\ Lacks(Effect(arg), A) <=> ~Kind(A, "effect", arg)
         /\ Lacks(Confirm(arg), A) <=> ~Kind(A, "confirm", arg)
<1>1. \A op \in Ops : /\ WellFormed(Step(op, arg)) /\ Apart(Step(op, arg), A, B, F)
                      /\ Steady(Step(op, arg), A)
                      /\ Lacks(Step(op, arg), A) <=> ~Kind(A, op, arg)
  BY StepFacts
<1>2. /\ "ask" \in Ops /\ "try" \in Ops /\ "tolerate" \in Ops /\ "stream" \in Ops
      /\ "refuse" \in Ops
      /\ "return" \in Ops /\ "fail" \in Ops /\ "effect" \in Ops /\ "confirm" \in Ops
  BY DEF Ops
<1> QED
  BY <1>1, <1>2 DEF Ask, Try, Tolerate, Frames, Refuse, Return, FailIf, Effect, Confirm

LEMMA FirmRules ==
  /\ \A arg : /\ Firm(Ask(arg)) /\ Firm(Try(arg)) /\ Firm(Tolerate(arg)) /\ Firm(Frames(arg))
              /\ Firm(Return(arg)) /\ Firm(FailIf(arg)) /\ Firm(Effect(arg))
  /\ \A s, t : Firm(s) /\ Firm(t) => Firm(s \o t)
  /\ \A fact, s : Firm(s) => Firm(When(fact, s)) /\ Firm(Unless(fact, s)) /\ Firm(Repeat(fact, s))
<1>1. ASSUME NEW arg
      PROVE  /\ Firm(Ask(arg)) /\ Firm(Try(arg)) /\ Firm(Tolerate(arg)) /\ Firm(Frames(arg))
             /\ Firm(Return(arg)) /\ Firm(FailIf(arg)) /\ Firm(Effect(arg))
  BY StepRules, LackingFacts DEF Firm, Kind, RoundTrips
<1>2. ASSUME NEW s, NEW t, Firm(s), Firm(t) PROVE Firm(s \o t)
  BY <1>2, CatWellFormed, CatBarren DEF Firm
<1>3. ASSUME NEW fact, NEW s, Firm(s)
      PROVE  Firm(When(fact, s)) /\ Firm(Unless(fact, s)) /\ Firm(Repeat(fact, s))
  BY <1>3, GuardedFacts, RepeatFacts DEF Firm, When, Unless
<1> QED
  BY <1>1, <1>2, <1>3

LEMMA QuietRules ==
  /\ \A arg \in Reads : /\ Quiet(Ask(arg)) /\ Quiet(Try(arg)) /\ Quiet(Tolerate(arg))
                        /\ Quiet(Frames(arg))
  /\ \A arg : Quiet(Refuse(arg)) /\ Quiet(Return(arg)) /\ Quiet(FailIf(arg)) /\ Quiet(Confirm(arg))
  /\ \A s, t : Quiet(s) /\ Quiet(t) => Quiet(s \o t)
  /\ \A fact, s : Quiet(s) => Quiet(When(fact, s)) /\ Quiet(Unless(fact, s))
  /\ \A fact, s : Quiet(s) /\ Firm(s) => Quiet(Repeat(fact, s))
<1>1. ASSUME NEW arg
      PROVE  /\ Quiet(Refuse(arg)) /\ Quiet(Return(arg)) /\ Quiet(FailIf(arg))
             /\ Quiet(Confirm(arg))
             /\ arg \in Reads => /\ Quiet(Ask(arg)) /\ Quiet(Try(arg)) /\ Quiet(Tolerate(arg))
                                 /\ Quiet(Frames(arg))
  BY StepRules DEF Quiet, Kind, RoundTrips, requires_write
<1>2. ASSUME NEW s, NEW t, Quiet(s), Quiet(t) PROVE Quiet(s \o t)
  BY <1>2, CatWellFormed, CatLacks, CatSteady DEF Quiet
<1>3. ASSUME NEW fact, NEW s, Quiet(s) PROVE Quiet(When(fact, s)) /\ Quiet(Unless(fact, s))
  BY <1>3, GuardedFacts DEF Quiet, When, Unless
<1>4. ASSUME NEW fact, NEW s, Quiet(s), Firm(s) PROVE Quiet(Repeat(fact, s))
  BY <1>4, RepeatFacts, BarrenSteady DEF Quiet, Firm
<1> QED
  BY <1>1, <1>2, <1>3, <1>4

(* Under a condition on a settled fact, a script and an end.               *)
EndsWhen(fact, s) == When(fact, s \o Return("always"))

LEMMA CarefulRules ==
  ASSUME NEW F
  PROVE  /\ \A s : Quiet(s) => Past(s, F)
         /\ \A s : Quiet(s) \/ Firm(s) => Careful(s, F)
         /\ \A s, t : Past(s, F) /\ Past(t, F) => Past(s \o t, F)
         /\ \A s, t : Past(s, F) /\ Careful(t, F) => Careful(s \o t, F)
         /\ \A s, t : Careful(s, F) /\ Firm(t) => Careful(s \o t, F)
         /\ \A fact \in F : \A s :
              Careful(s, F) => Careful(When(fact, s), F) /\ Careful(Unless(fact, s), F)
         /\ \A fact \in F : \A s : Careful(s, F) => Past(EndsWhen(fact, s), F)
<1>1. ASSUME NEW s, Quiet(s) \/ Firm(s) PROVE Careful(s, F)
  BY <1>1, LackingFacts, BarrenSteady, BarrenApart DEF Quiet, Firm, Careful
<1>2. ASSUME NEW s, Quiet(s) PROVE Past(s, F)
  BY <1>1, <1>2, LackingFacts DEF Quiet, Past
<1>3. ASSUME NEW s, NEW t, Past(s, F), Careful(t, F) PROVE Careful(s \o t, F)
  BY <1>3, CatWellFormed, CatSteady, GatedApart DEF Past, Careful
<1>4. ASSUME NEW s, NEW t, Past(s, F), Past(t, F) PROVE Past(s \o t, F)
  BY <1>3, <1>4, CatGated DEF Past, Careful
<1>5. ASSUME NEW s, NEW t, Careful(s, F), Firm(t) PROVE Careful(s \o t, F)
  BY <1>5, CatWellFormed, CatApart, CatSteady, BarrenSteady DEF Firm, Careful
<1>6. ASSUME NEW fact \in F, NEW s, Careful(s, F) PROVE Past(EndsWhen(fact, s), F)
  <2>1. Careful(s \o Return("always"), F)
    BY <1>5, <1>6, FirmRules
  <2>2. Careful(EndsWhen(fact, s), F)
    BY <1>6, <2>1, GuardedFacts, GuardedApart DEF Careful, EndsWhen, When
  <2>3. ~Kind("touching", "return", "always")
    BY DEF Kind, RoundTrips
  <2>4. Gated(EndsWhen(fact, s), "touching", F)
    BY <1>6, <2>3, BlockGated DEF Careful, EndsWhen, When
  <2> QED
    BY <2>2, <2>4 DEF Past
<1>7. ASSUME NEW fact \in F, NEW s, Careful(s, F)
      PROVE  Careful(When(fact, s), F) /\ Careful(Unless(fact, s), F)
  BY <1>7, GuardedFacts, GuardedApart DEF Careful, When, Unless
<1> QED
  BY <1>1, <1>2, <1>3, <1>4, <1>5, <1>6, <1>7

LEMMA ReadingRules ==
  /\ \A arg \in Reads : /\ Reading(Ask(arg)) /\ Reading(Try(arg)) /\ Reading(Tolerate(arg))
                        /\ Reading(Frames(arg))
  /\ \A arg : /\ Reading(Refuse(arg)) /\ Reading(Return(arg)) /\ Reading(FailIf(arg))
              /\ Reading(Confirm(arg)) /\ Reading(Effect(arg))
  /\ \A s, t : Reading(s) /\ Reading(t) => Reading(s \o t)
  /\ \A fact, s :
       Reading(s) => Reading(When(fact, s)) /\ Reading(Unless(fact, s)) /\ Reading(Repeat(fact, s))
  /\ \A s : Quiet(s) => Reading(s)
<1>1. ASSUME NEW arg
      PROVE  /\ Reading(Refuse(arg)) /\ Reading(Return(arg)) /\ Reading(FailIf(arg))
             /\ Reading(Confirm(arg)) /\ Reading(Effect(arg))
             /\ arg \in Reads => /\ Reading(Ask(arg)) /\ Reading(Try(arg)) /\ Reading(Tolerate(arg))
                                 /\ Reading(Frames(arg))
  BY StepRules DEF Reading, Kind, RoundTrips, requires_write
<1>2. ASSUME NEW s, NEW t, Reading(s), Reading(t) PROVE Reading(s \o t)
  BY <1>2, CatWellFormed, CatLacks DEF Reading
<1>3. ASSUME NEW fact, NEW s, Reading(s)
      PROVE  Reading(When(fact, s)) /\ Reading(Unless(fact, s)) /\ Reading(Repeat(fact, s))
  BY <1>3, GuardedFacts, RepeatFacts DEF Reading, When, Unless
<1>4. ASSUME NEW s, Quiet(s) PROVE Reading(s)
  BY <1>4, TouchingFacts DEF Quiet, Reading
<1> QED
  BY <1>1, <1>2, <1>3, <1>4

LEMMA SingleRules ==
  ASSUME NEW F
  PROVE  /\ \A arg : Single(Ask(arg), F) /\ Single(Frames(arg), F)
         /\ \A s : Reading(s) => Single(s, F) /\ Once(s, F)
         /\ \A s, t : Once(s, F) /\ Once(t, F) => Once(s \o t, F)
         /\ \A s, t : Once(s, F) /\ Single(t, F) => Single(s \o t, F)
         /\ \A s, t : Single(s, F) /\ Reading(t) => Single(s \o t, F)
         /\ \A fact \in F : \A s : Single(s, F) => Once(EndsWhen(fact, s), F)
<1>1. ASSUME NEW arg PROVE Single(Ask(arg), F) /\ Single(Frames(arg), F)
  BY StepRules DEF Single
<1>2. ASSUME NEW s, Reading(s) PROVE Single(s, F) /\ Once(s, F)
  BY <1>2, LackingFacts, BarrenSteady DEF Reading, Single, Once
<1>3. ASSUME NEW s, NEW t, Once(s, F), Single(t, F) PROVE Single(s \o t, F)
  BY <1>3, CatWellFormed, CatSteady, GatedApart DEF Once, Single
<1>4. ASSUME NEW s, NEW t, Once(s, F), Once(t, F) PROVE Once(s \o t, F)
  BY <1>3, <1>4, CatGated DEF Once, Single
<1>5. ASSUME NEW s, NEW t, Single(s, F), Reading(t) PROVE Single(s \o t, F)
  <2>1. Barren(t, "writing")
    BY <1>5, LackingFacts DEF Reading
  <2> QED
    BY <1>2, <1>5, <2>1, CatWellFormed, CatApart, CatSteady DEF Single
<1>6. ASSUME NEW fact \in F, NEW s, Single(s, F) PROVE Once(EndsWhen(fact, s), F)
  <2>1. Single(s \o Return("always"), F)
    BY <1>5, <1>6, ReadingRules
  <2>2. Single(EndsWhen(fact, s), F)
    BY <1>6, <2>1, GuardedFacts, GuardedApart DEF Single, EndsWhen, When
  <2>3. ~Kind("writing", "return", "always")
    BY DEF Kind, RoundTrips
  <2>4. Gated(EndsWhen(fact, s), "writing", F)
    BY <1>6, <2>3, BlockGated DEF Single, EndsWhen, When
  <2> QED
    BY <2>2, <2>4 DEF Once
<1> QED
  BY <1>1, <1>2, <1>3, <1>4, <1>5, <1>6

LEMMA HidingRules ==
  /\ \A arg : /\ Hiding(Ask(arg)) /\ Hiding(Try(arg)) /\ Hiding(Tolerate(arg))
              /\ Hiding(Frames(arg))
              /\ Hiding(Refuse(arg)) /\ Hiding(Return(arg)) /\ Hiding(FailIf(arg))
              /\ Hiding(Confirm(arg))
              /\ arg # "secret shown" => Hiding(Effect(arg))
  /\ \A s, t : Hiding(s) /\ Hiding(t) => Hiding(s \o t)
  /\ \A fact, s :
       Hiding(s) => Hiding(When(fact, s)) /\ Hiding(Unless(fact, s)) /\ Hiding(Repeat(fact, s))
  /\ \A s : Quiet(s) => Hiding(s)
<1>1. ASSUME NEW arg
      PROVE  /\ Hiding(Ask(arg)) /\ Hiding(Try(arg)) /\ Hiding(Tolerate(arg))
             /\ Hiding(Frames(arg))
             /\ Hiding(Refuse(arg)) /\ Hiding(Return(arg)) /\ Hiding(FailIf(arg))
             /\ Hiding(Confirm(arg))
             /\ arg # "secret shown" => Hiding(Effect(arg))
  <2>1. /\ \A op : op # "effect" => ~Kind("showing", op, arg)
        /\ arg # "secret shown" => ~Kind("showing", "effect", arg)
    BY DEF Kind
  <2> QED
    BY StepRules, <2>1 DEF Hiding
<1>2. ASSUME NEW s, NEW t, Hiding(s), Hiding(t) PROVE Hiding(s \o t)
  BY <1>2, CatWellFormed, CatLacks DEF Hiding
<1>3. ASSUME NEW fact, NEW s, Hiding(s)
      PROVE  Hiding(When(fact, s)) /\ Hiding(Unless(fact, s)) /\ Hiding(Repeat(fact, s))
  BY <1>3, GuardedFacts, RepeatFacts DEF Hiding, When, Unless
<1>4. ASSUME NEW s, Quiet(s) PROVE Hiding(s)
  BY <1>4, TouchingFacts DEF Quiet, Hiding
<1> QED
  BY <1>1, <1>2, <1>3, <1>4

LEMMA LastingRules ==
  /\ \A arg : /\ Lasting(Ask(arg)) /\ Lasting(Try(arg)) /\ Lasting(Tolerate(arg))
              /\ Lasting(Frames(arg))
              /\ Lasting(Refuse(arg)) /\ Lasting(FailIf(arg)) /\ Lasting(Confirm(arg))
              /\ Lasting(Effect(arg))
  /\ \A s, t : Lasting(s) /\ Lasting(t) => Lasting(s \o t)
  /\ \A fact, s :
       Lasting(s) => Lasting(When(fact, s)) /\ Lasting(Unless(fact, s)) /\ Lasting(Repeat(fact, s))
<1>1. ASSUME NEW arg
      PROVE  /\ Lasting(Ask(arg)) /\ Lasting(Try(arg)) /\ Lasting(Tolerate(arg))
             /\ Lasting(Frames(arg))
             /\ Lasting(Refuse(arg)) /\ Lasting(FailIf(arg)) /\ Lasting(Confirm(arg))
             /\ Lasting(Effect(arg))
  BY StepRules DEF Lasting, Kind, RoundTrips
<1>2. ASSUME NEW s, NEW t, Lasting(s), Lasting(t) PROVE Lasting(s \o t)
  BY <1>2, CatWellFormed, CatLacks DEF Lasting
<1>3. ASSUME NEW fact, NEW s, Lasting(s)
      PROVE  Lasting(When(fact, s)) /\ Lasting(Unless(fact, s)) /\ Lasting(Repeat(fact, s))
  BY <1>3, GuardedFacts, RepeatFacts DEF Lasting, When, Unless
<1> QED
  BY <1>1, <1>2, <1>3

(* Round trips that nothing gets past unanswered.                          *)
LEMMA IncludesRules ==
  /\ \A request : Includes(Ask(request), request) /\ WellFormed(Ask(request))
  /\ \A s, t, request : WellFormed(s) /\ WellFormed(t) /\ (Includes(s, request) \/ Includes(t, request))
       => Includes(s \o t, request) /\ WellFormed(s \o t)
<1>1. ASSUME NEW request PROVE Includes(Ask(request), request) /\ WellFormed(Ask(request))
  <2>1. "ask" \in Ops
    BY DEF Ops
  <2>2. /\ Len(Ask(request)) = 1 /\ WellFormed(Ask(request))
        /\ Ask(request)[1] = [op |-> "ask", arg |-> request, when |-> {}]
    BY <2>1, StepShape DEF Ask
  <2>3. 1 \in 1 .. Len(Ask(request)) /\ IsAsk(Ask(request)[1], request)
    BY <2>2 DEF IsAsk
  <2> QED
    BY <2>2, <2>3 DEF Includes
<1>2. ASSUME NEW s, NEW t, NEW request, WellFormed(s), WellFormed(t),
             Includes(s, request) \/ Includes(t, request)
      PROVE  Includes(s \o t, request) /\ WellFormed(s \o t)
  BY <1>2, CatLeads, CatWellFormed
<1> QED
  BY <1>1, <1>2

(* Where no return is taken, and where a success has had its round trip    *)
(* answered.                                                               *)
LEMMA MuteRules ==
  ASSUME NEW w
  PROVE  /\ \A s : Lasting(s) => Mute(s, w)
         /\ \A s, t : Mute(s, w) /\ Mute(t, w) => Mute(s \o t, w)
         /\ \A fact, s : Mute(s, w) => Mute(When(fact, s), w) /\ Mute(Unless(fact, s), w)
         /\ \A fact, s : WellFormed(s) /\ <<fact, FALSE>> \in w => Mute(When(fact, s), w)
         /\ \A fact, s : WellFormed(s) /\ <<fact, TRUE>> \in w => Mute(Unless(fact, s), w)
         /\ \A fact : <<fact, FALSE>> \in w => Mute(Return(fact), w)
<1>1. ASSUME NEW s, Lasting(s) PROVE Mute(s, w)
  BY <1>1 DEF Lasting, Lacks, Is, Kind, Mute
<1>2. ASSUME NEW s, NEW t, Mute(s, w), Mute(t, w) PROVE Mute(s \o t, w)
  <2> DEFINE u == s \o t
  <2>1. WellFormed(u) /\ Joined(u, s, t)
    BY <1>2, CatShape, CatWellFormed DEF Mute
  <2> HIDE DEF u
  <2> QED
    BY <1>2, <2>1 DEF Mute, Joined, u
<1>3. ASSUME NEW s, NEW guard, WellFormed(s)
      PROVE  /\ WellFormed(Guarded(s, guard)) /\ Len(Guarded(s, guard)) = Len(s)
             /\ \A i \in 1 .. Len(s) :
                  /\ Guarded(s, guard)[i].op = s[i].op /\ Guarded(s, guard)[i].arg = s[i].arg
                  /\ Guarded(s, guard)[i].when = s[i].when \union {guard}
  BY <1>3, GuardedShape
<1>4. ASSUME NEW s, NEW guard, Mute(s, w) PROVE Mute(Guarded(s, guard), w)
  <2> DEFINE g == Guarded(s, guard)
  <2>1. /\ WellFormed(g) /\ Len(g) = Len(s)
        /\ \A i \in 1 .. Len(s) : /\ g[i].op = s[i].op /\ g[i].arg = s[i].arg
                                  /\ g[i].when = s[i].when \union {guard}
    BY <1>3, <1>4 DEF Mute
  <2> HIDE DEF g
  <2>2. ASSUME NEW j \in 1 .. Len(s), Belies(s[j], w) PROVE Belies(g[j], w)
    BY <2>1, <2>2 DEF Belies
  <2> QED
    BY <1>4, <2>1, <2>2 DEF Mute, g
<1>5. ASSUME NEW s, NEW fact, WellFormed(s), NEW v \in BOOLEAN, <<fact, ~v>> \in w
      PROVE  Mute(Guarded(s, <<fact, v>>), w)
  <2> DEFINE guard == <<fact, v>>
             g == Guarded(s, guard)
  <2>1. /\ WellFormed(g) /\ Len(g) = Len(s)
        /\ \A i \in 1 .. Len(s) : g[i].when = s[i].when \union {guard}
    <3> HIDE DEF guard
    <3> QED
      BY <1>3, <1>5
  <2>2. \A i \in 1 .. Len(s) : <<fact, v>> \in g[i].when
    BY <2>1
  <2> HIDE DEF g
  <2>3. ASSUME NEW j \in 1 .. Len(s) PROVE Belies(g[j], w)
    <3>1. CASE v = TRUE
      BY <1>5, <2>2, <3>1 DEF Belies
    <3>2. CASE v = FALSE
      BY <1>5, <2>2, <3>2 DEF Belies
    <3> QED
      BY <3>1, <3>2
  <2> QED
    BY <2>1, <2>3 DEF Mute, g
<1>6. ASSUME NEW fact, <<fact, FALSE>> \in w PROVE Mute(Return(fact), w)
  <2>1. "return" \in Ops
    BY DEF Ops
  <2>2. /\ WellFormed(Return(fact)) /\ Len(Return(fact)) = 1
        /\ Return(fact)[1] = [op |-> "return", arg |-> fact, when |-> {}]
    BY <2>1, StepShape DEF Return
  <2>3. Belies(Return(fact)[1], w)
    <3>1. Return(fact)[1].arg = fact
      BY <2>2
    <3> QED
      BY <1>6, <3>1 DEF Belies
  <2> QED
    BY <2>2, <2>3 DEF Mute
<1>7. \A fact, s : WellFormed(s) /\ <<fact, FALSE>> \in w => Mute(When(fact, s), w)
  BY <1>5 DEF When
<1>8. \A fact, s : WellFormed(s) /\ <<fact, TRUE>> \in w => Mute(Unless(fact, s), w)
  BY <1>5 DEF Unless
<1> QED
  BY <1>1, <1>2, <1>4, <1>6, <1>7, <1>8 DEF When, Unless

LEMMA AnswersRules ==
  ASSUME NEW w, NEW request, NEW F
  PROVE  /\ Answers(Ask(request), w, request, F)
         /\ \A s : Lasting(s) /\ Includes(s, request) => Answers(s, w, request, F)
         /\ \A s, t : Answers(s, w, request, F) /\ WellFormed(t) => Answers(s \o t, w, request, F)
         /\ \A s, t : Mute(s, w) /\ Answers(t, w, request, F) => Answers(s \o t, w, request, F)
         /\ \A fact \in F : \A s : <<fact, TRUE>> \in w /\ Answers(s, w, request, F) =>
              Answers(When(fact, s), w, request, F)
         /\ \A fact \in F : \A s : <<fact, FALSE>> \in w /\ Answers(s, w, request, F) =>
              Answers(Unless(fact, s), w, request, F)
<1>1. ASSUME NEW s, Lasting(s), Includes(s, request) PROVE Answers(s, w, request, F)
  <2>1. PICK i \in 1 .. Len(s) : IsAsk(s[i], request)
    BY <1>1 DEF Includes
  <2>2. Answering(s[i], w, request, F)
    BY <2>1 DEF IsAsk, Answering
  <2>3. WellFormed(s) /\ \A j \in 1 .. Len(s) : s[j].op # "return"
    BY <1>1 DEF Lasting, Lacks, Is, Kind
  <2> QED
    BY <2>2, <2>3 DEF Answers
<1>2. Answers(Ask(request), w, request, F)
  <2>1. Lasting(Ask(request)) /\ Includes(Ask(request), request)
    BY LastingRules, IncludesRules
  <2> QED
    BY <1>1, <2>1
<1>3. ASSUME NEW s, NEW t, WellFormed(t),
             Answers(s, w, request, F) \/ (Mute(s, w) /\ Answers(t, w, request, F))
      PROVE  Answers(s \o t, w, request, F)
  <2> DEFINE u == s \o t
             Has(x) == \E i \in 1 .. Len(x) : Answering(x[i], w, request, F)
             Led(x, j) == \E i \in 1 .. Len(x) : i < j /\ Answering(x[i], w, request, F)
  <2>1. WellFormed(s) /\ WellFormed(u) /\ Joined(u, s, t)
    BY <1>3, CatShape, CatWellFormed DEF Mute, Answers
  <2> HIDE DEF u
  <2>2. /\ Len(s) \in Nat /\ Len(t) \in Nat
        /\ Len(u) = Len(s) + Len(t)
        /\ \A i \in 1 .. Len(s) : u[i] = s[i]
        /\ \A i \in 1 .. Len(t) : u[Len(s) + i] = t[i]
        /\ \A i \in 1 .. Len(u) : i \in 1 .. Len(s) \/ \E j \in 1 .. Len(t) : i = Len(s) + j
    BY <2>1 DEF Joined
  <2>3. /\ \A i \in 1 .. Len(s) : i \in 1 .. Len(u)
        /\ \A i \in 1 .. Len(t) : Len(s) + i \in 1 .. Len(u)
    BY <2>2
  <2>4. Has(s) \/ Has(t) => Has(u)
    BY <2>2, <2>3
  <2>5. Has(s) \/ Has(t)
    BY <1>3 DEF Answers
  <2>6. ASSUME NEW j \in 1 .. Len(u), u[j].op = "return", j \in 1 .. Len(s)
        PROVE  Belies(u[j], w) \/ Led(u, j)
    <3>1. u[j] = s[j]
      BY <2>2, <2>6
    <3>2. Belies(s[j], w) \/ Led(s, j)
      BY <1>3, <2>6, <3>1 DEF Mute, Answers
    <3>3. Led(s, j) => Led(u, j)
      BY <2>2, <2>3
    <3> QED
      BY <3>1, <3>2, <3>3
  <2>7. ASSUME NEW j \in 1 .. Len(u), u[j].op = "return", NEW m \in 1 .. Len(t), j = Len(s) + m
        PROVE  Belies(u[j], w) \/ Led(u, j)
    <3>1. CASE Answers(s, w, request, F)
      <4>1. PICK i \in 1 .. Len(s) : Answering(s[i], w, request, F)
        BY <3>1 DEF Answers
      <4>2. i < j /\ u[i] = s[i] /\ i \in 1 .. Len(u)
        BY <2>2, <2>3, <2>7
      <4> QED
        BY <4>1, <4>2
    <3>2. CASE Answers(t, w, request, F)
      <4>1. u[j] = t[m]
        BY <2>2, <2>7
      <4>2. Belies(t[m], w) \/ Led(t, m)
        BY <2>7, <3>2, <4>1 DEF Answers
      <4>3. ASSUME NEW i \in 1 .. Len(t), i < m, Answering(t[i], w, request, F) PROVE Led(u, j)
        <5>1. Len(s) + i < j /\ u[Len(s) + i] = t[i] /\ Len(s) + i \in 1 .. Len(u)
          BY <2>2, <2>3, <2>7, <4>3
        <5> QED
          BY <4>3, <5>1
      <4> QED
        BY <4>1, <4>2, <4>3
    <3> QED
      BY <1>3, <3>1, <3>2
  <2> QED
    BY <2>1, <2>2, <2>4, <2>5, <2>6, <2>7 DEF Answers, u
<1>4. ASSUME NEW s, NEW guard \in w, guard[1] \in F, Answers(s, w, request, F)
      PROVE  Answers(Guarded(s, guard), w, request, F)
  <2> DEFINE g == Guarded(s, guard)
  <2>1. /\ WellFormed(g) /\ Len(g) = Len(s)
        /\ \A i \in 1 .. Len(s) : /\ g[i].op = s[i].op /\ g[i].arg = s[i].arg
                                  /\ g[i].when = s[i].when \union {guard}
    <3>1. WellFormed(s)
      BY <1>4 DEF Answers
    <3> QED
      BY <3>1, GuardedShape
  <2> HIDE DEF g
  <2>2. ASSUME NEW i \in 1 .. Len(s), Answering(s[i], w, request, F)
        PROVE  Answering(g[i], w, request, F)
    BY <1>4, <2>1, <2>2 DEF Answering
  <2>3. ASSUME NEW j \in 1 .. Len(s), Belies(s[j], w) PROVE Belies(g[j], w)
    BY <2>1, <2>3 DEF Belies
  <2> QED
    BY <1>4, <2>1, <2>2, <2>3 DEF Answers, g
<1>5. ASSUME NEW fact \in F, NEW v \in BOOLEAN, NEW s, <<fact, v>> \in w, Answers(s, w, request, F)
      PROVE  Answers(Guarded(s, <<fact, v>>), w, request, F)
  <2> DEFINE guard == <<fact, v>>
  <2>1. guard[1] \in F /\ guard \in w
    BY <1>5
  <2> HIDE DEF guard
  <2>2. Answers(Guarded(s, guard), w, request, F)
    BY <1>4, <1>5, <2>1
  <2> QED
    BY <2>2 DEF guard
<1>6. \A s, t : Mute(s, w) /\ Answers(t, w, request, F) => Answers(s \o t, w, request, F)
  BY <1>3 DEF Answers
<1> QED
  BY <1>1, <1>2, <1>3, <1>5, <1>6 DEF When, Unless

(* The commands that are not several writes by design are plain: they      *)
(* refuse nothing once they have touched something, write once and show no *)
(* secret.  A tame script may follow one, and one that is over for the     *)
(* runs that touched something may come before.                            *)
Tame(s) == Firm(s) /\ Reading(s) /\ Hiding(s)
Plain(s, F) == Careful(s, F) /\ Single(s, F) /\ Hiding(s)
Over(s, F) == Past(s, F) /\ Once(s, F) /\ Hiding(s)

LEMMA TameRules ==
  /\ \A arg \in Reads :
       Tame(Ask(arg)) /\ Tame(Try(arg)) /\ Tame(Tolerate(arg)) /\ Tame(Frames(arg))
  /\ \A arg : /\ Tame(Return(arg)) /\ Tame(FailIf(arg))
              /\ arg # "secret shown" => Tame(Effect(arg))
  /\ \A s, t : Tame(s) /\ Tame(t) => Tame(s \o t)
  /\ \A fact, s : Tame(s) => Tame(When(fact, s)) /\ Tame(Unless(fact, s)) /\ Tame(Repeat(fact, s))
BY FirmRules, ReadingRules, HidingRules DEF Tame

LEMMA PlainRules ==
  ASSUME NEW F
  PROVE  /\ \A arg : Plain(Ask(arg), F) /\ Plain(Frames(arg), F)
         /\ \A s : Quiet(s) \/ Tame(s) => Plain(s, F)
         /\ \A s : Quiet(s) => Over(s, F)
         /\ \A s, t : Over(s, F) /\ Over(t, F) => Over(s \o t, F)
         /\ \A s, t : Over(s, F) /\ Plain(t, F) => Plain(s \o t, F)
         /\ \A s, t : Plain(s, F) /\ Tame(t) => Plain(s \o t, F)
         /\ \A fact \in F : \A s : Plain(s, F) => Over(When(fact, s \o Return("always")), F)
<1>1. ASSUME NEW arg PROVE Plain(Ask(arg), F) /\ Plain(Frames(arg), F)
  BY FirmRules, CarefulRules, SingleRules, HidingRules DEF Plain
<1>2. ASSUME NEW s, Quiet(s) \/ Tame(s) PROVE Plain(s, F)
  BY <1>2, CarefulRules, ReadingRules, SingleRules, HidingRules DEF Plain, Tame
<1>3. ASSUME NEW s, Quiet(s) PROVE Over(s, F)
  BY <1>3, CarefulRules, ReadingRules, SingleRules, HidingRules DEF Over
<1>4. ASSUME NEW s, NEW t, Over(s, F), Over(t, F) PROVE Over(s \o t, F)
  BY <1>4, CarefulRules, SingleRules, HidingRules DEF Over
<1>5. ASSUME NEW s, NEW t, Over(s, F), Plain(t, F) PROVE Plain(s \o t, F)
  BY <1>5, CarefulRules, SingleRules, HidingRules DEF Over, Plain
<1>6. ASSUME NEW s, NEW t, Plain(s, F), Tame(t) PROVE Plain(s \o t, F)
  BY <1>6, CarefulRules, SingleRules, HidingRules DEF Tame, Plain
<1>7. ASSUME NEW fact \in F, NEW s, Plain(s, F)
      PROVE  Over(When(fact, s \o Return("always")), F)
  <2>1. Past(EndsWhen(fact, s), F) /\ Once(EndsWhen(fact, s), F)
    BY <1>7, CarefulRules, SingleRules DEF Plain
  <2>2. Hiding(When(fact, s \o Return("always")))
    BY <1>7, HidingRules DEF Plain
  <2> QED
    BY <2>1, <2>2 DEF Over, EndsWhen
<1> QED
  BY <1>1, <1>2, <1>3, <1>4, <1>5, <1>6, <1>7
-----------------------------------------------------------------------------
(* What every script has.  The facts that are settled from the start are   *)
(* the arguments, and whether it is the funnel's.                          *)
Fixed(args) == (args \ {"always"}) \union {"funnel"}

LEMMA PlainNodeScripts ==
  ASSUME NEW F
  PROVE  /\ Plain(run_up, F) /\ Plain(run_set, F) /\ Plain(run_down, F) /\ Plain(run_logout, F)
         /\ Plain(run_reload_config, F) /\ Plain(run_shutdown, F) /\ Plain(run_bugreport, F)
         /\ Plain(run_version, F) /\ Plain(run_get, F) /\ Plain(run_appc_routes, F)
         /\ Plain(run_whoami, F) /\ Plain(run_wait, F)
<1>1. /\ "GetPrefs" \in Reads /\ "Status" \in Reads /\ "BugReport" \in Reads /\ "Version" \in Reads
      /\ "Whois" \in Reads
  BY DEF Reads
<1>2. Tame(UpTaken)
  BY <1>1, TameRules DEF UpTaken, poll_for_auth_url, fetch_backend_state, wait_for_running
<1>10. Quiet(refuse_ssh_toggle_risk_if_needed)
  BY <1>1, QuietRules DEF refuse_ssh_toggle_risk_if_needed
<1>3. Plain(run_up, F)
  <2>1. /\ Quiet(resolve_wif) /\ Quiet(check_ported_up_flags) /\ Quiet(resolve_authkey)
        /\ Quiet(Refuse("allow-lan without exit node"))
        /\ Quiet(When("force-reauth",
                   When("over Tailscale ssh", Unless("risk accepted", Refuse("always")))))
    BY QuietRules DEF resolve_wif, check_ported_up_flags, check_host_routes, resolve_authkey
  <2> QED
    BY <1>2, <1>10, <2>1, QuietRules, PlainRules DEF run_up
<1>4. Plain(run_set, F)
  <2>1. Quiet(check_unmodelled_set_flags)
    BY QuietRules
       DEF check_unmodelled_set_flags, parse_relay_server_port, parse_relay_static_endpoints
  <2> QED
    BY <1>10, <2>1, QuietRules, PlainRules DEF run_set
<1>5. Plain(run_down, F)
  BY <1>1, QuietRules, PlainRules DEF run_down
<1>6. Plain(run_logout, F) /\ Plain(run_reload_config, F) /\ Plain(run_shutdown, F)
  BY QuietRules, TameRules, PlainRules DEF run_logout, run_reload_config, run_shutdown
<1>7. Plain(run_bugreport, F)
  <2>1. Quiet(Refuse("two notes") \o Ask("BugReport"))
    BY <1>1, QuietRules
  <2>2. Tame(When("record", Effect("waits for Enter") \o Ask("BugReport")))
    BY <1>1, TameRules
  <2> QED
    BY <2>1, <2>2, PlainRules DEF run_bugreport
<1>8. Quiet(run_version) /\ Quiet(run_get) /\ Quiet(run_appc_routes) /\ Quiet(run_whoami)
  BY <1>1, QuietRules DEF run_version, run_get, run_appc_routes, run_whoami
<1>9. Tame(run_wait)
  BY <1>1, TameRules DEF run_wait, wait_for_running
<1> QED
  BY <1>3, <1>4, <1>5, <1>6, <1>7, <1>8, <1>9, PlainRules

LEMMA StatusScript == Plain(run_status, Fixed(StatusArguments))
<1>1. "web" \in Fixed(StatusArguments) /\ "watch" \in Fixed(StatusArguments)
  BY DEF Fixed, StatusArguments
<1>2. "Status" \in Reads /\ "Watch" \in Reads
  BY DEF Reads
<1> QED
  BY <1>1, <1>2, QuietRules, TameRules, PlainRules DEF run_status, Stream

LEMMA SwitchScript == Plain(run_switch, Fixed(SwitchArguments))
<1>1. /\ "remove" \in Fixed(SwitchArguments) /\ "list" \in Fixed(SwitchArguments)
      /\ "new" \in Fixed(SwitchArguments)
  BY DEF Fixed, SwitchArguments
<1> QED
  BY <1>1, QuietRules, PlainRules DEF run_switch

LEMMA PlainQuestions ==
  ASSUME NEW F
  PROVE  /\ Plain(run_debug_capture, F) /\ Plain(run_debug_prefs, F) /\ Plain(run_debug_rebind, F)
         /\ Plain(run_debug_restun, F) /\ Plain(run_check_ip_forwarding, F)
         /\ Plain(run_check_prefs, F) /\ Plain(run_debug_watch_ipn, F) /\ Plain(run_debug_local, F)
         /\ Plain(run_debug_via, F) /\ Plain(run_debug_resolve, F) /\ Plain(run_debug_portmap, F)
         /\ Plain(run_debug_statedir, F)
         /\ Plain(run_metrics, F) /\ Plain(run_whois, F) /\ Plain(run_id_token, F)
         /\ Plain(run_dns_status, F) /\ Plain(run_dns_query, F) /\ Plain(run_netcheck, F)
         /\ Plain(run_syspolicy_list, F) /\ Plain(run_syspolicy_reload, F)
         /\ Plain(run_service_list, F) /\ Plain(run_exit_node_list, F)
         /\ Plain(run_exit_node_suggest, F) /\ Plain(run_lock_status, F) /\ Plain(run_lock_log, F)
         /\ Plain(run_lock_sign, F) /\ Plain(run_lock_disable, F)
         /\ Plain(run_lock_disablement_kdf, F) /\ Plain(run_file_list, F)
<1>1. /\ "Whois" \in Reads /\ "DnsQuery" \in Reads /\ "Netcheck" \in Reads /\ "Services" \in Reads
      /\ "Status" \in Reads /\ "SuggestExitNode" \in Reads /\ "LockLog" \in Reads
      /\ "Watch" \in Reads
  BY DEF Reads
<1>2. /\ Plain(run_debug_capture, F) /\ Plain(run_debug_prefs, F) /\ Plain(run_debug_rebind, F)
      /\ Plain(run_debug_restun, F) /\ Plain(run_check_ip_forwarding, F)
      /\ Plain(run_check_prefs, F)
      /\ Plain(run_id_token, F) /\ Plain(run_dns_status, F) /\ Plain(run_syspolicy_list, F)
      /\ Plain(run_syspolicy_reload, F) /\ Plain(run_lock_status, F) /\ Plain(run_lock_sign, F)
      /\ Plain(run_lock_disable, F) /\ Plain(run_file_list, F)
  BY PlainRules
     DEF run_debug_capture, run_debug_prefs, run_debug_rebind, run_debug_restun,
         run_check_ip_forwarding, run_check_prefs, run_id_token,
         run_dns_status, run_syspolicy_list, run_syspolicy_reload, run_lock_status,
         run_lock_sign, run_lock_disable, run_file_list
<1>3. /\ Quiet(run_debug_local) /\ Quiet(run_debug_via) /\ Quiet(run_debug_resolve)
      /\ Quiet(run_lock_disablement_kdf)
  BY QuietRules DEF run_debug_local, run_debug_via, run_debug_resolve, run_lock_disablement_kdf
<1>4. Quiet(run_whois) /\ Quiet(run_dns_query) /\ Quiet(run_lock_log)
  BY <1>1, QuietRules DEF run_whois, run_dns_query, run_lock_log
<1>5. Quiet(run_service_list) /\ Quiet(run_exit_node_list) /\ Quiet(run_exit_node_suggest)
  BY <1>1, QuietRules DEF run_service_list, run_exit_node_list, run_exit_node_suggest
<1>6. Tame(run_netcheck)
  BY <1>1, TameRules DEF run_netcheck
<1>7. Plain(run_debug_portmap, F) /\ Plain(run_debug_watch_ipn, F)
  <2>1. \A request : Plain(Stream(request), F)
    BY TameRules, PlainRules DEF Stream
  <2> QED
    BY <2>1, QuietRules, PlainRules DEF run_debug_portmap, run_debug_watch_ipn
<1>8. Plain(run_debug_statedir, F)
  BY QuietRules, TameRules, PlainRules DEF run_debug_statedir
<1>9. Plain(run_metrics, F)
  BY TameRules, PlainRules DEF run_metrics
<1> QED
  BY <1>2, <1>3, <1>4, <1>5, <1>6, <1>7, <1>8, <1>9, PlainRules

LEMMA PlainProbes ==
  ASSUME NEW F
  PROVE  Plain(run_ip, F) /\ Plain(run_ping, F)
<1>1. "Ip" \in Reads /\ "Status" \in Reads /\ "Services" \in Reads /\ "Ping" \in Reads
  BY DEF Reads
<1>2. Quiet(run_ip)
  <2>1. Quiet(ip_usage_refusal) /\ Quiet(ip_address_from_arg) /\ Quiet(service_addrs_matching_ip)
    BY <1>1, QuietRules
       DEF ip_usage_refusal, ip_address_from_arg, named_node_from_arg, resolve_host_ip,
           service_addrs_matching_ip
  <2>2. /\ Quiet(When("assert", Refuse("not an address") \o Ask("Ip")
                   \o FailIf("another address") \o Return("always")))
        /\ Quiet(When("no address", Ask("Status") \o FailIf("always")))
    BY <1>1, QuietRules
  <2>3. Quiet(When("peer named", Ask("Status") \o ip_address_from_arg \o
                     When("no node matches", service_addrs_matching_ip) \o
                     Refuse("family not there") \o Return("always")))
    BY <1>1, <2>1, QuietRules
  <2> QED
    BY <1>1, <2>1, <2>2, <2>3, QuietRules DEF run_ip
<1>3. Quiet(ping_probe_refusal) /\ Quiet(ping_verdict)
  BY QuietRules DEF ping_probe_refusal, ping_verdict
<1>4. Quiet(resolve_ping_target)
  <2>1. Quiet(is_running_or_starting) /\ Quiet(ping_target_from_arg) /\ Quiet(resolve_host_ip)
    BY QuietRules
       DEF is_running_or_starting, ping_target_from_arg, named_node_from_arg, resolve_host_ip
  <2> QED
    BY <1>1, <2>1, QuietRules DEF resolve_ping_target
<1>5. Quiet(Repeat("probes left", Tolerate("Ping")))
  BY <1>1, QuietRules, FirmRules
<1>6. Quiet(run_ping)
  BY <1>3, <1>4, <1>5, QuietRules DEF run_ping
<1> QED
  BY <1>2, <1>6, PlainRules

LEMMA FileGetScript == Plain(run_file_get, Fixed(FileArguments))
<1>1. "one file" \in Fixed(FileArguments)
  BY DEF Fixed, FileArguments
<1> QED
  BY <1>1, QuietRules, TameRules, PlainRules DEF run_file_get

LEMMA PlainInstaller ==
  ASSUME NEW F
  PROVE  Plain(run_update, F) /\ Plain(run_install, F) /\ Plain(run_uninstall, F)
<1>1. Plain(run_update, F)
  <2>1. Quiet(resolve_target_release)
    BY QuietRules DEF resolve_target_release, http_get_bytes
  <2>2. Quiet(download_release) /\ Quiet(verify_sha256) /\ Quiet(extract_tnet_from_tarball)
    BY QuietRules DEF download_release, verify_sha256, extract_tnet_from_tarball, http_get_bytes
  <2>3. /\ Quiet(Unless("version named", Return("up to date")))
        /\ Quiet(When("check only", Return("always"))) /\ Quiet(Unless("yes", Return("always")))
    BY QuietRules
  <2>4. Tame(swap_binary_in_place)
    BY TameRules DEF swap_binary_in_place
  <2> QED
    BY <2>1, <2>2, <2>3, <2>4, QuietRules, PlainRules DEF run_update
<1>2. Plain(run_install, F)
  <2>1. Tame(apply_install)
    BY TameRules DEF apply_install
  <2> QED
    BY <2>1, QuietRules, PlainRules DEF run_install, require_root
<1>3. Plain(run_uninstall, F)
  <2>1. Tame(apply_uninstall)
    BY TameRules DEF apply_uninstall
  <2> QED
    BY <2>1, QuietRules, PlainRules DEF run_uninstall, require_root
<1> QED
  BY <1>1, <1>2, <1>3

LEMMA PlainHostScripts ==
  ASSUME NEW F
  PROVE  /\ Plain(run_nc, F) /\ Plain(run_ssh, F) /\ Plain(run_serve_status, F)
         /\ Plain(run_serve_reset, F) /\ Plain(run_funnel_toggle, F)
         /\ Plain(run_configure_sysext, F) /\ Plain(run_configure_mac_vpn, F)
         /\ Quiet(check_serve_flags) /\ Quiet(serve_host) /\ Quiet(get_serve_config)
         /\ Quiet(build_web_serve)
<1>1. "Status" \in Reads /\ "GetServeConfig" \in Reads
  BY DEF Reads
<1>2. Plain(run_nc, F)
  BY TameRules, PlainRules DEF run_nc
<1>3. Plain(run_ssh, F)
  <2>1. Tame(write_ssh_known_hosts) /\ Tame(find_ssh) /\ Tame(Effect("ssh runs"))
    BY TameRules DEF write_ssh_known_hosts, find_ssh
  <2>2. Quiet(split_ssh_target)
    BY QuietRules DEF split_ssh_target
  <2> QED
    BY <1>1, <2>1, <2>2, QuietRules, PlainRules DEF run_ssh
<1>4. Quiet(get_serve_config) /\ Quiet(serve_host)
  BY <1>1, QuietRules DEF get_serve_config, serve_host
<1>5. Quiet(run_serve_status)
  BY <1>1, <1>4, QuietRules DEF run_serve_status
<1>6. Quiet(check_serve_flags)
  <2>1. Quiet(parse_accept_app_caps) /\ Quiet(clean_url_path) /\ Quiet(serve_kind_and_port)
    BY QuietRules DEF parse_accept_app_caps, clean_url_path, serve_kind_and_port
  <2>2. /\ Quiet(When("service", When("funnel", Refuse("always"))
                                   \o Unless("background", Refuse("always"))))
        /\ Quiet(Unless("service", Refuse("tun"))) /\ Quiet(When("service", Refuse("always")))
    BY QuietRules
  <2> QED
    BY <2>1, <2>2, QuietRules DEF check_serve_flags
<1>7. Plain(run_funnel_toggle, F)
  BY <1>4, <1>6, QuietRules, PlainRules DEF run_funnel_toggle
<1>8. Quiet(run_configure_sysext) /\ Quiet(run_configure_mac_vpn)
  BY QuietRules DEF run_configure_sysext, run_configure_mac_vpn
<1>9. Plain(run_serve_reset, F)
  BY PlainRules DEF run_serve_reset
<1>10. Quiet(build_web_serve)
  BY QuietRules DEF build_web_serve, clean_url_path
<1> QED
  BY <1>2, <1>3, <1>4, <1>5, <1>6, <1>7, <1>8, <1>9, <1>10, PlainRules

LEMMA ServeVerbScript == Plain(run_serve, Fixed(ServeArguments))
<1> DEFINE F == Fixed(ServeArguments)
<1>1. "tcp" \in F
  BY DEF Fixed, ServeArguments
<1> HIDE DEF F
<1>2. Quiet(serve_host) /\ Quiet(get_serve_config) /\ Quiet(build_web_serve)
  BY PlainHostScripts
<1>3. Quiet(When("redirect", serve_redirect_refusals)) /\ Quiet(Unless("redirect", build_web_serve))
  BY <1>2, QuietRules DEF serve_redirect_refusals
<1>4. Over(When("tcp", get_serve_config \o Ask("SetServeConfig") \o Return("always")), F)
  BY <1>1, <1>2, PlainRules
<1> QED
  BY <1>2, <1>3, <1>4, PlainRules DEF run_serve, F

LEMMA KubeconfigScript == Plain(run_configure_kubeconfig, Fixed(KubeconfigArguments))
<1> DEFINE F == Fixed(KubeconfigArguments)
<1>1. "output" \in F
  BY DEF Fixed, KubeconfigArguments
<1> HIDE DEF F
<1>2. "Status" \in Reads /\ "DnsStatus" \in Reads
  BY DEF Reads
<1>3. /\ Quiet(kubeconfig_inputs) /\ Quiet(peer_dns_name_from_arg) /\ Quiet(validate_kube_fqdn)
      /\ Quiet(kubeconfig_path_from)
  BY <1>2, QuietRules
     DEF kubeconfig_inputs, peer_dns_name_from_arg, service_dns_name_from_arg, validate_kube_fqdn,
         kubeconfig_path_from
<1>4. Plain(write_kubeconfig_file, F)
  BY QuietRules, TameRules, PlainRules DEF write_kubeconfig_file
<1>5. Over(When("output", write_kubeconfig_file \o Return("always")), F)
  BY <1>1, <1>4, PlainRules
<1>6. Tame(check_kubeconfig_writable)
  BY TameRules DEF check_kubeconfig_writable, is_writable
<1>7. Tame(set_kubeconfig_for_peer)
  BY TameRules
     DEF set_kubeconfig_for_peer, go_mkdir_all, decode_kubeconfig_bytes, update_kubeconfig
<1>8. Over(kubeconfig_inputs \o Ask("Status") \o Refuse("not running") \o peer_dns_name_from_arg
             \o validate_kube_fqdn, F)
  BY <1>2, <1>3, QuietRules, PlainRules
<1> QED
  BY <1>3, <1>5, <1>6, <1>7, <1>8, PlainRules DEF run_configure_kubeconfig, F

(* The commands that are several writes by design.                         *)
LEMMA LoginCareful == ASSUME NEW F PROVE Careful(run_login, F) /\ Hiding(run_login)
<1>1. "Status" \in Reads
  BY DEF Reads
<1>2. Quiet(check_host_routes \o When("over Tailscale ssh", Refuse("always")) \o resolve_authkey)
  BY QuietRules DEF check_host_routes, resolve_authkey
<1>3. Firm(login_profile_requests) /\ Hiding(login_profile_requests)
  BY FirmRules, HidingRules DEF login_profile_requests
<1>4. Tame(Unless("authkey given", poll_for_auth_url \o FailIf("registration failed")))
  BY <1>1, TameRules DEF poll_for_auth_url
<1>5. Careful(run_login, F)
  BY <1>2, <1>3, <1>4, FirmRules, CarefulRules DEF run_login, Tame
<1>6. Hiding(run_login)
  BY <1>2, <1>3, <1>4, HidingRules DEF run_login, Tame
<1> QED
  BY <1>5, <1>6

LEMMA FileCpCareful ==
  Careful(run_file_cp, Fixed(FileArguments)) /\ Hiding(run_file_cp)
<1> DEFINE F == Fixed(FileArguments)
           single == <<"several files", FALSE>>
           rest == Repeat("files left", send_cp_file)
<1>1. "FileTargets" \in Reads
  BY DEF Reads
<1>2. /\ Quiet(When("targets", Refuse("arguments") \o run_file_targets \o Return("always")))
      /\ Quiet(parse_cp_target)
      /\ Quiet(When("several files", Refuse("one name for them")
                                       \o Refuse("standard input among them")))
  BY <1>1, QuietRules DEF run_file_targets, parse_cp_target
<1>3. Quiet(resolve_cp_file)
  BY QuietRules DEF resolve_cp_file
<1>4. Careful(send_cp_file, F) /\ Hiding(send_cp_file)
  BY <1>3, FirmRules, CarefulRules, HidingRules DEF send_cp_file
<1>5. Under(send_cp_file, "refusing", single)
  <2>1. WellFormed(Refuse("standard input")) /\ WellFormed(Tolerate("FileCp"))
    BY StepRules
  <2> HIDE DEF single
  <2>2. /\ WellFormed(Guarded(Refuse("standard input"), single))
        /\ Under(Guarded(Refuse("standard input"), single), "refusing", single)
    BY <2>1, GuardedFacts
  <2>3. ~Kind("refusing", "tolerate", "FileCp")
    BY DEF Kind
  <2>4. Under(Tolerate("FileCp"), "refusing", single)
    BY <2>3, StepRules, LackingFacts
  <2>5. Under(Guarded(Refuse("standard input"), single) \o Tolerate("FileCp"), "refusing", single)
    BY <2>1, <2>2, <2>4, CatUnder
  <2> QED
    BY <2>5 DEF send_cp_file, resolve_cp_file, Unless, single
<1>6. Firm(When("several files", rest))
  <2>1. WellFormed(send_cp_file)
    BY <1>4 DEF Hiding
  <2>2. WellFormed(rest) /\ Under(rest, "refusing", single)
    BY <1>5, <2>1, RepeatFacts
  <2> HIDE DEF rest
  <2>3. Barren(Guarded(rest, <<"several files", TRUE>>), "refusing")
    BY <2>2, GuardedBarren
  <2>4. WellFormed(Guarded(rest, <<"several files", TRUE>>))
    BY <2>2, GuardedFacts
  <2> QED
    BY <2>3, <2>4 DEF Firm, When
<1>7. Hiding(When("several files", rest))
  BY <1>4, HidingRules
<1> HIDE DEF rest, F
<1>8. Past(When("targets", Refuse("arguments") \o run_file_targets \o Return("always"))
             \o Refuse("fewer than two arguments") \o parse_cp_target
             \o When("several files", Refuse("one name for them")
                                        \o Refuse("standard input among them")), F)
  BY <1>2, QuietRules, CarefulRules
<1>9. Careful(run_file_cp, F)
  BY <1>4, <1>6, <1>8, FirmRules, CarefulRules DEF run_file_cp, rest
<1>10. Hiding(run_file_cp)
  BY <1>2, <1>4, <1>7, HidingRules DEF run_file_cp, rest
<1> QED
  BY <1>9, <1>10 DEF F

LEMMA WebCareful == ASSUME NEW F PROVE Careful(run_web, F) /\ Hiding(run_web)
<1>1. Firm(start_tailscaled_web_client) /\ Hiding(start_tailscaled_web_client)
  BY FirmRules, HidingRules DEF start_tailscaled_web_client
<1>2. Firm(run_web_cgi) /\ Hiding(run_web_cgi)
  BY FirmRules, HidingRules DEF run_web_cgi, route_web_request
<1>3. Firm(run_status_web) /\ Hiding(run_status_web)
  BY FirmRules, HidingRules DEF run_status_web, serve_status_connection, route_web_request
<1>4. Firm(serve_until_interrupt) /\ Hiding(serve_until_interrupt)
  BY <1>3, FirmRules, HidingRules DEF serve_until_interrupt
<1>5. Firm(run_web) /\ Hiding(run_web)
  BY <1>1, <1>2, <1>4, FirmRules, HidingRules DEF run_web
<1> QED
  BY <1>5, CarefulRules

(* What cert refuses late it refuses before its key is in a file, and its  *)
(* one write is the certificate's.                                         *)
Keyless(s) == WellFormed(s) /\ Lacks(s, "keying") /\ Steady(s, "refusing")
Keyed(s, F) == WellFormed(s) /\ Apart(s, "keying", "refusing", F) /\ Steady(s, "refusing")
Spent(s, F) == Keyed(s, F) /\ Gated(s, "keying", F)
Solely(s) == WellFormed(s) /\ Lacks(s, "writing else")

LEMMA SpentRules ==
  ASSUME NEW F
  PROVE  /\ \A s : Past(s, F) => Spent(s, F)
         /\ \A s : Careful(s, F) => Keyed(s, F)
         /\ \A s : Keyless(s) => Spent(s, F)
         /\ \A s, t : Spent(s, F) /\ Spent(t, F) => Spent(s \o t, F)
         /\ \A s, t : Spent(s, F) /\ Keyed(t, F) => Keyed(s \o t, F)
         /\ \A arg : Keyless(Ask(arg)) /\ Keyless(Refuse(arg))
         /\ \A arg \in CertHalves : Keyless(Effect(arg))
         /\ \A s, t : Keyless(s) /\ Keyless(t) => Keyless(s \o t)
         /\ \A fact, s : Keyless(s) => Keyless(When(fact, s))
<1>1. \A step : Is("keying", step) => Is("touching", step)
  BY DEF Is, Kind
<1>2. ASSUME NEW s, Careful(s, F) PROVE Keyed(s, F)
  BY <1>1, <1>2 DEF Careful, Keyed, Apart
<1>3. ASSUME NEW s, Past(s, F) PROVE Spent(s, F)
  BY <1>1, <1>2, <1>3 DEF Past, Spent, Gated
<1>4. ASSUME NEW s, Keyless(s) PROVE Spent(s, F)
  BY <1>4, LackingFacts DEF Keyless, Keyed, Spent
<1>5. ASSUME NEW s, NEW t, Spent(s, F), Keyed(t, F) PROVE Keyed(s \o t, F)
  BY <1>5, CatWellFormed, CatSteady, GatedApart DEF Spent, Keyed
<1>6. ASSUME NEW s, NEW t, Spent(s, F), Spent(t, F) PROVE Spent(s \o t, F)
  BY <1>5, <1>6, CatGated DEF Spent, Keyed
<1>7. \A arg : Keyless(Ask(arg)) /\ Keyless(Refuse(arg))
  BY StepRules DEF Keyless, Kind
<1>8. \A arg \in CertHalves : Keyless(Effect(arg))
  BY StepRules DEF Keyless, Kind
<1>9. ASSUME NEW s, NEW t, Keyless(s), Keyless(t) PROVE Keyless(s \o t)
  BY <1>9, CatWellFormed, CatLacks, CatSteady DEF Keyless
<1>10. ASSUME NEW fact, NEW s, Keyless(s) PROVE Keyless(When(fact, s))
  BY <1>10, GuardedFacts DEF Keyless, When
<1> QED
  BY <1>2, <1>3, <1>4, <1>5, <1>6, <1>7, <1>8, <1>9, <1>10

LEMMA SolelyRules ==
  /\ Solely(Ask("Cert")) /\ Solely(Try("Cert"))
  /\ \A arg \in Reads : Solely(Try(arg))
  /\ \A arg : Solely(Refuse(arg)) /\ Solely(Return(arg)) /\ Solely(Effect(arg))
  /\ \A s, t : Solely(s) /\ Solely(t) => Solely(s \o t)
  /\ \A fact, s :
       Solely(s) => Solely(When(fact, s)) /\ Solely(Unless(fact, s)) /\ Solely(Repeat(fact, s))
<1>1. Solely(Ask("Cert")) /\ Solely(Try("Cert"))
  BY StepRules DEF Solely, Kind
<1>2. ASSUME NEW arg
      PROVE  /\ Solely(Refuse(arg)) /\ Solely(Return(arg)) /\ Solely(Effect(arg))
             /\ arg \in Reads => Solely(Try(arg))
  <2>1. /\ ~Kind("writing else", "refuse", arg) /\ ~Kind("writing else", "return", arg)
        /\ ~Kind("writing else", "effect", arg)
        /\ arg \in Reads => ~Kind("writing else", "try", arg)
    BY DEF Kind, RoundTrips, requires_write
  <2> QED
    BY <2>1, StepRules DEF Solely
<1>3. ASSUME NEW s, NEW t, Solely(s), Solely(t) PROVE Solely(s \o t)
  BY <1>3, CatWellFormed, CatLacks DEF Solely
<1>4. ASSUME NEW fact, NEW s, Solely(s)
      PROVE  Solely(When(fact, s)) /\ Solely(Unless(fact, s)) /\ Solely(Repeat(fact, s))
  BY <1>4, GuardedFacts, RepeatFacts DEF Solely, When, Unless
<1> QED
  BY <1>1, <1>2, <1>3, <1>4

LEMMA CertCareful ==
  Keyed(run_cert, Fixed(CertArguments)) /\ Hiding(run_cert) /\ Solely(run_cert)
<1> DEFINE F == Fixed(CertArguments)
<1>1. "serve-demo" \in F /\ "key to a file" \in F
  BY DEF Fixed, CertArguments
<1>2. "DnsStatus" \in Reads
  BY DEF Reads
<1> HIDE DEF F
<1>3. Firm(run_cert_serve_demo) /\ Hiding(run_cert_serve_demo)
  BY FirmRules, HidingRules
     DEF run_cert_serve_demo, serve_cert_demo_connection, cert_demo_config_for, cert_demo_lookup
<1>4. Quiet(When("more arguments", Refuse("always")))
  BY QuietRules
<1>5. /\ Quiet(When("more arguments", cert_domain_hint \o Refuse("always")))
      /\ Quiet(Unless("one argument", cert_domain_hint \o Refuse("always")))
  BY <1>2, QuietRules DEF cert_domain_hint
<1>6. Careful(When("more arguments", Refuse("always")) \o run_cert_serve_demo, F)
  BY <1>3, <1>4, CarefulRules
<1>7. Past(When("serve-demo", When("more arguments", Refuse("always")) \o
                     run_cert_serve_demo \o Return("always")), F)
  BY <1>1, <1>6, CarefulRules DEF EndsWhen
<1>8. Past(cert_invocation, F)
  BY <1>5, <1>7, CarefulRules DEF cert_invocation
<1>9. Hiding(cert_invocation)
  BY <1>3, <1>4, <1>5, HidingRules DEF cert_invocation
<1>10. Quiet(parse_min_validity)
  BY QuietRules DEF parse_min_validity
<1>11. Past(parse_min_validity \o cert_invocation, F)
  BY <1>8, <1>10, CarefulRules
<1>12. Past(parse_min_validity \o cert_invocation, F) => Spent(parse_min_validity \o cert_invocation, F)
  BY SpentRules
<1>13. Keyless(Ask("Cert")) /\ Keyless(Refuse("no safe default path"))
  BY SpentRules
<1>14. Keyless(emit("cert to a file", "cert path names no file", "cert temp", "cert renamed"))
  BY SpentRules DEF emit, CertHalves
<1>15. Keyed(emit("key to a file", "key path names no file", "key temp", "key renamed"), F)
  <2>1. Firm(Effect("key temp")) /\ Firm(Effect("key renamed"))
    BY FirmRules
  <2>2. Careful(Refuse("key path names no file") \o Effect("key temp") \o Effect("key renamed"), F)
    BY <2>1, QuietRules, CarefulRules
  <2>3. Careful(When("key to a file", Refuse("key path names no file") \o Effect("key temp")
                                        \o Effect("key renamed")), F)
    BY <1>1, <2>2, CarefulRules
  <2> QED
    BY <2>3, SpentRules DEF emit
<1>16. Spent(parse_min_validity \o cert_invocation \o Ask("Cert") \o Refuse("no safe default path")
               \o emit("cert to a file", "cert path names no file", "cert temp", "cert renamed"), F)
  BY <1>11, <1>12, <1>13, <1>14, SpentRules
<1>17. Keyed(run_cert, F)
  BY <1>15, <1>16, SpentRules DEF run_cert
<1>18. Hiding(run_cert)
  BY <1>9, <1>10, HidingRules DEF run_cert, emit
<1>19. Solely(run_cert)
  <2>1. Solely(cert_invocation)
    BY <1>2, SolelyRules
       DEF cert_invocation, run_cert_serve_demo, serve_cert_demo_connection,
           cert_demo_config_for, cert_demo_lookup, cert_domain_hint
  <2> QED
    BY <2>1, SolelyRules DEF run_cert, emit, parse_min_validity
<1> QED
  BY <1>17, <1>18, <1>19 DEF F

LEMMA ServeCareful ==
  Careful(run_serve_v2, Fixed(ServeFlags)) /\ Hiding(run_serve_v2)
<1> DEFINE F == Fixed(ServeFlags)
           removes == Refuse("mount with off") \o get_serve_config \o
                        When("funnel", serve_host \o Ask("SetServeConfig")) \o
                        Unless("funnel", Return("nothing there") \o Ask("SetServeConfig"))
<1>1. "off" \in F /\ "funnel" \in F
  BY DEF Fixed, ServeFlags
<1> HIDE DEF F
<1>2. Quiet(check_serve_flags) /\ Quiet(serve_host) /\ Quiet(get_serve_config) /\ Quiet(build_web_serve)
  BY PlainHostScripts
<1>3. Careful(When("funnel", serve_host \o Ask("SetServeConfig")), F)
  BY <1>1, <1>2, FirmRules, CarefulRules
<1>4. Careful(removes, F)
  BY <1>2, <1>3, QuietRules, FirmRules, CarefulRules
<1>5. Hiding(removes)
  BY <1>2, HidingRules
<1>6. serve_off = removes \o Return("always")
  BY DEF serve_off
<1> HIDE DEF removes
<1>7. Past(When("off", serve_off), F)
  BY <1>1, <1>4, <1>6, CarefulRules DEF EndsWhen
<1>8. Hiding(When("off", serve_off))
  BY <1>5, <1>6, HidingRules
<1>9. Firm(Unless("background", hold_foreground_serve)) /\ Hiding(Unless("background", hold_foreground_serve))
  BY FirmRules, HidingRules DEF hold_foreground_serve
<1>10. Past(check_serve_flags \o Refuse("trailing word") \o When("off", serve_off), F)
  BY <1>2, <1>7, QuietRules, CarefulRules
<1>11. Past(check_serve_flags \o Refuse("trailing word") \o When("off", serve_off)
              \o Refuse("no target, or a mount without a web serve")
              \o When("host needed", serve_host) \o get_serve_config
              \o When("host needed", build_web_serve), F)
  BY <1>2, <1>10, QuietRules, CarefulRules
<1>12. Careful(run_serve_v2, F)
  BY <1>9, <1>11, FirmRules, CarefulRules DEF run_serve_v2
<1>13. Hiding(run_serve_v2)
  BY <1>2, <1>8, <1>9, HidingRules DEF run_serve_v2
<1> QED
  BY <1>12, <1>13 DEF F

(* Scripts that do not succeed without a round trip: whatever their        *)
(* arguments are, or where the conditions of a promise hold.               *)
Surely(s, request) == Lasting(s) /\ Includes(s, request)

LEMMA WellFormedRules ==
  /\ \A arg : /\ WellFormed(Ask(arg)) /\ WellFormed(Try(arg)) /\ WellFormed(Refuse(arg))
              /\ WellFormed(Return(arg)) /\ WellFormed(FailIf(arg)) /\ WellFormed(Effect(arg))
  /\ \A s, t : WellFormed(s) /\ WellFormed(t) => WellFormed(s \o t)
  /\ \A fact, s : WellFormed(s) =>
       WellFormed(When(fact, s)) /\ WellFormed(Unless(fact, s)) /\ WellFormed(Repeat(fact, s))
BY StepRules, CatWellFormed, GuardedFacts, RepeatFacts DEF When, Unless

LEMMA SurelyRules ==
  /\ \A request : Surely(Ask(request), request)
  /\ \A s, t, request : Lasting(s) /\ Surely(t, request) => Surely(s \o t, request)
  /\ \A s, t, request : Surely(s, request) /\ Lasting(t) => Surely(s \o t, request)
  /\ \A s, w, request, F : Surely(s, request) => Answers(s, w, request, F)
BY LastingRules, IncludesRules, AnswersRules DEF Surely, Lasting

LEMMA NodePledges ==
  /\ Surely(run_up, "Up") /\ Surely(run_set, "Set") /\ Surely(run_logout, "Logout")
  /\ Surely(run_reload_config, "ReloadConfig") /\ Surely(run_shutdown, "Shutdown")
<1>1. Lasting(refuse_ssh_toggle_risk_if_needed)
  BY LastingRules DEF refuse_ssh_toggle_risk_if_needed
<1>2. Surely(run_up, "Up")
  <2> DEFINE pre == resolve_wif \o check_ported_up_flags \o
                      Refuse("allow-lan without exit node") \o
                      When("force-reauth", When("over Tailscale ssh",
                             Unless("risk accepted", Refuse("always")))) \o
                      refuse_ssh_toggle_risk_if_needed \o resolve_authkey
  <2>1. Lasting(UpTaken)
    BY LastingRules DEF UpTaken, poll_for_auth_url, fetch_backend_state, wait_for_running
  <2>2. /\ Lasting(resolve_wif) /\ Lasting(check_ported_up_flags) /\ Lasting(resolve_authkey)
        /\ Lasting(When("force-reauth", When("over Tailscale ssh",
                          Unless("risk accepted", Refuse("always")))))
    BY LastingRules DEF resolve_wif, check_ported_up_flags, check_host_routes, resolve_authkey
  <2>3. Lasting(pre)
    BY <1>1, <2>2, LastingRules
  <2>4. run_up = pre \o Ask("Up") \o UpTaken
    BY DEF run_up
  <2> HIDE DEF pre
  <2> QED
    BY <2>1, <2>3, <2>4, SurelyRules
<1>3. Surely(run_set, "Set")
  <2>1. Lasting(check_unmodelled_set_flags)
    BY LastingRules
       DEF check_unmodelled_set_flags, parse_relay_server_port, parse_relay_static_endpoints
  <2>2. Lasting(refuse_ssh_toggle_risk_if_needed \o check_unmodelled_set_flags)
    BY <1>1, <2>1, LastingRules
  <2> QED
    BY <2>2, SurelyRules DEF run_set
<1> QED
  BY <1>2, <1>3, LastingRules, SurelyRules DEF run_logout, run_reload_config, run_shutdown

LEMMA ToolPledges ==
  /\ Surely(run_debug_capture, "DebugCapture") /\ Surely(run_debug_rebind, "DebugRebind")
  /\ Surely(run_debug_restun, "DebugReStun") /\ Surely(run_check_prefs, "CheckPrefs")
  /\ Surely(run_metrics, "Metrics") /\ Surely(run_id_token, "IdToken")
  /\ Surely(run_lock_sign, "LockSign") /\ Surely(run_lock_disable, "LockDisable")
<1>1. /\ Surely(run_debug_capture, "DebugCapture") /\ Surely(run_debug_rebind, "DebugRebind")
      /\ Surely(run_debug_restun, "DebugReStun") /\ Surely(run_check_prefs, "CheckPrefs")
  BY SurelyRules DEF run_debug_capture, run_debug_rebind, run_debug_restun, run_check_prefs
<1>2. /\ Surely(run_id_token, "IdToken") /\ Surely(run_lock_sign, "LockSign")
      /\ Surely(run_lock_disable, "LockDisable")
  BY SurelyRules DEF run_id_token, run_lock_sign, run_lock_disable
<1>3. Surely(run_metrics, "Metrics")
  <2>1. Lasting(When("write", Effect("metrics file")))
    BY LastingRules
  <2> QED
    BY <2>1, SurelyRules DEF run_metrics
<1> QED
  BY <1>1, <1>2, <1>3

LEMMA HostPledges ==
  /\ Lasting(check_serve_flags) /\ Lasting(serve_host) /\ Lasting(get_serve_config)
  /\ Lasting(build_web_serve)
  /\ Surely(run_nc, "Nc") /\ Surely(run_serve_reset, "SetServeConfig")
  /\ Surely(run_funnel_toggle, "SetServeConfig")
<1>1. Lasting(serve_host) /\ Lasting(get_serve_config) /\ Lasting(build_web_serve)
  BY LastingRules DEF serve_host, get_serve_config, build_web_serve, clean_url_path
<1>2. Lasting(check_serve_flags)
  <2>1. Lasting(parse_accept_app_caps) /\ Lasting(clean_url_path) /\ Lasting(serve_kind_and_port)
    BY LastingRules DEF parse_accept_app_caps, clean_url_path, serve_kind_and_port
  <2>2. /\ Lasting(When("service", When("funnel", Refuse("always"))
                                     \o Unless("background", Refuse("always"))))
        /\ Lasting(Unless("service", Refuse("tun"))) /\ Lasting(When("service", Refuse("always")))
    BY LastingRules
  <2> QED
    BY <2>1, <2>2, LastingRules DEF check_serve_flags
<1>3. Surely(run_funnel_toggle, "SetServeConfig")
  BY <1>1, <1>2, LastingRules, SurelyRules DEF run_funnel_toggle
<1> QED
  BY <1>1, <1>2, <1>3, LastingRules, SurelyRules DEF run_nc, run_serve_reset

LEMMA DownPledge ==
  ASSUME NEW F
  PROVE  Answers(run_down, {<<"already stopped", FALSE>>}, "Down", F)
<1> DEFINE w == {<<"already stopped", FALSE>>}
<1>1. <<"already stopped", FALSE>> \in w
  OBVIOUS
<1> HIDE DEF w
<1>2. Lasting(Refuse("positional arguments")
                \o When("over Tailscale ssh", Unless("risk accepted", Confirm("lose-ssh")))
                \o Ask("Status"))
  BY LastingRules
<1>3. Mute(Refuse("positional arguments")
             \o When("over Tailscale ssh", Unless("risk accepted", Confirm("lose-ssh")))
             \o Ask("Status") \o Return("already stopped"), w)
  BY <1>1, <1>2, MuteRules
<1> QED
  BY <1>3, AnswersRules DEF run_down, w

LEMMA SwitchPledges ==
  LET F == Fixed(SwitchArguments)
  IN  /\ Answers(run_switch, {<<"remove", TRUE>>}, "DeleteProfile", F)
      /\ Answers(run_switch, {<<"remove", FALSE>>, <<"list", FALSE>>, <<"new", TRUE>>},
                 "CreateProfile", F)
      /\ Answers(run_switch, {<<"remove", FALSE>>, <<"list", FALSE>>, <<"new", FALSE>>},
                 "SwitchProfile", F)
<1> DEFINE F == Fixed(SwitchArguments)
           usage == Refuse("usage")
           removes == When("remove", Ask("DeleteProfile") \o Return("always"))
           lists == When("list", Ask("ProfileList") \o Return("always"))
           makes == When("new", Ask("CreateProfile") \o Return("always"))
           w1 == {<<"remove", TRUE>>}
           w2 == {<<"remove", FALSE>>, <<"list", FALSE>>, <<"new", TRUE>>}
           w3 == {<<"remove", FALSE>>, <<"list", FALSE>>, <<"new", FALSE>>}
<1>1. "remove" \in F /\ "new" \in F
  BY DEF Fixed, SwitchArguments
<1>2. /\ <<"remove", TRUE>> \in w1
      /\ <<"remove", FALSE>> \in w2 /\ <<"list", FALSE>> \in w2 /\ <<"new", TRUE>> \in w2
      /\ <<"remove", FALSE>> \in w3 /\ <<"list", FALSE>> \in w3 /\ <<"new", FALSE>> \in w3
  OBVIOUS
<1>3. run_switch = usage \o removes \o lists \o makes \o Ask("SwitchProfile")
  BY DEF run_switch
<1> HIDE DEF F, w1, w2, w3
<1>4. \A w : Mute(usage, w)
  BY LastingRules, MuteRules
<1>5. WellFormed(removes) /\ WellFormed(lists) /\ WellFormed(makes) /\ WellFormed(Ask("SwitchProfile"))
  BY WellFormedRules
<1>6. Answers(removes, w1, "DeleteProfile", F)
  BY <1>1, <1>2, WellFormedRules, AnswersRules
<1>7. /\ Mute(removes, w2) /\ Mute(lists, w2)
      /\ Mute(removes, w3) /\ Mute(lists, w3) /\ Mute(makes, w3)
  BY <1>2, WellFormedRules, MuteRules
<1>8. Answers(makes, w2, "CreateProfile", F)
  BY <1>1, <1>2, WellFormedRules, AnswersRules
<1> HIDE DEF usage, removes, lists, makes
<1>9. Answers(run_switch, w1, "DeleteProfile", F)
  BY <1>3, <1>4, <1>5, <1>6, AnswersRules
<1>10. Mute(usage \o removes \o lists, w2) /\ Mute(usage \o removes \o lists \o makes, w3)
  BY <1>4, <1>7, MuteRules
<1>11. Answers(run_switch, w2, "CreateProfile", F)
  BY <1>3, <1>5, <1>8, <1>10, AnswersRules
<1>12. Answers(run_switch, w3, "SwitchProfile", F)
  BY <1>3, <1>10, AnswersRules
<1> QED
  BY <1>9, <1>11, <1>12 DEF F, w1, w2, w3

LEMMA StatedirPledge ==
  ASSUME NEW F
  PROVE  Answers(run_debug_statedir, {<<"local", FALSE>>}, "DebugStateDir", F)
<1> DEFINE w == {<<"local", FALSE>>}
<1>1. <<"local", FALSE>> \in w
  OBVIOUS
<1> HIDE DEF w
<1>2. Mute(Refuse("positional arguments") \o When("local", Return("always")), w)
  BY <1>1, LastingRules, WellFormedRules, MuteRules
<1> QED
  BY <1>2, WellFormedRules, AnswersRules DEF run_debug_statedir, w

LEMMA CertPledge ==
  ASSUME NEW F
  PROVE  Answers(run_cert, {<<"serve-demo", FALSE>>}, "Cert", F)
<1> DEFINE w == {<<"serve-demo", FALSE>>}
<1>1. <<"serve-demo", FALSE>> \in w
  OBVIOUS
<1> HIDE DEF w
<1>2. WellFormed(When("more arguments", Refuse("always")) \o run_cert_serve_demo \o Return("always"))
  BY WellFormedRules
     DEF run_cert_serve_demo, serve_cert_demo_connection, cert_demo_config_for, cert_demo_lookup
<1>3. /\ Lasting(parse_min_validity)
      /\ Lasting(When("more arguments", cert_domain_hint \o Refuse("always")))
      /\ Lasting(Unless("one argument", cert_domain_hint \o Refuse("always")))
  BY LastingRules DEF parse_min_validity, cert_domain_hint
<1>4. Mute(When("serve-demo", When("more arguments", Refuse("always")) \o
                     run_cert_serve_demo \o Return("always")), w)
  BY <1>1, <1>2, MuteRules
<1>5. Mute(cert_invocation, w)
  BY <1>3, <1>4, MuteRules DEF cert_invocation
<1>6. Mute(parse_min_validity \o cert_invocation, w)
  BY <1>3, <1>5, MuteRules
<1>7. /\ WellFormed(emit("cert to a file", "cert path names no file", "cert temp", "cert renamed"))
      /\ WellFormed(emit("key to a file", "key path names no file", "key temp", "key renamed"))
  BY WellFormedRules DEF emit
<1> QED
  BY <1>6, <1>7, WellFormedRules, AnswersRules DEF run_cert, w

LEMMA FileGetPledges ==
  LET F == Fixed(FileArguments)
  IN  /\ Answers(run_file_get, {<<"one file", TRUE>>}, "FileGet", F)
      /\ Answers(run_file_get, {<<"one file", FALSE>>}, "FileGetDir", F)
<1> DEFINE F == Fixed(FileArguments)
           w1 == {<<"one file", TRUE>>}
           w2 == {<<"one file", FALSE>>}
           gets == When("one file", Ask("FileGet") \o Return("always"))
<1>1. "one file" \in F
  BY DEF Fixed, FileArguments
<1>2. <<"one file", TRUE>> \in w1 /\ <<"one file", FALSE>> \in w2
  OBVIOUS
<1>3. run_file_get = Refuse("no destination") \o gets \o Ask("FileGetDir") \o FailIf("the last file failed")
  BY DEF run_file_get
<1> HIDE DEF F, w1, w2
<1>4. Answers(gets, w1, "FileGet", F) /\ Mute(gets, w2)
  BY <1>1, <1>2, WellFormedRules, MuteRules, AnswersRules
<1> HIDE DEF gets
<1>5. \A w : Mute(Refuse("no destination"), w)
  BY LastingRules, MuteRules
<1>6. Answers(run_file_get, w1, "FileGet", F)
  BY <1>3, <1>4, <1>5, WellFormedRules, AnswersRules
<1>7. Answers(run_file_get, w2, "FileGetDir", F)
  BY <1>3, <1>4, <1>5, WellFormedRules, MuteRules, AnswersRules
<1> QED
  BY <1>6, <1>7 DEF F, w1, w2

LEMMA ServeVerbPledges ==
  LET F == Fixed(ServeArguments)
  IN  /\ Answers(run_serve, {<<"tcp", TRUE>>}, "SetServeConfig", F)
      /\ Answers(run_serve, {<<"tcp", FALSE>>}, "SetServeConfig", F)
<1> DEFINE F == Fixed(ServeArguments)
           w1 == {<<"tcp", TRUE>>}
           w2 == {<<"tcp", FALSE>>}
           forwards == When("tcp", get_serve_config \o Ask("SetServeConfig") \o Return("always"))
<1>1. "tcp" \in F
  BY DEF Fixed, ServeArguments
<1>2. <<"tcp", TRUE>> \in w1 /\ <<"tcp", FALSE>> \in w2
  OBVIOUS
<1> HIDE DEF F, w1, w2
<1>3. Lasting(get_serve_config) /\ Lasting(serve_host) /\ Lasting(build_web_serve)
  BY HostPledges
<1>4. WellFormed(get_serve_config \o Ask("SetServeConfig") \o Return("always"))
  BY <1>3, WellFormedRules DEF Lasting
<1>5. Answers(forwards, w1, "SetServeConfig", F)
  <2>1. Mute(get_serve_config, w1)
    BY <1>3, MuteRules
  <2>2. Answers(get_serve_config \o Ask("SetServeConfig") \o Return("always"), w1, "SetServeConfig", F)
    BY <2>1, WellFormedRules, AnswersRules
  <2> QED
    BY <1>1, <1>2, <2>2, AnswersRules
<1>6. Mute(forwards, w2)
  BY <1>2, <1>4, MuteRules
<1> HIDE DEF forwards
<1>7. Lasting(When("redirect", serve_redirect_refusals)) /\ Lasting(Unless("redirect", build_web_serve))
  BY <1>3, LastingRules DEF serve_redirect_refusals
<1>8. /\ WellFormed(When("redirect", serve_redirect_refusals)) /\ WellFormed(serve_host)
      /\ WellFormed(get_serve_config) /\ WellFormed(Unless("redirect", build_web_serve))
      /\ WellFormed(Ask("SetServeConfig"))
  BY <1>3, <1>7, WellFormedRules DEF Lasting
<1>9. run_serve = forwards \o When("redirect", serve_redirect_refusals) \o serve_host
                    \o get_serve_config \o Unless("redirect", build_web_serve)
                    \o Ask("SetServeConfig")
  BY DEF run_serve, forwards
<1>10. Answers(run_serve, w1, "SetServeConfig", F)
  BY <1>5, <1>8, <1>9, AnswersRules
<1>11. /\ Mute(When("redirect", serve_redirect_refusals), w2) /\ Mute(serve_host, w2)
       /\ Mute(get_serve_config, w2) /\ Mute(Unless("redirect", build_web_serve), w2)
  BY <1>3, <1>7, MuteRules
<1>12. Answers(run_serve, w2, "SetServeConfig", F)
  BY <1>6, <1>9, <1>11, MuteRules, AnswersRules
<1> QED
  BY <1>10, <1>12 DEF F, w1, w2

LEMMA ServePledges ==
  LET F == Fixed(ServeFlags)
  IN  /\ Answers(run_serve_v2, {<<"off", FALSE>>}, "SetServeConfig", F)
      /\ Answers(run_serve_v2, {<<"off", TRUE>>, <<"funnel", TRUE>>}, "SetServeConfig", F)
      /\ Answers(run_serve_v2, {<<"off", TRUE>>, <<"funnel", FALSE>>, <<"nothing there", FALSE>>},
                 "SetServeConfig", F)
<1> DEFINE F == Fixed(ServeFlags)
           w1 == {<<"off", FALSE>>}
           w2 == {<<"off", TRUE>>, <<"funnel", TRUE>>}
           w3 == {<<"off", TRUE>>, <<"funnel", FALSE>>, <<"nothing there", FALSE>>}
           pre == check_serve_flags \o Refuse("trailing word")
           looks == Refuse("mount with off") \o get_serve_config
           funnel == When("funnel", serve_host \o Ask("SetServeConfig"))
           web == Unless("funnel", Return("nothing there") \o Ask("SetServeConfig"))
<1>1. "off" \in F /\ "funnel" \in F
  BY DEF Fixed, ServeFlags
<1>2. /\ <<"off", FALSE>> \in w1
      /\ <<"off", TRUE>> \in w2 /\ <<"funnel", TRUE>> \in w2
      /\ <<"off", TRUE>> \in w3 /\ <<"funnel", FALSE>> \in w3 /\ <<"nothing there", FALSE>> \in w3
  OBVIOUS
<1> HIDE DEF F, w1, w2, w3
<1>3. /\ Lasting(get_serve_config) /\ Lasting(serve_host) /\ Lasting(build_web_serve)
      /\ Lasting(check_serve_flags)
  BY HostPledges
<1>4. Lasting(pre) /\ Lasting(looks)
  BY <1>3, LastingRules
<1>5. serve_off = looks \o funnel \o web \o Return("always")
  BY DEF serve_off
<1>6. WellFormed(funnel) /\ WellFormed(web)
  BY <1>3, WellFormedRules DEF Lasting
<1>7. Answers(funnel, w2, "SetServeConfig", F)
  <2>1. Answers(serve_host \o Ask("SetServeConfig"), w2, "SetServeConfig", F)
    BY <1>3, MuteRules, AnswersRules
  <2> QED
    BY <1>1, <1>2, <2>1, AnswersRules
<1>8. Mute(funnel, w3)
  <2>1. WellFormed(serve_host \o Ask("SetServeConfig"))
    BY <1>3, WellFormedRules DEF Lasting
  <2> QED
    BY <1>2, <2>1, MuteRules
<1>9. Answers(web, w3, "SetServeConfig", F)
  <2>1. Answers(Return("nothing there") \o Ask("SetServeConfig"), w3, "SetServeConfig", F)
    BY <1>2, MuteRules, AnswersRules
  <2> QED
    BY <1>1, <1>2, <2>1, AnswersRules
<1> HIDE DEF pre, looks, funnel, web
<1>10. Mute(looks, w2) /\ Mute(looks, w3)
  BY <1>4, MuteRules
<1>11. Answers(serve_off, w2, "SetServeConfig", F)
  BY <1>5, <1>6, <1>7, <1>10, WellFormedRules, AnswersRules
<1>12. Answers(serve_off, w3, "SetServeConfig", F)
  BY <1>5, <1>8, <1>9, <1>10, WellFormedRules, MuteRules, AnswersRules
<1>13. /\ Answers(When("off", serve_off), w2, "SetServeConfig", F)
       /\ Answers(When("off", serve_off), w3, "SetServeConfig", F)
  BY <1>1, <1>2, <1>11, <1>12, AnswersRules
<1>14. Mute(When("off", serve_off), w1)
  BY <1>2, <1>11, MuteRules DEF Answers
<1> DEFINE off == When("off", serve_off)
           t1 == Refuse("no target, or a mount without a web serve")
           t2 == When("host needed", serve_host)
           t3 == When("host needed", build_web_serve)
           t4 == Unless("background", hold_foreground_serve)
<1>15. run_serve_v2 = pre \o off \o t1 \o t2 \o get_serve_config \o t3 \o Ask("SetServeConfig") \o t4
  BY DEF run_serve_v2, pre
<1>16. Lasting(t1) /\ Lasting(t2) /\ Lasting(t3) /\ Lasting(t4) /\ Lasting(Ask("SetServeConfig"))
  BY <1>3, LastingRules DEF hold_foreground_serve
<1> HIDE DEF off, t1, t2, t3, t4
<1>17. /\ WellFormed(t1) /\ WellFormed(t2) /\ WellFormed(t3) /\ WellFormed(t4)
       /\ WellFormed(get_serve_config) /\ WellFormed(Ask("SetServeConfig"))
  BY <1>3, <1>16 DEF Lasting
<1>18. \A w : /\ Mute(pre, w) /\ Mute(t1, w) /\ Mute(t2, w) /\ Mute(t3, w)
              /\ Mute(get_serve_config, w)
  BY <1>3, <1>4, <1>16, MuteRules
<1>19. Answers(run_serve_v2, w1, "SetServeConfig", F)
  <2>1. Mute(pre \o off \o t1 \o t2 \o get_serve_config \o t3, w1)
    BY <1>14, <1>18, MuteRules DEF off
  <2> QED
    BY <1>15, <1>17, <2>1, AnswersRules
<1>20. Answers(run_serve_v2, w2, "SetServeConfig", F)
  <2>1. Answers(pre \o off, w2, "SetServeConfig", F)
    BY <1>13, <1>18, AnswersRules DEF off
  <2> QED
    BY <1>15, <1>17, <2>1, AnswersRules
<1>21. Answers(run_serve_v2, w3, "SetServeConfig", F)
  <2>1. Answers(pre \o off, w3, "SetServeConfig", F)
    BY <1>13, <1>18, AnswersRules DEF off
  <2> QED
    BY <1>15, <1>17, <2>1, AnswersRules
<1> QED
  BY <1>19, <1>20, <1>21 DEF F, w1, w2, w3

LEMMA LoginPledge ==
  /\ Includes(run_login, "SwitchToEmptyProfile") /\ Includes(run_login, "Up")
  /\ Lasting(run_login)
  /\ Leads(run_login, "SwitchToEmptyProfile", "in the profile")
<1> DEFINE pre == check_host_routes \o When("over Tailscale ssh", Refuse("always")) \o resolve_authkey
           switch == Ask("SwitchToEmptyProfile")
           names == When("nickname", Ask("Set"))
           ends == Unless("authkey given", poll_for_auth_url \o FailIf("registration failed"))
           A == "in the profile"
<1>1. Quiet(pre) /\ Lasting(pre)
  BY QuietRules, LastingRules DEF check_host_routes, resolve_authkey
<1>2. WellFormed(pre) /\ Lacks(pre, A)
  BY <1>1, TouchingFacts DEF Quiet
<1>3. Lasting(switch) /\ Lasting(names)
  BY LastingRules
<1>4. Lasting(ends)
  BY LastingRules DEF poll_for_auth_url
<1>5. Includes(switch, "SwitchToEmptyProfile") /\ Lacks(switch, A)
  <2>1. ~Kind(A, "ask", "SwitchToEmptyProfile")
    BY DEF Kind
  <2> QED
    BY <2>1, IncludesRules, StepRules
<1>6. run_login = pre \o (switch \o names) \o Ask("Up") \o ends
  BY DEF run_login, login_profile_requests
<1> HIDE DEF pre, switch, names, ends, A
<1>7. Leads(pre, "SwitchToEmptyProfile", A) /\ Leads(switch, "SwitchToEmptyProfile", A)
  BY <1>2, <1>5, LackingFacts
<1>8. /\ Leads(switch \o names, "SwitchToEmptyProfile", A)
      /\ Includes(switch \o names, "SwitchToEmptyProfile") /\ Lasting(switch \o names)
  BY <1>3, <1>5, <1>7, CatLeads, LastingRules DEF Lasting
<1>9. /\ Leads(pre \o (switch \o names), "SwitchToEmptyProfile", A)
      /\ Includes(pre \o (switch \o names), "SwitchToEmptyProfile")
      /\ Lasting(pre \o (switch \o names))
  BY <1>1, <1>2, <1>7, <1>8, CatLeads, LastingRules DEF Lasting
<1>10. /\ Leads(pre \o (switch \o names) \o Ask("Up"), "SwitchToEmptyProfile", A)
       /\ Includes(pre \o (switch \o names) \o Ask("Up"), "SwitchToEmptyProfile")
       /\ Includes(pre \o (switch \o names) \o Ask("Up"), "Up")
       /\ Lasting(pre \o (switch \o names) \o Ask("Up"))
  <2>1. Lasting(Ask("Up")) /\ Includes(Ask("Up"), "Up")
    BY LastingRules, IncludesRules
  <2>2. WellFormed(pre \o (switch \o names)) /\ WellFormed(Ask("Up"))
    BY <1>9, <2>1 DEF Lasting
  <2> QED
    BY <1>9, <2>1, <2>2, CatLeads, LastingRules
<1>11. /\ WellFormed(pre \o (switch \o names) \o Ask("Up")) /\ WellFormed(ends)
  BY <1>4, <1>10 DEF Lasting
<1> QED
  BY <1>4, <1>6, <1>10, <1>11, CatLeads, LastingRules DEF A

LEMMA LockInitScript ==
  /\ \A F : Careful(run_lock_init, F) /\ Single(run_lock_init, F)
  /\ Includes(run_lock_init, "LockInit") /\ Leads(run_lock_init, "LockInit", "showing")
  /\ \A F : Answers(run_lock_init, {<<"confirm", TRUE>>}, "LockInit", F)
<1> DEFINE w == {<<"confirm", TRUE>>}
           refusals == Refuse("already enabled") \o parse_lock_args \o lock_init_refusals
           plan == Unless("confirm", Return("always"))
           makes == Ask("LockInit")
           shows == Effect("secret shown")
<1>1. "LockStatus" \in Reads
  BY DEF Reads
<1>2. Quiet(refusals) /\ Lasting(refusals)
  <2>1. Quiet(lock_init_refusals) /\ Lasting(lock_init_refusals)
    BY QuietRules, LastingRules DEF lock_init_refusals
  <2> QED
    BY <2>1, QuietRules, LastingRules DEF parse_lock_args
<1>3. Quiet(plan)
  BY QuietRules
<1>4. Quiet(Ask("LockStatus")) /\ Lasting(Ask("LockStatus"))
  BY <1>1, QuietRules, LastingRules
<1>5. run_lock_init = Ask("LockStatus") \o (refusals \o plan) \o makes \o shows
  BY DEF run_lock_init, plan_lock_init
<1>6. Mute(plan, w)
  <2>1. <<"confirm", TRUE>> \in w
    OBVIOUS
  <2> HIDE DEF w
  <2> QED
    BY <2>1, WellFormedRules, MuteRules
<1>7. /\ Firm(makes) /\ Lasting(makes) /\ Hiding(makes) /\ Includes(makes, "LockInit")
      /\ Firm(shows) /\ Lasting(shows) /\ Reading(shows)
  BY FirmRules, LastingRules, HidingRules, ReadingRules, IncludesRules
<1> HIDE DEF refusals, plan, makes, shows, w
<1> DEFINE pre == Ask("LockStatus") \o (refusals \o plan)
<1>8. Quiet(pre)
  BY <1>2, <1>3, <1>4, QuietRules
<1>9. Mute(pre, w)
  BY <1>2, <1>4, <1>6, MuteRules
<1> HIDE DEF pre
<1>11. WellFormed(pre) /\ WellFormed(makes) /\ WellFormed(shows) /\ WellFormed(pre \o makes)
  BY <1>7, <1>8, CatWellFormed DEF Quiet, Firm
<1>12. ASSUME NEW F PROVE Answers(pre \o makes \o shows, w, "LockInit", F)
  <2>1. Answers(makes, w, "LockInit", F)
    BY AnswersRules DEF makes
  <2> QED
    BY <1>9, <1>11, <2>1, AnswersRules
<1>13. Includes(pre \o makes \o shows, "LockInit") /\ Leads(pre \o makes \o shows, "LockInit", "showing")
  <2>1. Leads(pre, "LockInit", "showing") /\ Leads(makes, "LockInit", "showing")
    BY <1>7, <1>8, HidingRules, LackingFacts DEF Hiding
  <2>2. Leads(pre \o makes, "LockInit", "showing") /\ Includes(pre \o makes, "LockInit")
    BY <1>7, <1>11, <2>1, CatLeads
  <2> QED
    BY <1>11, <2>2, CatLeads
<1>14. ASSUME NEW F PROVE Careful(pre \o makes \o shows, F) /\ Single(pre \o makes \o shows, F)
  <2>1. Single(makes, F)
    BY SingleRules DEF makes
  <2> QED
    BY <1>7, <1>8, <2>1, CarefulRules, ReadingRules, SingleRules
<1> QED
  BY <1>5, <1>12, <1>13, <1>14 DEF pre, w

(* A copy goes on to the files that are left when one is refused, and says *)
(* so at its end.                                                          *)
IsAttempt(step) == step.op = "tolerate" /\ step.arg = "FileCp" /\ step.when = {}
Attempts(s) == WellFormed(s) /\ \E i \in 1 .. Len(s) : IsAttempt(s[i])
IsCheck(step) == step.op = "fail" /\ step.arg = "a file failed" /\ step.when = {}
Checks(s) == WellFormed(s) /\ Len(s) \in 1 .. Len(s) /\ IsCheck(s[Len(s)])

LEMMA AttemptsRules ==
  /\ Attempts(Tolerate("FileCp"))
  /\ \A s, t : WellFormed(s) /\ WellFormed(t) /\ (Attempts(s) \/ Attempts(t)) => Attempts(s \o t)
  /\ \A s : WellFormed(s) => Checks(s \o FailIf("a file failed"))
<1>1. Attempts(Tolerate("FileCp"))
  <2>1. "tolerate" \in Ops
    BY DEF Ops
  <2>2. /\ Len(Tolerate("FileCp")) = 1 /\ WellFormed(Tolerate("FileCp"))
        /\ Tolerate("FileCp")[1] = [op |-> "tolerate", arg |-> "FileCp", when |-> {}]
    BY <2>1, StepShape DEF Tolerate
  <2>3. 1 \in 1 .. Len(Tolerate("FileCp")) /\ IsAttempt(Tolerate("FileCp")[1])
    BY <2>2 DEF IsAttempt
  <2> QED
    BY <2>2, <2>3 DEF Attempts
<1>2. ASSUME NEW s, NEW t, WellFormed(s), WellFormed(t), Attempts(s) \/ Attempts(t)
      PROVE  Attempts(s \o t)
  <2> DEFINE u == s \o t
  <2>1. WellFormed(u) /\ Joined(u, s, t)
    BY <1>2, CatShape, CatWellFormed
  <2> HIDE DEF u
  <2>2. /\ \A i \in 1 .. Len(s) : i \in 1 .. Len(u) /\ u[i] = s[i]
        /\ \A i \in 1 .. Len(t) : Len(s) + i \in 1 .. Len(u) /\ u[Len(s) + i] = t[i]
    <3>1. Len(s) \in Nat /\ Len(t) \in Nat /\ Len(u) = Len(s) + Len(t)
      BY <2>1 DEF Joined
    <3>2. /\ \A i \in 1 .. Len(s) : i \in 1 .. Len(u)
          /\ \A i \in 1 .. Len(t) : Len(s) + i \in 1 .. Len(u)
      BY <3>1
    <3> QED
      BY <2>1, <3>2 DEF Joined
  <2>3. Attempts(u)
    BY <1>2, <2>1, <2>2 DEF Attempts
  <2> QED
    BY <2>3 DEF u
<1>3. ASSUME NEW s, WellFormed(s), NEW fact
      PROVE  LET u == s \o FailIf(fact)
             IN  /\ WellFormed(u) /\ Len(u) \in 1 .. Len(u)
                 /\ u[Len(u)].op = "fail" /\ u[Len(u)].arg = fact /\ u[Len(u)].when = {}
  <2> DEFINE t == FailIf(fact)
             u == s \o t
  <2>1. "fail" \in Ops
    BY DEF Ops
  <2>2. /\ Len(t) = 1 /\ WellFormed(t)
        /\ t[1] = [op |-> "fail", arg |-> fact, when |-> {}]
    BY <2>1, StepShape DEF FailIf
  <2> HIDE DEF t
  <2>3. WellFormed(u) /\ Joined(u, s, t)
    BY <1>3, <2>2, CatShape, CatWellFormed
  <2> HIDE DEF u
  <2>4. Len(s) \in Nat /\ Len(u) = Len(s) + 1 /\ u[Len(s) + 1] = t[1]
    <3>1. 1 \in 1 .. Len(t)
      BY <2>2
    <3> QED
      BY <2>2, <2>3, <3>1 DEF Joined
  <2>5. u[Len(u)] = t[1] /\ Len(u) \in 1 .. Len(u)
    BY <2>4
  <2>6. u[Len(u)].op = "fail" /\ u[Len(u)].arg = fact /\ u[Len(u)].when = {}
    BY <2>2, <2>5
  <2> QED
    BY <2>3, <2>5, <2>6 DEF u, t
<1>4. \A s : WellFormed(s) => Checks(s \o FailIf("a file failed"))
  BY <1>3 DEF Checks, IsCheck
<1> QED
  BY <1>1, <1>2, <1>4

LEMMA FileCpPledge ==
  Attempts(run_file_cp) /\ Checks(run_file_cp) /\ Mute(run_file_cp, {<<"targets", FALSE>>})
<1> DEFINE w == {<<"targets", FALSE>>}
           targets == When("targets", Refuse("arguments") \o run_file_targets \o Return("always"))
           t1 == Refuse("fewer than two arguments")
           t2 == When("several files", Refuse("one name for them") \o Refuse("standard input among them"))
           t3 == When("several files", Repeat("files left", send_cp_file))
           last == FailIf("a file failed")
<1>1. <<"targets", FALSE>> \in w
  OBVIOUS
<1> HIDE DEF w
<1>2. run_file_cp = targets \o t1 \o parse_cp_target \o t2 \o send_cp_file \o t3 \o last
  BY DEF run_file_cp
<1>3. WellFormed(targets) /\ Mute(targets, w)
  <2>1. WellFormed(Refuse("arguments") \o run_file_targets \o Return("always"))
    BY WellFormedRules DEF run_file_targets
  <2> QED
    BY <1>1, <2>1, WellFormedRules, MuteRules
<1>4. Lasting(send_cp_file) /\ Lasting(parse_cp_target)
  BY LastingRules DEF send_cp_file, resolve_cp_file, parse_cp_target
<1>5. Lasting(t1) /\ Lasting(t2) /\ Lasting(t3) /\ Lasting(last)
  BY <1>4, LastingRules
<1>6. Attempts(send_cp_file)
  <2>1. WellFormed(resolve_cp_file) /\ WellFormed(Tolerate("FileCp"))
    BY LastingRules DEF resolve_cp_file, Lasting
  <2> QED
    BY <2>1, AttemptsRules DEF send_cp_file
<1> HIDE DEF targets, t1, t2, t3
<1>7. /\ WellFormed(t1) /\ WellFormed(t2) /\ WellFormed(t3) /\ WellFormed(last)
      /\ WellFormed(send_cp_file) /\ WellFormed(parse_cp_target)
  BY <1>4, <1>5 DEF Lasting
<1>8. WellFormed(targets \o t1 \o parse_cp_target \o t2)
  BY <1>3, <1>7, CatWellFormed
<1>9. Attempts(targets \o t1 \o parse_cp_target \o t2 \o send_cp_file)
  BY <1>6, <1>7, <1>8, AttemptsRules
<1>10. Attempts(targets \o t1 \o parse_cp_target \o t2 \o send_cp_file \o t3)
  BY <1>7, <1>9, AttemptsRules DEF Attempts
<1>11. Attempts(run_file_cp) /\ Checks(run_file_cp)
  BY <1>2, <1>7, <1>10, AttemptsRules DEF Attempts
<1>12. Mute(run_file_cp, w)
  BY <1>2, <1>3, <1>4, <1>5, MuteRules
<1> QED
  BY <1>11, <1>12 DEF w

-----------------------------------------------------------------------------
(* What the promises are.                                                  *)
Pledges ==
  {"Up", "SwitchToEmptyProfile", "Set", "Down", "Logout", "ReloadConfig", "Shutdown",
   "DeleteProfile", "CreateProfile", "SwitchProfile", "DebugCapture", "DebugRebind",
   "DebugReStun", "CheckPrefs", "DebugStateDir", "Metrics", "IdToken", "Cert", "LockSign",
   "LockDisable", "LockInit", "FileGet", "FileGetDir", "FileCp", "Nc", "SetServeConfig"}
Promising ==
  {"up", "login", "set", "down", "logout", "reload-config", "shutdown", "switch",
   "debug capture", "debug rebind", "debug restun", "debug check-prefs", "debug statedir",
   "metrics", "id-token", "cert", "lock sign", "lock disable", "lock init", "file get",
   "file cp", "nc", "serve reset", "funnel toggle", "serve verb", "serve", "funnel"}

LEMMA PromisesMade ==
  /\ Promises("up") = For("Up", {})
  /\ Promises("login") = For("SwitchToEmptyProfile", {}) \union For("Up", {})
  /\ Promises("set") = For("Set", {})
  /\ Promises("down") = For("Down", {<<"already stopped", FALSE>>})
  /\ Promises("logout") = For("Logout", {})
  /\ Promises("reload-config") = For("ReloadConfig", {})
  /\ Promises("shutdown") = For("Shutdown", {})
  /\ Promises("switch") =
       For("DeleteProfile", {<<"remove", TRUE>>})
         \union For("CreateProfile", {<<"remove", FALSE>>, <<"list", FALSE>>, <<"new", TRUE>>})
         \union For("SwitchProfile", {<<"remove", FALSE>>, <<"list", FALSE>>, <<"new", FALSE>>})
BY DEF Promises

LEMMA PromisesOfTools ==
  /\ Promises("debug capture") = For("DebugCapture", {})
  /\ Promises("debug rebind") = For("DebugRebind", {})
  /\ Promises("debug restun") = For("DebugReStun", {})
  /\ Promises("debug check-prefs") = For("CheckPrefs", {})
  /\ Promises("debug statedir") = For("DebugStateDir", {<<"local", FALSE>>})
  /\ Promises("metrics") = For("Metrics", {})
  /\ Promises("id-token") = For("IdToken", {})
  /\ Promises("cert") = For("Cert", {<<"serve-demo", FALSE>>})
  /\ Promises("lock sign") = For("LockSign", {})
  /\ Promises("lock disable") = For("LockDisable", {})
  /\ Promises("lock init") = For("LockInit", {<<"confirm", TRUE>>})
BY DEF Promises

LEMMA PromisesOfHost ==
  /\ Promises("file get") =
       For("FileGet", {<<"one file", TRUE>>}) \union For("FileGetDir", {<<"one file", FALSE>>})
  /\ Promises("file cp") = For("FileCp", {<<"targets", FALSE>>})
  /\ Promises("nc") = For("Nc", {})
  /\ Promises("serve reset") = For("SetServeConfig", {})
  /\ Promises("funnel toggle") = For("SetServeConfig", {})
  /\ Promises("serve verb") =
       For("SetServeConfig", {<<"tcp", TRUE>>}) \union For("SetServeConfig", {<<"tcp", FALSE>>})
  /\ \A command \in {"serve", "funnel"} :
       Promises(command) =
         For("SetServeConfig", {<<"off", FALSE>>})
           \union For("SetServeConfig", {<<"off", TRUE>>, <<"funnel", TRUE>>})
           \union For("SetServeConfig",
                     {<<"off", TRUE>>, <<"funnel", FALSE>>, <<"nothing there", FALSE>>})
BY DEF Promises

LEMMA PromisesNothing ==
  ASSUME NEW command, command \notin Promising
  PROVE  Promises(command) = {}
BY DEF Promises, Promising

(* Every entry of the table is fine: its refusals come first, cert's       *)
(* before its key is in a file; it writes once unless it is several writes *)
(* by design; no secret is shown before the lock exists; and it does not   *)
(* get to a success without the round trips it promises.                   *)
Keeping(s, F, promises) ==
  \A p \in promises : p.write \in Pledges /\ Answers(s, p.when, p.write, F)

Keeps(command, s, args) ==
  /\ command # "file cp" => Keeping(s, Fixed(args), Promises(command))
  /\ command = "file cp" =>
       /\ Attempts(s) /\ Checks(s) /\ Mute(s, {<<"targets", FALSE>>})
       /\ "a file failed" \notin args
  /\ command = "login" => Leads(s, "SwitchToEmptyProfile", "in the profile")

Fine(command, entry) ==
  /\ WellFormed(entry.script)
  /\ command # "cert" => Careful(entry.script, Fixed(entry.args))
  /\ command = "cert" => Keyed(entry.script, Fixed(entry.args)) /\ Solely(entry.script)
  /\ command \notin Several => Single(entry.script, Fixed(entry.args))
  /\ Leads(entry.script, "LockInit", "showing")
  /\ Keeps(command, entry.script, entry.args)

AllFine(table) == \A command \in DOMAIN table : Fine(command, table[command])

LEMMA OverlayFacts ==
  ASSUME NEW f, NEW g
  PROVE  /\ DOMAIN (f @@ g) = DOMAIN f \union DOMAIN g
         /\ \A x \in DOMAIN f : (f @@ g)[x] = f[x]
         /\ \A x \in DOMAIN g \ DOMAIN f : (f @@ g)[x] = g[x]
<1>1. f @@ g = Overlaid(f, g)
  BY DEF @@
<1>2. /\ DOMAIN Overlaid(f, g) = DOMAIN f \union DOMAIN g
      /\ \A x \in DOMAIN f : Overlaid(f, g)[x] = f[x]
      /\ \A x \in DOMAIN g \ DOMAIN f : Overlaid(f, g)[x] = g[x]
  BY DEF Overlaid
<1> QED
  BY <1>1, <1>2

LEMMA AllFineRules ==
  /\ \A command, entry : Fine(command, entry) => AllFine(command :> entry)
  /\ \A f, g : AllFine(f) /\ AllFine(g) => AllFine(f @@ g)
<1>1. ASSUME NEW command, NEW entry, Fine(command, entry) PROVE AllFine(command :> entry)
  <2>1. DOMAIN (command :> entry) = {command} /\ (command :> entry)[command] = entry
    BY DEF :>
  <2> QED
    BY <1>1, <2>1 DEF AllFine
<1>2. ASSUME NEW f, NEW g, AllFine(f), AllFine(g) PROVE AllFine(f @@ g)
  <2>1. /\ DOMAIN (f @@ g) = DOMAIN f \union DOMAIN g
        /\ \A x \in DOMAIN f : (f @@ g)[x] = f[x]
        /\ \A x \in DOMAIN g \ DOMAIN f : (f @@ g)[x] = g[x]
    BY OverlayFacts
  <2> QED
    BY <1>2, <2>1 DEF AllFine
<1> QED
  BY <1>1, <1>2

LEMMA KeepingRules ==
  /\ \A s, F, request, w :
       request \in Pledges /\ Answers(s, w, request, F) => Keeping(s, F, For(request, w))
  /\ \A s, F, P, Q : Keeping(s, F, P) /\ Keeping(s, F, Q) => Keeping(s, F, P \union Q)
  /\ \A s, F, request : request \in Pledges /\ Surely(s, request) => Keeping(s, F, For(request, {}))
<1>1. ASSUME NEW s, NEW F, NEW request \in Pledges, NEW w, Answers(s, w, request, F)
      PROVE  Keeping(s, F, For(request, w))
  <2>1. \A p \in For(request, w) : p.write = request /\ p.when = w
    BY DEF For
  <2> QED
    BY <1>1, <2>1 DEF Keeping
<1>2. \A s, F, P, Q : Keeping(s, F, P) /\ Keeping(s, F, Q) => Keeping(s, F, P \union Q)
  BY DEF Keeping
<1> QED
  BY <1>1, <1>2, SurelyRules

LEMMA PledgeKept ==
  ASSUME NEW command, NEW s, NEW request \in Pledges, Promises(command) = For(request, {}),
         Surely(s, request)
  PROVE  \A F : Keeping(s, F, Promises(command))
BY KeepingRules

LEMMA PledgeMet ==
  ASSUME NEW command, NEW s, NEW request \in Pledges, NEW w, NEW F,
         Promises(command) = For(request, w), Answers(s, w, request, F)
  PROVE  Keeping(s, F, Promises(command))
BY KeepingRules

LEMMA FineRules ==
  /\ \A command, s, args : Plain(s, Fixed(args)) /\ command \notin Promising =>
       Fine(command, [script |-> s, args |-> args])
  /\ \A command, s, args :
       /\ Plain(s, Fixed(args)) /\ command \notin {"login", "file cp", "cert"}
       /\ Keeping(s, Fixed(args), Promises(command))
       => Fine(command, [script |-> s, args |-> args])
  /\ \A command, s, args :
       /\ Careful(s, Fixed(args)) /\ Hiding(s) /\ Keeps(command, s, args)
       /\ command \in Several \ {"cert"}
       => Fine(command, [script |-> s, args |-> args])
<1>1. ASSUME NEW s, Hiding(s) PROVE Leads(s, "LockInit", "showing")
  BY <1>1, LackingFacts DEF Hiding
<1>2. ASSUME NEW command, NEW s, NEW args, command \notin {"login", "file cp"},
             Keeping(s, Fixed(args), Promises(command))
      PROVE  Keeps(command, s, args)
  BY <1>2 DEF Keeps
<1>3. ASSUME NEW command, NEW s, NEW args, Plain(s, Fixed(args)), command \notin Promising
      PROVE  Fine(command, [script |-> s, args |-> args])
  <2>1. command \notin {"login", "file cp", "cert"}
    BY <1>3 DEF Promising
  <2>2. Keeping(s, Fixed(args), Promises(command))
    BY <1>3, PromisesNothing DEF Keeping
  <2> QED
    BY <1>1, <1>2, <1>3, <2>1, <2>2 DEF Fine, Plain, Hiding
<1>4. ASSUME NEW command, NEW s, NEW args, Plain(s, Fixed(args)),
             command \notin {"login", "file cp", "cert"},
             Keeping(s, Fixed(args), Promises(command))
      PROVE  Fine(command, [script |-> s, args |-> args])
  BY <1>1, <1>2, <1>4 DEF Fine, Plain, Hiding
<1>5. ASSUME NEW command \in Several \ {"cert"}, NEW s, NEW args, Careful(s, Fixed(args)),
             Hiding(s), Keeps(command, s, args)
      PROVE  Fine(command, [script |-> s, args |-> args])
  BY <1>1, <1>5 DEF Fine, Hiding
<1> QED
  BY <1>3, <1>4, <1>5

LEMMA NodeTableFine == AllFine(NodeTable)
<1> DEFINE t1 == "up" :> [script |-> run_up, args |-> UpArguments]
           t2 == "login" :> [script |-> run_login, args |-> LoginArguments]
           t3 == "set" :> [script |-> run_set, args |-> SetArguments]
           t4 == "down" :> [script |-> run_down, args |-> DownArguments]
           t5 == "logout" :> [script |-> run_logout, args |-> {}]
           t6 == "reload-config" :> [script |-> run_reload_config, args |-> {}]
           t7 == "shutdown" :> [script |-> run_shutdown, args |-> {}]
           t8 == "bugreport" :> [script |-> run_bugreport, args |-> BugreportArguments]
           t9 == "status" :> [script |-> run_status, args |-> StatusArguments]
           t10 == "switch" :> [script |-> run_switch, args |-> SwitchArguments]
           t11 == "version" :> [script |-> run_version, args |-> VersionArguments]
           t12 == "get" :> [script |-> run_get, args |-> {}]
           t13 == "appc-routes" :> [script |-> run_appc_routes, args |-> {}]
           t14 == "whoami" :> [script |-> run_whoami, args |-> {}]
           t15 == "wait" :> [script |-> run_wait, args |-> {}]
<1>0. NodeTable = t1 @@ t2 @@ t3 @@ t4 @@ t5 @@ t6 @@ t7 @@ t8 @@ t9 @@ t10 @@ t11 @@ t12 @@ t13
                  @@ t14 @@ t15
  BY DEF NodeTable
<1>1. /\ AllFine(t1) /\ AllFine(t3) /\ AllFine(t4) /\ AllFine(t5) /\ AllFine(t6) /\ AllFine(t7)
  <2>1. /\ "Up" \in Pledges /\ "Set" \in Pledges /\ "Down" \in Pledges /\ "Logout" \in Pledges
        /\ "ReloadConfig" \in Pledges /\ "Shutdown" \in Pledges
    BY DEF Pledges
  <2>2. \A F : Keeping(run_up, F, Promises("up"))
    <3>1. Promises("up") = For("Up", {})
      BY PromisesMade
    <3>2. Surely(run_up, "Up")
      BY NodePledges
    <3> QED
      BY <2>1, <3>1, <3>2, PledgeKept
  <2>3. \A F : Keeping(run_set, F, Promises("set"))
    <3>1. Promises("set") = For("Set", {})
      BY PromisesMade
    <3>2. Surely(run_set, "Set")
      BY NodePledges
    <3> QED
      BY <2>1, <3>1, <3>2, PledgeKept
  <2>4. \A F : Keeping(run_logout, F, Promises("logout"))
    <3>1. Promises("logout") = For("Logout", {})
      BY PromisesMade
    <3>2. Surely(run_logout, "Logout")
      BY NodePledges
    <3> QED
      BY <2>1, <3>1, <3>2, PledgeKept
  <2>5. \A F : Keeping(run_reload_config, F, Promises("reload-config"))
    <3>1. Promises("reload-config") = For("ReloadConfig", {})
      BY PromisesMade
    <3>2. Surely(run_reload_config, "ReloadConfig")
      BY NodePledges
    <3> QED
      BY <2>1, <3>1, <3>2, PledgeKept
  <2>6. \A F : Keeping(run_shutdown, F, Promises("shutdown"))
    <3>1. Promises("shutdown") = For("Shutdown", {})
      BY PromisesMade
    <3>2. Surely(run_shutdown, "Shutdown")
      BY NodePledges
    <3> QED
      BY <2>1, <3>1, <3>2, PledgeKept
  <2>7. \A F : Keeping(run_down, F, Promises("down"))
    <3> DEFINE w == {<<"already stopped", FALSE>>}
    <3> TAKE F
    <3>1. Promises("down") = For("Down", w)
      BY PromisesMade
    <3>2. Answers(run_down, w, "Down", F)
      BY DownPledge
    <3> HIDE DEF w
    <3> QED
      BY <2>1, <3>1, <3>2, PledgeMet
  <2> QED
    BY <2>2, <2>3, <2>4, <2>5, <2>6, <2>7, PlainNodeScripts, FineRules, AllFineRules
<1>2. /\ AllFine(t2)
  <2>1. "Up" \in Pledges /\ "SwitchToEmptyProfile" \in Pledges
    BY DEF Pledges
  <2>2. Surely(run_login, "Up") /\ Surely(run_login, "SwitchToEmptyProfile")
    BY LoginPledge DEF Surely
  <2>3. \A F : Keeping(run_login, F, Promises("login"))
    <3> TAKE F
    <3>1. Keeping(run_login, F, For("Up", {})) /\ Keeping(run_login, F, For("SwitchToEmptyProfile", {}))
      BY <2>1, <2>2, KeepingRules
    <3>2. Promises("login") = For("SwitchToEmptyProfile", {}) \union For("Up", {})
      BY PromisesMade
    <3> QED
      BY <3>1, <3>2, KeepingRules
  <2>4. Keeps("login", run_login, LoginArguments) /\ "login" \in Several \ {"cert"}
    BY <2>3, LoginPledge DEF Keeps, Several
  <2> QED
    BY <2>4, LoginCareful, FineRules, AllFineRules
<1>3. AllFine(t10)
  <2>1. "DeleteProfile" \in Pledges /\ "CreateProfile" \in Pledges /\ "SwitchProfile" \in Pledges
    BY DEF Pledges
  <2> DEFINE F == Fixed(SwitchArguments)
             w1 == {<<"remove", TRUE>>}
             w2 == {<<"remove", FALSE>>, <<"list", FALSE>>, <<"new", TRUE>>}
             w3 == {<<"remove", FALSE>>, <<"list", FALSE>>, <<"new", FALSE>>}
  <2>2. /\ Answers(run_switch, w1, "DeleteProfile", F) /\ Answers(run_switch, w2, "CreateProfile", F)
        /\ Answers(run_switch, w3, "SwitchProfile", F)
        /\ Promises("switch") = For("DeleteProfile", w1) \union For("CreateProfile", w2)
                                  \union For("SwitchProfile", w3)
    BY SwitchPledges, PromisesMade
  <2> HIDE DEF F, w1, w2, w3
  <2>3. /\ Keeping(run_switch, F, For("DeleteProfile", w1))
        /\ Keeping(run_switch, F, For("CreateProfile", w2))
        /\ Keeping(run_switch, F, For("SwitchProfile", w3))
    BY <2>1, <2>2, KeepingRules
  <2>4. Keeping(run_switch, F, Promises("switch"))
    <3> DEFINE P == For("DeleteProfile", w1)
               Q == For("CreateProfile", w2)
               R == For("SwitchProfile", w3)
    <3>1. Promises("switch") = P \union Q \union R
      BY <2>2
    <3>2. Keeping(run_switch, F, P) /\ Keeping(run_switch, F, Q) /\ Keeping(run_switch, F, R)
      BY <2>3
    <3> HIDE DEF P, Q, R
    <3>3. Keeping(run_switch, F, P \union Q)
      BY <3>2, KeepingRules
    <3>4. Keeping(run_switch, F, P \union Q \union R)
      BY <3>2, <3>3, KeepingRules
    <3> QED
      BY <3>1, <3>4
  <2> QED
    BY <2>4, SwitchScript, FineRules, AllFineRules DEF F
<1>4. /\ AllFine(t8) /\ AllFine(t9)
      /\ AllFine(t11) /\ AllFine(t12) /\ AllFine(t13) /\ AllFine(t14) /\ AllFine(t15)
  BY PlainNodeScripts, StatusScript, FineRules, AllFineRules DEF Promising
<1> HIDE DEF t1, t2, t3, t4, t5, t6, t7, t8, t9, t10, t11, t12, t13, t14, t15
<1> QED
  BY <1>0, <1>1, <1>2, <1>3, <1>4, AllFineRules

LEMMA ToolTableFine == AllFine(ToolTable)
<1> DEFINE t1 == "debug capture" :> [script |-> run_debug_capture, args |-> {}]
           t2 == "debug prefs" :> [script |-> run_debug_prefs, args |-> {}]
           t3 == "debug rebind" :> [script |-> run_debug_rebind, args |-> {}]
           t4 == "debug restun" :> [script |-> run_debug_restun, args |-> {}]
           t5 == "debug check-ip-forwarding" :> [script |-> run_check_ip_forwarding, args |-> {}]
           t6 == "debug check-prefs" :> [script |-> run_check_prefs, args |-> {}]
           t7 == "debug watch-ipn" :> [script |-> run_debug_watch_ipn, args |-> {}]
           t8 == "debug local" :> [script |-> run_debug_local, args |-> {}]
           t9 == "debug via" :> [script |-> run_debug_via, args |-> {}]
           t10 == "debug resolve" :> [script |-> run_debug_resolve, args |-> {}]
           t11 == "debug portmap" :> [script |-> run_debug_portmap, args |-> {}]
           t12 == "debug statedir" :> [script |-> run_debug_statedir, args |-> DebugArguments]
           t13 == "ip" :> [script |-> run_ip, args |-> IpArguments]
           t14 == "ping" :> [script |-> run_ping, args |-> {}]
           t15 == "metrics" :> [script |-> run_metrics, args |-> MetricsArguments]
           t16 == "whois" :> [script |-> run_whois, args |-> {}]
           t17 == "id-token" :> [script |-> run_id_token, args |-> {}]
           t18 == "dns status" :> [script |-> run_dns_status, args |-> {}]
           t19 == "dns query" :> [script |-> run_dns_query, args |-> {}]
           t20 == "netcheck" :> [script |-> run_netcheck, args |-> NetcheckArguments]
           t21 == "syspolicy list" :> [script |-> run_syspolicy_list, args |-> {}]
           t22 == "syspolicy reload" :> [script |-> run_syspolicy_reload, args |-> {}]
           t23 == "service list" :> [script |-> run_service_list, args |-> {}]
           t24 == "exit-node list" :> [script |-> run_exit_node_list, args |-> {}]
           t25 == "exit-node suggest" :> [script |-> run_exit_node_suggest, args |-> {}]
           t26 == "cert" :> [script |-> run_cert, args |-> CertArguments]
           t27 == "lock status" :> [script |-> run_lock_status, args |-> {}]
           t28 == "lock log" :> [script |-> run_lock_log, args |-> {}]
           t29 == "lock sign" :> [script |-> run_lock_sign, args |-> {}]
           t30 == "lock disable" :> [script |-> run_lock_disable, args |-> {}]
           t31 == "lock disablement-kdf" :> [script |-> run_lock_disablement_kdf, args |-> {}]
           t32 == "lock init" :> [script |-> run_lock_init, args |-> LockArguments]
<1>0. ToolTable = t1 @@ t2 @@ t3 @@ t4 @@ t5 @@ t6 @@ t7 @@ t8 @@ t9 @@ t10 @@ t11 @@ t12 @@ t13
                  @@ t14 @@ t15 @@ t16 @@ t17 @@ t18 @@ t19 @@ t20 @@ t21 @@ t22 @@ t23 @@ t24
                  @@ t25 @@ t26 @@ t27 @@ t28 @@ t29 @@ t30 @@ t31 @@ t32
  BY DEF ToolTable
<1>1. /\ AllFine(t26)
  <2>1. "Cert" \in Pledges /\ "cert" \in Several
    BY DEF Pledges, Several
  <2>2. \A F : Keeping(run_cert, F, Promises("cert"))
    <3> DEFINE w == {<<"serve-demo", FALSE>>}
    <3> TAKE F
    <3>1. Promises("cert") = For("Cert", w)
      BY PromisesOfTools
    <3>2. Answers(run_cert, w, "Cert", F)
      BY CertPledge
    <3> HIDE DEF w
    <3> QED
      BY <2>1, <3>1, <3>2, PledgeMet
  <2>3. Keeps("cert", run_cert, CertArguments)
    BY <2>2 DEF Keeps
  <2>4. WellFormed(run_cert) /\ Leads(run_cert, "LockInit", "showing")
    BY CertCareful, LackingFacts DEF Hiding
  <2>5. Fine("cert", [script |-> run_cert, args |-> CertArguments])
    BY <2>1, <2>3, <2>4, CertCareful DEF Fine
  <2> QED
    BY <2>5, AllFineRules
<1>2. /\ AllFine(t32)
  <2>1. "LockInit" \in Pledges
    BY DEF Pledges
  <2>2. \A F : Keeping(run_lock_init, F, Promises("lock init"))
    <3> DEFINE w == {<<"confirm", TRUE>>}
    <3> TAKE F
    <3>1. Promises("lock init") = For("LockInit", w)
      BY PromisesOfTools
    <3>2. Answers(run_lock_init, w, "LockInit", F)
      BY LockInitScript
    <3> HIDE DEF w
    <3> QED
      BY <2>1, <3>1, <3>2, PledgeMet
  <2>3. Keeps("lock init", run_lock_init, LockArguments)
    BY <2>2 DEF Keeps
  <2>4. Fine("lock init", [script |-> run_lock_init, args |-> LockArguments])
    BY <2>3, LockInitScript DEF Fine, Careful
  <2> QED
    BY <2>4, AllFineRules
<1>3. /\ AllFine(t1) /\ AllFine(t3) /\ AllFine(t4) /\ AllFine(t6) /\ AllFine(t12) /\ AllFine(t15)
      /\ AllFine(t17) /\ AllFine(t29) /\ AllFine(t30)
  <2>1. /\ "DebugCapture" \in Pledges /\ "DebugRebind" \in Pledges /\ "DebugReStun" \in Pledges
        /\ "CheckPrefs" \in Pledges /\ "DebugStateDir" \in Pledges /\ "Metrics" \in Pledges
        /\ "IdToken" \in Pledges /\ "LockSign" \in Pledges /\ "LockDisable" \in Pledges
    BY DEF Pledges
  <2>2. \A F : Keeping(run_debug_capture, F, Promises("debug capture"))
    <3>1. Promises("debug capture") = For("DebugCapture", {})
      BY PromisesOfTools
    <3>2. Surely(run_debug_capture, "DebugCapture")
      BY ToolPledges
    <3> QED
      BY <2>1, <3>1, <3>2, PledgeKept
  <2>3. \A F : Keeping(run_debug_rebind, F, Promises("debug rebind"))
    <3>1. Promises("debug rebind") = For("DebugRebind", {})
      BY PromisesOfTools
    <3>2. Surely(run_debug_rebind, "DebugRebind")
      BY ToolPledges
    <3> QED
      BY <2>1, <3>1, <3>2, PledgeKept
  <2>4. \A F : Keeping(run_debug_restun, F, Promises("debug restun"))
    <3>1. Promises("debug restun") = For("DebugReStun", {})
      BY PromisesOfTools
    <3>2. Surely(run_debug_restun, "DebugReStun")
      BY ToolPledges
    <3> QED
      BY <2>1, <3>1, <3>2, PledgeKept
  <2>5. \A F : Keeping(run_check_prefs, F, Promises("debug check-prefs"))
    <3>1. Promises("debug check-prefs") = For("CheckPrefs", {})
      BY PromisesOfTools
    <3>2. Surely(run_check_prefs, "CheckPrefs")
      BY ToolPledges
    <3> QED
      BY <2>1, <3>1, <3>2, PledgeKept
  <2>6. \A F : Keeping(run_metrics, F, Promises("metrics"))
    <3>1. Promises("metrics") = For("Metrics", {})
      BY PromisesOfTools
    <3>2. Surely(run_metrics, "Metrics")
      BY ToolPledges
    <3> QED
      BY <2>1, <3>1, <3>2, PledgeKept
  <2>7. \A F : Keeping(run_id_token, F, Promises("id-token"))
    <3>1. Promises("id-token") = For("IdToken", {})
      BY PromisesOfTools
    <3>2. Surely(run_id_token, "IdToken")
      BY ToolPledges
    <3> QED
      BY <2>1, <3>1, <3>2, PledgeKept
  <2>8. \A F : Keeping(run_lock_sign, F, Promises("lock sign"))
    <3>1. Promises("lock sign") = For("LockSign", {})
      BY PromisesOfTools
    <3>2. Surely(run_lock_sign, "LockSign")
      BY ToolPledges
    <3> QED
      BY <2>1, <3>1, <3>2, PledgeKept
  <2>9. \A F : Keeping(run_lock_disable, F, Promises("lock disable"))
    <3>1. Promises("lock disable") = For("LockDisable", {})
      BY PromisesOfTools
    <3>2. Surely(run_lock_disable, "LockDisable")
      BY ToolPledges
    <3> QED
      BY <2>1, <3>1, <3>2, PledgeKept
  <2>10. \A F : Keeping(run_debug_statedir, F, Promises("debug statedir"))
    <3> DEFINE w == {<<"local", FALSE>>}
    <3> TAKE F
    <3>1. Promises("debug statedir") = For("DebugStateDir", w)
      BY PromisesOfTools
    <3>2. Answers(run_debug_statedir, w, "DebugStateDir", F)
      BY StatedirPledge
    <3> HIDE DEF w
    <3> QED
      BY <2>1, <3>1, <3>2, PledgeMet
  <2> QED
    BY <2>2, <2>3, <2>4, <2>5, <2>6, <2>7, <2>8, <2>9, <2>10, PlainQuestions, FineRules, AllFineRules
<1>4. /\ AllFine(t2) /\ AllFine(t5)
      /\ AllFine(t7) /\ AllFine(t8) /\ AllFine(t9) /\ AllFine(t10) /\ AllFine(t11)
      /\ AllFine(t13) /\ AllFine(t14) /\ AllFine(t16)
      /\ AllFine(t18) /\ AllFine(t19) /\ AllFine(t20) /\ AllFine(t21)
      /\ AllFine(t22) /\ AllFine(t23) /\ AllFine(t24) /\ AllFine(t25) /\ AllFine(t27)
      /\ AllFine(t28) /\ AllFine(t31)
  BY PlainQuestions, PlainProbes, FineRules, AllFineRules DEF Promising
<1> HIDE DEF t1, t2, t3, t4, t5, t6, t7, t8, t9, t10, t11, t12, t13, t14, t15, t16, t17, t18
             , t19, t20, t21, t22, t23, t24, t25, t26, t27, t28, t29, t30, t31, t32
<1> QED
  BY <1>0, <1>1, <1>2, <1>3, <1>4, AllFineRules

LEMMA HostTableFine == AllFine(HostTable)
<1> DEFINE t1 == "file list" :> [script |-> run_file_list, args |-> {}]
           t2 == "file get" :> [script |-> run_file_get, args |-> FileArguments]
           t3 == "file cp" :> [script |-> run_file_cp, args |-> FileArguments]
           t4 == "update" :> [script |-> run_update, args |-> UpdateArguments]
           t5 == "install" :> [script |-> run_install, args |-> {}]
           t6 == "uninstall" :> [script |-> run_uninstall, args |-> {}]
           t7 == "web" :> [script |-> run_web, args |-> WebArguments]
           t8 == "nc" :> [script |-> run_nc, args |-> {}]
           t9 == "ssh" :> [script |-> run_ssh, args |-> {}]
           t10 == "serve status" :> [script |-> run_serve_status, args |-> ServeFlags]
           t11 == "serve reset" :> [script |-> run_serve_reset, args |-> {}]
           t12 == "serve" :> [script |-> run_serve_v2, args |-> ServeFlags]
           t13 == "serve verb" :> [script |-> run_serve, args |-> ServeArguments]
           t14 == "funnel" :> [script |-> run_serve_v2, args |-> ServeFlags]
           t15 == "funnel toggle" :> [script |-> run_funnel_toggle, args |-> {}]
           t16 == "configure sysext" :> [script |-> run_configure_sysext, args |-> {}]
           t17 == "configure mac-vpn" :> [script |-> run_configure_mac_vpn, args |-> {}]
           t18 == "configure kubeconfig" :> [script |-> run_configure_kubeconfig, args |-> KubeconfigArguments]
<1>0. HostTable = t1 @@ t2 @@ t3 @@ t4 @@ t5 @@ t6 @@ t7 @@ t8 @@ t9 @@ t10 @@ t11 @@ t12 @@ t13
                  @@ t14 @@ t15 @@ t16 @@ t17 @@ t18
  BY DEF HostTable
<1>1. /\ AllFine(t3) /\ AllFine(t7)
  <2>1. Keeps("file cp", run_file_cp, FileArguments)
    BY FileCpPledge DEF Keeps, FileArguments
  <2>2. "web" \notin Promising
    BY DEF Promising
  <2>3. Keeps("web", run_web, WebArguments)
    BY <2>2, PromisesNothing DEF Keeps, Keeping
  <2>4. "file cp" \in Several \ {"cert"} /\ "web" \in Several \ {"cert"}
    BY DEF Several
  <2> QED
    BY <2>1, <2>3, <2>4, FileCpCareful, WebCareful, FineRules, AllFineRules
<1>2. /\ AllFine(t12) /\ AllFine(t14)
  <2> DEFINE F == Fixed(ServeFlags)
             w1 == {<<"off", FALSE>>}
             w2 == {<<"off", TRUE>>, <<"funnel", TRUE>>}
             w3 == {<<"off", TRUE>>, <<"funnel", FALSE>>, <<"nothing there", FALSE>>}
             request == "SetServeConfig"
             P == For(request, w1) \union For(request, w2) \union For(request, w3)
  <2>1. /\ Answers(run_serve_v2, w1, request, F) /\ Answers(run_serve_v2, w2, request, F)
        /\ Answers(run_serve_v2, w3, request, F)
    BY ServePledges
  <2>2. Promises("serve") = P /\ Promises("funnel") = P
    BY PromisesOfHost
  <2>3. request \in Pledges
    BY DEF Pledges
  <2> HIDE DEF F, w1, w2, w3, request
  <2>4. /\ Keeping(run_serve_v2, F, For(request, w1)) /\ Keeping(run_serve_v2, F, For(request, w2))
        /\ Keeping(run_serve_v2, F, For(request, w3))
    BY <2>1, <2>3, KeepingRules
  <2>5. Keeping(run_serve_v2, F, P)
    BY <2>4, KeepingRules
  <2> HIDE DEF P
  <2>6. Keeping(run_serve_v2, F, Promises("serve")) /\ Keeping(run_serve_v2, F, Promises("funnel"))
    BY <2>2, <2>5
  <2>7. Keeps("serve", run_serve_v2, ServeFlags) /\ Keeps("funnel", run_serve_v2, ServeFlags)
    BY <2>6 DEF Keeps, F
  <2>8. "serve" \in Several \ {"cert"} /\ "funnel" \in Several \ {"cert"}
    BY DEF Several
  <2> QED
    BY <2>7, <2>8, ServeCareful, FineRules, AllFineRules
<1>3. /\ AllFine(t8) /\ AllFine(t11) /\ AllFine(t15)
  <2>1. "Nc" \in Pledges /\ "SetServeConfig" \in Pledges
    BY DEF Pledges
  <2>2. \A F : Keeping(run_nc, F, Promises("nc"))
    <3>1. Promises("nc") = For("Nc", {})
      BY PromisesOfHost
    <3>2. Surely(run_nc, "Nc")
      BY HostPledges
    <3> QED
      BY <2>1, <3>1, <3>2, PledgeKept
  <2>3. \A F : Keeping(run_serve_reset, F, Promises("serve reset"))
    <3>1. Promises("serve reset") = For("SetServeConfig", {})
      BY PromisesOfHost
    <3>2. Surely(run_serve_reset, "SetServeConfig")
      BY HostPledges
    <3> QED
      BY <2>1, <3>1, <3>2, PledgeKept
  <2>4. \A F : Keeping(run_funnel_toggle, F, Promises("funnel toggle"))
    <3>1. Promises("funnel toggle") = For("SetServeConfig", {})
      BY PromisesOfHost
    <3>2. Surely(run_funnel_toggle, "SetServeConfig")
      BY HostPledges
    <3> QED
      BY <2>1, <3>1, <3>2, PledgeKept
  <2> QED
    BY <2>2, <2>3, <2>4, PlainHostScripts, FineRules, AllFineRules
<1>4. /\ AllFine(t2) /\ AllFine(t13)
  <2>1. "FileGet" \in Pledges /\ "FileGetDir" \in Pledges /\ "SetServeConfig" \in Pledges
    BY DEF Pledges
  <2>2. Keeping(run_file_get, Fixed(FileArguments), Promises("file get"))
    <3> DEFINE F == Fixed(FileArguments)
               w1 == {<<"one file", TRUE>>}
               w2 == {<<"one file", FALSE>>}
    <3>1. Promises("file get") = For("FileGet", w1) \union For("FileGetDir", w2)
      BY PromisesOfHost
    <3>2. Answers(run_file_get, w1, "FileGet", F) /\ Answers(run_file_get, w2, "FileGetDir", F)
      BY FileGetPledges
    <3> HIDE DEF F, w1, w2
    <3>3. Keeping(run_file_get, F, For("FileGet", w1)) /\ Keeping(run_file_get, F, For("FileGetDir", w2))
      BY <2>1, <3>2, KeepingRules
    <3>4. Keeping(run_file_get, F, For("FileGet", w1) \union For("FileGetDir", w2))
      BY <3>3, KeepingRules
    <3> QED
      BY <3>1, <3>4 DEF F
  <2>3. Keeping(run_serve, Fixed(ServeArguments), Promises("serve verb"))
    <3> DEFINE F == Fixed(ServeArguments)
               w1 == {<<"tcp", TRUE>>}
               w2 == {<<"tcp", FALSE>>}
    <3>1. Promises("serve verb") = For("SetServeConfig", w1) \union For("SetServeConfig", w2)
      BY PromisesOfHost
    <3>2. Answers(run_serve, w1, "SetServeConfig", F) /\ Answers(run_serve, w2, "SetServeConfig", F)
      BY ServeVerbPledges
    <3> HIDE DEF F, w1, w2
    <3>3. Keeping(run_serve, F, For("SetServeConfig", w1)) /\ Keeping(run_serve, F, For("SetServeConfig", w2))
      BY <2>1, <3>2, KeepingRules
    <3>4. Keeping(run_serve, F, For("SetServeConfig", w1) \union For("SetServeConfig", w2))
      BY <3>3, KeepingRules
    <3> QED
      BY <3>1, <3>4 DEF F
  <2> QED
    BY <2>2, <2>3, FileGetScript, ServeVerbScript, FineRules, AllFineRules
<1>5. /\ AllFine(t1) /\ AllFine(t4) /\ AllFine(t5) /\ AllFine(t6)
      /\ AllFine(t9) /\ AllFine(t10) /\ AllFine(t16)
      /\ AllFine(t17) /\ AllFine(t18)
  BY PlainQuestions, PlainInstaller, PlainHostScripts,
     KubeconfigScript, FineRules, AllFineRules DEF Promising
<1> HIDE DEF t1, t2, t3, t4, t5, t6, t7, t8, t9, t10, t11, t12, t13, t14, t15, t16, t17, t18
<1> QED
  BY <1>0, <1>1, <1>2, <1>3, <1>4, <1>5, AllFineRules

LEMMA TableFine == AllFine(Table)
BY NodeTableFine, ToolTableFine, HostTableFine, AllFineRules DEF Table

-----------------------------------------------------------------------------
(* An invocation keeps to its script.                                      *)

Arguments == Fixed(Table[inv.cmd].args)

(* What a settled fact is, and the steps whose conditions on settled facts *)
(* hold.                                                                   *)
Settled(fact) == IF fact = "funnel" THEN inv.cmd = "funnel" ELSE fact \in inv.args
Met(step) == \A guard \in step.when : guard[1] \in Arguments => Settled(guard[1]) = guard[2]

(* A request that the invocation does not get past.                        *)
Due(step, request) ==
  /\ step.op = "ask" /\ step.arg = request
  /\ \A guard \in step.when : guard[1] \in Arguments /\ Settled(guard[1]) = guard[2]

(* The steps that may have been taken: the ones before this one, this one  *)
(* when its round trip is over, and the ones of a loop that is being gone  *)
(* round.                                                                  *)
Since(i) ==
  \/ i < inv.pc
  \/ i = inv.pc /\ wire.stage # "sent" /\ (wire.stage # "none" \/ inv.end # "running")
  \/ \E m \in 1 .. Len(Script) :
       Script[m].op = "again" /\ i \in Body(Script, m) /\ m - Script[m].back <= inv.pc
Trace(A) == \E i \in 1 .. Len(Script) : Is(A, Script[i]) /\ Met(Script[i]) /\ Since(i)

Shape ==
  /\ {"cmd", "args", "pc", "known", "told", "had_error", "rounds", "end"} \subseteq DOMAIN inv
  /\ {"req", "stage", "reply"} \subseteq DOMAIN wire
  /\ {"up", "access", "logged_in", "changed", "applied", "deaths"} \subseteq DOMAIN daemon
  /\ inv.cmd \in DOMAIN Table
  /\ inv.pc \in 1 .. Len(Script) + 1
  /\ IsSeq(daemon.applied)

(* A round trip is the one of the step that the invocation is at.          *)
OnTheWire ==
  wire.stage # "none" =>
    /\ inv.pc <= Len(Script)
    /\ Current.op \in RoundTrips /\ wire.req = Current.arg
    /\ Met(Current) /\ ~Void(Current)

(* What is left behind by going past a step: no end was met, and every     *)
(* round trip that cannot be passed over did what it was for, a file's or  *)
(* remembered that it failed.                                              *)
Fulfils(step, failed) ==
  /\ IsEnd(step) /\ Met(step) => \E guard \in step.when : guard[1] \notin Arguments
  /\ \A request \in Pledges : Due(step, request) => request \in Writes
  /\ IsAttempt(step) => "FileCp" \in Writes \/ failed = TRUE

Passed == \A k \in 1 .. Len(Script) : k < inv.pc => Fulfils(Script[k], inv.had_error)

(* A copy that got to its end has had no file refused.                     *)
Copying == inv.cmd = "file cp"
Inspected == Copying /\ inv.pc > Len(Script) => inv.had_error = FALSE
Moved(failed) == Fulfils(Current, failed) /\ (Copying /\ IsCheck(Current) => failed = FALSE)

Done ==
  wire.stage = "answered" /\ wire.reply \notin {"Error", "RevertGuard"} /\ requires_write(wire.req) =>
    wire.req \in Writes

(* What was done was done by a step of the script.                         *)
Traced ==
  /\ daemon.applied # <<>> => Trace("writing")
  /\ host # {} => Trace("touching")
  /\ ~(host \subseteq CertHalves) => Trace("keying")

Spared ==
  IF inv.cmd = "cert"
    THEN Writes \subseteq {"Cert"} /\ host \subseteq CertHalves
    ELSE daemon.applied = <<>> /\ host = {}
Untouched == inv.end = "refused" => wire.stage = "none" /\ Spared

Whole ==
  /\ inv.cmd \notin Several => Len(daemon.applied) <= 1
  /\ inv.cmd = "cert" => Writes \subseteq {"Cert"}
  /\ inv.cmd = "login" /\ daemon.applied # <<>> => daemon.applied[1] = "SwitchToEmptyProfile"

TnetInv ==
  /\ Shape /\ OnTheWire /\ Passed /\ Inspected /\ Done
  /\ Traced /\ Untouched /\ Whole /\ SuccessIsReal /\ SecretGatesALock

LEMMA ScriptFine ==
  ASSUME Shape
  PROVE  /\ WellFormed(Script) /\ Len(Script) \in Nat /\ inv.pc \in Nat
         /\ inv.cmd # "cert" => Careful(Script, Arguments)
         /\ inv.cmd = "cert" => Keyed(Script, Arguments) /\ Solely(Script)
         /\ inv.cmd \notin Several => Single(Script, Arguments)
         /\ Leads(Script, "LockInit", "showing")
         /\ Keeps(inv.cmd, Script, Table[inv.cmd].args)
<1>1. Fine(inv.cmd, Table[inv.cmd])
  BY TableFine DEF Shape, AllFine
<1>2. WellFormed(Script)
  BY <1>1 DEF Fine, Script
<1>3. Len(Script) \in Nat
  BY <1>2, LenProperties DEF WellFormed, IsSeq
<1>4. inv.pc \in Nat
  BY <1>3 DEF Shape
<1> QED
  BY <1>1, <1>2, <1>3, <1>4 DEF Fine, Script, Arguments

(* A settled fact is found to be what it is.                               *)
LEMMA OutcomeCases ==
  ASSUME NEW fact
  PROVE  /\ fact = "always" => Outcomes(fact) = {TRUE}
         /\ fact # "always" /\ fact = "funnel" => Outcomes(fact) = {inv.cmd = "funnel"}
         /\ fact # "always" /\ fact # "funnel" /\ fact \in Table[inv.cmd].args =>
              Outcomes(fact) = {(fact \in inv.args)}
         /\ /\ fact # "always" /\ fact # "funnel" /\ fact \notin Table[inv.cmd].args
            /\ fact = "a file failed"
            => Outcomes(fact) = {inv.had_error}
BY DEF Outcomes

LEMMA FoundFacts ==
  ASSUME Shape, NEW values \in Valuations, Found(values)
  PROVE  /\ Applies(values) => Met(Current) /\ ~Void(Current)
         /\ ~Applies(values) => \A failed : Moved(failed)
         /\ "always" \in DOMAIN values => values["always"] = TRUE
<1>1. ASSUME NEW fact \in Arguments PROVE Outcomes(fact) = {Settled(fact)}
  <2>1. fact = "funnel" \/ (fact # "always" /\ fact \in Table[inv.cmd].args)
    BY DEF Arguments, Fixed
  <2>2. "funnel" # "always"
    OBVIOUS
  <2> QED
    BY <2>1, <2>2, OutcomeCases DEF Settled
<1>2. \A guard \in Current.when : guard[1] \in DOMAIN values
  BY DEF Found, Asked
<1>3. ASSUME NEW guard \in Current.when, guard[1] \in Arguments
      PROVE  values[guard[1]] = Settled(guard[1])
  BY <1>1, <1>2, <1>3 DEF Found
<1>4. ASSUME Applies(values) PROVE Met(Current)
  BY <1>3, <1>4 DEF Applies, Met
<1>5. ASSUME Applies(values) PROVE ~Void(Current)
  <2>1. SUFFICES ASSUME NEW guard \in Current.when, guard[2] = TRUE,
                        <<guard[1], FALSE>> \in Current.when
                 PROVE  FALSE
    BY DEF Void
  <2>2. values[guard[1]] = TRUE
    BY <1>5, <2>1 DEF Applies
  <2>3. values[guard[1]] = FALSE
    <3> DEFINE other == <<guard[1], FALSE>>
    <3>1. other[1] = guard[1] /\ other[2] = FALSE /\ other \in Current.when
      BY <2>1
    <3> HIDE DEF other
    <3> QED
      BY <1>5, <3>1 DEF Applies
  <2> QED
    BY <2>2, <2>3
<1>6. ASSUME ~Applies(values), NEW failed PROVE Moved(failed)
  <2>1. PICK guard \in Current.when : values[guard[1]] # guard[2]
    BY <1>6 DEF Applies
  <2>2. /\ Met(Current) => \E other \in Current.when : other[1] \notin Arguments
        /\ \A request : ~Due(Current, request)
    BY <1>3, <2>1 DEF Met, Due
  <2>3. ~IsAttempt(Current) /\ ~IsCheck(Current)
    BY <2>1 DEF IsAttempt, IsCheck
  <2> QED
    BY <2>2, <2>3 DEF Moved, Fulfils
<1>7. "always" \in DOMAIN values => values["always"] = TRUE
  BY OutcomeCases DEF Found
<1> QED
  BY <1>4, <1>5, <1>6, <1>7

(* Most steps are for nothing that has to be left behind.                  *)
LEMMA Unbound ==
  ASSUME Current.op \notin {"ask", "tolerate", "return", "fail"}
  PROVE  \A failed : Moved(failed)
<1>1. ~IsEnd(Current) /\ ~IsAttempt(Current) /\ ~IsCheck(Current)
  BY DEF IsEnd, IsAttempt, IsCheck
<1>2. \A request : ~Due(Current, request)
  BY DEF Due
<1> QED
  BY <1>1, <1>2 DEF Moved, Fulfils

(* A step of a kind that must not follow another's is not reached once the *)
(* other has been taken.                                                   *)
LEMMA Barred ==
  ASSUME Shape, Passed, NEW A, NEW B, Apart(Script, A, B, Arguments), Steady(Script, B),
         inv.pc <= Len(Script), Is(B, Current), ~Void(Current),
         wire.stage = "sent" \/ (wire.stage = "none" /\ inv.end = "running")
  PROVE  ~Trace(A)
<1>0. WellFormed(Script) /\ Len(Script) \in Nat
  BY ScriptFine
<1>1. WellFormed(Script) /\ Len(Script) \in Nat /\ inv.pc \in 1 .. Len(Script)
  BY <1>0 DEF Shape
<1>2. SUFFICES ASSUME NEW i \in 1 .. Len(Script), Is(A, Script[i]), Met(Script[i]), Since(i)
               PROVE  FALSE
  BY DEF Trace
<1>3. CASE i < inv.pc
  <2>1. PICK k \in 1 .. Len(Script) :
               i < k /\ k < inv.pc /\ Closes(Script[k], Script[i].when, Arguments)
    BY <1>1, <1>2, <1>3 DEF Apart, Current
  <2>2. IsEnd(Script[k]) /\ Met(Script[k])
    BY <1>2, <2>1 DEF Closes, Met
  <2>3. \E guard \in Script[k].when : guard[1] \notin Arguments
    BY <2>1, <2>2 DEF Passed, Fulfils
  <2> QED
    BY <2>1, <2>3 DEF Closes
<1>4. ASSUME ~(i < inv.pc),
             NEW m \in 1 .. Len(Script), Script[m].op = "again", i \in Body(Script, m),
             m - Script[m].back <= inv.pc
      PROVE  FALSE
  <2>1. Script[m].back \in Nat
    BY <1>1, <1>4, LoopBack
  <2>2. inv.pc \in Body(Script, m)
    BY <1>1, <1>4, <2>1 DEF Body
  <2> QED
    BY <1>4, <2>2 DEF Steady, Current
<1> QED
  BY <1>2, <1>3, <1>4 DEF Since

-----------------------------------------------------------------------------
(* The ways an invocation goes on.                                         *)

SameCommand ==
  /\ inv'.cmd = inv.cmd /\ inv'.args = inv.args /\ DOMAIN inv' = DOMAIN inv
  /\ inv.had_error = TRUE => inv'.had_error = TRUE

LEMMA Frame ==
  ASSUME SameCommand
  PROVE  /\ Script' = Script /\ Arguments' = Arguments
         /\ \A step : Met(step)' <=> Met(step)
         /\ \A step, request : Due(step, request)' <=> Due(step, request)
<1>1. Script' = Script /\ Arguments' = Arguments
  BY DEF SameCommand, Script, Arguments
<1>2. \A fact : Settled(fact)' <=> Settled(fact)
  BY DEF SameCommand, Settled
<1>3. \A fact : Settled(fact)' = Settled(fact)
  BY <1>2 DEF Settled
<1>4. \A step : Met(step)' <=> Met(step)
  BY <1>1, <1>3 DEF Met
<1> QED
  BY <1>1, <1>3, <1>4 DEF Due

(* What was left behind stays so.                                          *)
LEMMA FulfilsKept ==
  ASSUME SameCommand, Writes \subseteq Writes'
  PROVE  \A step, failed, now :
           Fulfils(step, failed) /\ (failed = TRUE => now = TRUE) => Fulfils(step, now)'
<1>1. Arguments' = Arguments /\ \A step : Met(step)' <=> Met(step)
  BY Frame
<1>2. \A step, request : Due(step, request)' <=> Due(step, request)
  BY Frame
<1> QED
  BY <1>1, <1>2 DEF Fulfils

LEMMA PassedKept ==
  ASSUME Shape, Passed, SameCommand, Writes \subseteq Writes', inv'.pc \in Nat, inv'.pc <= inv.pc
  PROVE  Passed'
<1>1. Script' = Script
  BY Frame
<1>2. Len(Script) \in Nat /\ inv.pc \in Nat
  BY ScriptFine
<1>3. ASSUME NEW k \in 1 .. Len(Script), k < inv'.pc PROVE Fulfils(Script[k], inv.had_error)
  BY <1>2, <1>3 DEF Passed
<1>4. ASSUME NEW k \in 1 .. Len(Script), k < inv'.pc
      PROVE  \A step, now : step = Script[k] /\ now = inv'.had_error => Fulfils(step, now)'
  BY <1>3, <1>4, FulfilsKept DEF SameCommand
<1> QED
  BY <1>1, <1>4 DEF Passed

LEMMA SinceMoves ==
  ASSUME Shape, SameCommand, inv'.pc = inv.pc + 1
  PROVE  \A i \in 1 .. Len(Script) : Since(i) \/ i = inv.pc => Since(i)'
<1>1. WellFormed(Script) /\ Len(Script) \in Nat /\ inv.pc \in Nat
  BY ScriptFine
<1>2. Script' = Script
  BY Frame
<1>3. ASSUME NEW m \in 1 .. Len(Script), Script[m].op = "again", m - Script[m].back <= inv.pc
      PROVE  m - Script[m].back <= inv.pc + 1
  <2>1. Script[m].back \in Nat
    BY <1>1, <1>3, LoopBack
  <2> QED
    BY <1>1, <1>3, <2>1
<1>4. ASSUME NEW i \in 1 .. Len(Script), i <= inv.pc PROVE Since(i)'
  <2>1. i < inv.pc + 1
    BY <1>1, <1>4
  <2> QED
    BY <2>1 DEF Since
<1>5. ASSUME NEW i \in 1 .. Len(Script), NEW m \in 1 .. Len(Script), Script[m].op = "again",
             i \in Body(Script, m), m - Script[m].back <= inv.pc
      PROVE  Since(i)'
  BY <1>2, <1>3, <1>5 DEF Since, Body
<1> QED
  BY <1>1, <1>4, <1>5 DEF Since

LEMMA SinceStays ==
  ASSUME Shape, SameCommand, inv'.pc = inv.pc,
         \/ wire'.stage # "sent" /\ (wire'.stage # "none" \/ inv'.end # "running")
         \/ wire.stage = "sent"
         \/ wire.stage = "none" /\ inv.end = "running"
  PROVE  \A i \in 1 .. Len(Script) : Since(i) => Since(i)'
BY Frame DEF Since

LEMMA TraceKept ==
  ASSUME Shape, SameCommand, \A i \in 1 .. Len(Script) : Since(i) => Since(i)'
  PROVE  \A A : Trace(A) => Trace(A)'
BY Frame DEF Trace

LEMMA AskedBefore ==
  ASSUME Passed, NEW k \in 1 .. Len(Script), k < inv.pc, NEW request \in Pledges,
         IsAsk(Script[k], request)
  PROVE  request \in Writes
<1>1. Due(Script[k], request)
  BY DEF Due, IsAsk
<1> QED
  BY <1>1 DEF Passed, Fulfils

LEMMA SparedKept ==
  ASSUME SameCommand, daemon'.applied = daemon.applied, host' = host, Spared
  PROVE  Spared'
BY DEF SameCommand, Spared, Writes

(* It goes on to the next step, having done what this one was for.         *)
LEMMA MovesOn ==
  ASSUME TnetInv, SameCommand, inv.pc <= Len(Script), inv'.pc = inv.pc + 1, inv'.end = "running",
         DOMAIN wire' = DOMAIN wire \/ wire' = Idle, wire'.stage = "none", daemon' = daemon,
         \/ host' = host
         \/ host' = host \union {Current.arg} /\ Current.op = "effect" /\ Met(Current),
         Moved(inv'.had_error)
  PROVE  TnetInv'
<1>1. /\ Shape /\ WellFormed(Script) /\ Len(Script) \in Nat /\ inv.pc \in Nat
      /\ inv.pc \in 1 .. Len(Script)
  <2>1. Shape
    BY DEF TnetInv
  <2>2. WellFormed(Script) /\ Len(Script) \in Nat /\ inv.pc \in Nat
    BY <2>1, ScriptFine
  <2> QED
    BY <2>1, <2>2 DEF Shape
<1>2. Script' = Script /\ Arguments' = Arguments /\ \A step : Met(step)' <=> Met(step)
  BY Frame
<1>3. Writes' = Writes
  BY DEF Writes
<1>4. \A i \in 1 .. Len(Script) : Since(i) \/ i = inv.pc => Since(i)'
  BY <1>1, SinceMoves
<1>5. \A A : Trace(A) => Trace(A)'
  BY <1>1, <1>4, TraceKept
<1>6. Shape'
  <2>1. inv.pc + 1 \in 1 .. Len(Script) + 1
    BY <1>1
  <2> QED
    BY <1>1, <1>2, <2>1 DEF Shape, SameCommand, Idle
<1>7. OnTheWire' /\ Done' /\ Untouched' /\ SuccessIsReal'
  BY DEF OnTheWire, Done, Untouched, SuccessIsReal
<1>12. Inspected'
  <2>1. SUFFICES ASSUME Copying, inv.pc + 1 > Len(Script) PROVE inv'.had_error = FALSE
    BY <1>2 DEF Inspected, Copying, SameCommand
  <2>2. inv.pc = Len(Script)
    BY <1>1, <2>1
  <2>3. Checks(Script)
    BY <1>1, <2>1, ScriptFine DEF Keeps, Copying
  <2>4. IsCheck(Current)
    BY <2>2, <2>3 DEF Checks, Current
  <2> QED
    BY <2>1, <2>4 DEF Moved
<1>8. Passed'
  <2>1. Writes \subseteq Writes'
    BY <1>3
  <2>2. ASSUME NEW k \in 1 .. Len(Script), k < inv.pc + 1
        PROVE  \A step, now : step = Script[k] /\ now = inv'.had_error => Fulfils(step, now)'
    <3>1. CASE k = inv.pc
      <4>1. Fulfils(Script[k], inv'.had_error)
        BY <3>1 DEF Moved, Current
      <4> QED
        BY <2>1, <4>1, FulfilsKept
    <3>2. CASE k < inv.pc
      <4>1. Fulfils(Script[k], inv.had_error)
        BY <3>2 DEF TnetInv, Passed
      <4> QED
        BY <2>1, <4>1, FulfilsKept DEF SameCommand
    <3> QED
      BY <1>1, <2>2, <3>1, <3>2
  <2> QED
    BY <1>2, <2>2 DEF Passed
<1>9. Traced'
  <2>1. daemon'.applied # <<>> => Trace("writing")'
    BY <1>5 DEF TnetInv, Traced
  <2>2. CASE host' = host
    BY <1>5, <2>1, <2>2 DEF TnetInv, Traced
  <2>3. CASE Current.op = "effect" /\ Met(Current)
    <3>0. PICK j \in 1 .. Len(Script) : j = inv.pc
      BY <1>1
    <3>1. Is("touching", Script[j]) /\ Met(Script[j]) /\ Since(j)'
      BY <1>4, <2>3, <3>0 DEF Is, Kind, Current
    <3>2. Trace("touching")'
      BY <1>2, <3>1 DEF Trace
    <3>3. CASE Current.arg \in CertHalves
      <4>1. ~(host' \subseteq CertHalves) => ~(host \subseteq CertHalves)
        BY <3>3
      <4> QED
        BY <1>5, <2>1, <3>2, <4>1 DEF TnetInv, Traced
    <3>4. CASE Current.arg \notin CertHalves
      <4>1. Is("keying", Script[j])
        BY <2>3, <3>0, <3>4 DEF Is, Kind, Current
      <4>2. Trace("keying")'
        BY <1>2, <3>1, <4>1 DEF Trace
      <4> QED
        BY <2>1, <3>2, <4>2 DEF Traced
    <3> QED
      BY <3>3, <3>4
  <2> QED
    BY <2>2, <2>3
<1>10. Whole'
  BY <1>3 DEF TnetInv, Whole, SameCommand
<1>11. SecretGatesALock'
  <2>1. CASE "secret shown" \in host
    BY <1>3, <2>1 DEF TnetInv, SecretGatesALock
  <2>2. CASE Current.op = "effect" /\ Current.arg = "secret shown"
    <3>1. Is("showing", Script[inv.pc])
      BY <2>2 DEF Is, Kind, Current
    <3>2. Leads(Script, "LockInit", "showing")
      BY <1>1, ScriptFine
    <3>3. PICK i \in 1 .. Len(Script) : i < inv.pc /\ IsAsk(Script[i], "LockInit")
      BY <1>1, <3>1, <3>2 DEF Leads
    <3>4. "LockInit" \in Writes
      BY <3>3, AskedBefore DEF TnetInv, Pledges
    <3> QED
      BY <1>3, <3>4 DEF SecretGatesALock
  <2> QED
    BY <2>1, <2>2 DEF SecretGatesALock
<1> QED
  BY <1>6, <1>7, <1>8, <1>9, <1>10, <1>11, <1>12 DEF TnetInv

(* It ends.                                                                *)
LEMMA EndsUp ==
  ASSUME TnetInv, SameCommand, inv.end = "running", inv'.pc = inv.pc, inv'.end # "running",
         inv'.had_error = inv.had_error,
         wire' = wire \/ wire' = Idle, daemon' = daemon, host' = host,
         inv'.end = "refused" => wire'.stage = "none" /\ Spared,
         inv'.end = "ok" => Promised' \subseteq Writes
  PROVE  TnetInv'
<1>1. Shape
  BY DEF TnetInv
<1>2. Script' = Script /\ Arguments' = Arguments /\ \A step : Met(step)' <=> Met(step)
  BY Frame
<1>3. Writes' = Writes
  BY DEF Writes
<1>4. /\ DOMAIN Idle = {"req", "stage", "reply"} /\ Idle.stage = "none"
  BY DEF Idle
<1>5. \A A : Trace(A) => Trace(A)'
  <2>1. \/ wire'.stage # "sent" /\ (wire'.stage # "none" \/ inv'.end # "running")
        \/ wire.stage = "sent"
    BY <1>4
  <2>2. \A i \in 1 .. Len(Script) : Since(i) => Since(i)'
    BY <1>1, <2>1, SinceStays
  <2> QED
    BY <1>1, <2>2, TraceKept
<1>6. Shape'
  BY <1>1, <1>2, <1>4 DEF Shape, SameCommand
<1>7. OnTheWire'
  BY <1>2, <1>4 DEF TnetInv, OnTheWire, Current
<1>8. Done'
  BY <1>3, <1>4 DEF TnetInv, Done
<1>9. Passed' /\ Inspected'
  <2>1. inv'.pc \in Nat /\ inv'.pc <= inv.pc
    BY <1>1, ScriptFine
  <2>2. Passed /\ Writes \subseteq Writes'
    BY <1>3 DEF TnetInv
  <2>3. Passed'
    BY <1>1, <2>1, <2>2, PassedKept
  <2> QED
    BY <1>2, <2>3 DEF TnetInv, Inspected, Copying, SameCommand
<1>10. Traced' /\ Whole' /\ SecretGatesALock' /\ SuccessIsReal'
  BY <1>3, <1>5 DEF TnetInv, Traced, Whole, SecretGatesALock, SuccessIsReal, SameCommand
<1>11. Untouched'
  BY SparedKept DEF TnetInv, Untouched
<1> QED
  BY <1>6, <1>7, <1>8, <1>9, <1>10, <1>11 DEF TnetInv

-----------------------------------------------------------------------------
(* One lemma per action.                                                   *)

LEMMA RecordFacts ==
  ASSUME Shape, NEW pc, NEW how, NEW values
  PROVE  /\ Goes(pc, values) => /\ SameCommand /\ inv'.pc = pc /\ inv'.end = inv.end
                                /\ inv'.known = Learns(values)
                                /\ inv'.had_error = inv.had_error
         /\ Ends(how, values) => /\ SameCommand /\ inv'.pc = inv.pc /\ inv'.end = how
                                 /\ inv'.known = Learns(values)
                                 /\ inv'.had_error = inv.had_error
BY DEF Shape, Goes, Ends, SameCommand

(* Where the invocation refuses, nothing was touched; by cert no more than *)
(* its public half.                                                        *)
LEMMA RefusesUntouched ==
  ASSUME TnetInv, AtStep, Current.op \in {"refuse", "confirm"}, ~Void(Current)
  PROVE  Spared
<1>1. Shape /\ Passed
  BY DEF TnetInv
<1>2. Is("refusing", Current)
  BY DEF Is, Kind
<1>3. wire.stage = "none" /\ inv.end = "running" /\ inv.pc <= Len(Script)
  BY DEF AtStep, Running
<1>4. CASE inv.cmd # "cert"
  <2>1. Careful(Script, Arguments)
    BY <1>1, <1>4, ScriptFine
  <2>2. ~Trace("touching")
    BY <1>1, <1>2, <1>3, <2>1, Barred DEF Careful
  <2>3. \A step : Is("writing", step) => Is("touching", step)
    BY DEF Is, Kind
  <2>4. ~Trace("writing")
    BY <2>2, <2>3 DEF Trace
  <2> QED
    BY <1>4, <2>2, <2>4 DEF TnetInv, Traced, Spared
<1>5. CASE inv.cmd = "cert"
  <2>1. Keyed(Script, Arguments)
    BY <1>1, <1>5, ScriptFine
  <2>2. ~Trace("keying")
    BY <1>1, <1>2, <1>3, <2>1, Barred DEF Keyed
  <2> QED
    BY <1>5, <2>2 DEF TnetInv, Traced, Whole, Spared
<1> QED
  BY <1>4, <1>5

(* What was settled, or found out on the way, stays known.                 *)
LEMMA OutcomesLearnt ==
  ASSUME SameCommand, inv'.had_error = inv.had_error
  PROVE  /\ \A fact \in Arguments : Outcomes(fact)' = {Settled(fact)}
         /\ \A values : Found(values) /\ inv'.known = Learns(values) =>
              \A fact \in DOMAIN values : Outcomes(fact)' = {values[fact]}
<1>1. inv'.cmd = inv.cmd /\ inv'.args = inv.args
  BY DEF SameCommand
<1>2. ASSUME NEW fact
      PROVE  /\ fact = "always" => Outcomes(fact)' = {TRUE}
             /\ fact # "always" /\ fact = "funnel" => Outcomes(fact)' = {inv.cmd = "funnel"}
             /\ fact # "always" /\ fact # "funnel" /\ fact \in Table[inv.cmd].args =>
                  Outcomes(fact)' = {(fact \in inv.args)}
             /\ /\ fact # "always" /\ fact # "funnel" /\ fact \notin Table[inv.cmd].args
                /\ fact = "a file failed"
                => Outcomes(fact)' = {inv.had_error}
             /\ /\ fact # "always" /\ fact # "funnel" /\ fact \notin Table[inv.cmd].args
                /\ fact # "a file failed" /\ fact \in DOMAIN inv'.known
                => Outcomes(fact)' = {inv'.known[fact]}
  BY <1>1 DEF Outcomes
<1>3. ASSUME NEW fact \in Arguments PROVE Outcomes(fact)' = {Settled(fact)}
  <2>1. fact = "funnel" \/ (fact # "always" /\ fact \in Table[inv.cmd].args)
    BY DEF Arguments, Fixed
  <2>2. "funnel" # "always"
    OBVIOUS
  <2> QED
    BY <1>2, <2>1, <2>2 DEF Settled
<1>4. ASSUME NEW values, Found(values), inv'.known = Learns(values), NEW fact \in DOMAIN values
      PROVE  Outcomes(fact)' = {values[fact]}
  <2>1. fact \in DOMAIN inv'.known /\ inv'.known[fact] = values[fact]
    <3> DEFINE known == inv.known
    <3>1. inv'.known = values @@ known
      BY <1>4 DEF Learns
    <3> HIDE DEF known
    <3>2. /\ DOMAIN (values @@ known) = DOMAIN values \union DOMAIN known
          /\ \A x \in DOMAIN values : (values @@ known)[x] = values[x]
          /\ \A x \in DOMAIN known \ DOMAIN values : (values @@ known)[x] = known[x]
      BY OverlayFacts
    <3> QED
      BY <1>4, <3>1, <3>2
  <2>2. values[fact] \in Outcomes(fact)
    BY <1>4 DEF Found
  <2>3. CASE fact = "always"
    <3>1. Outcomes(fact)' = {TRUE} /\ Outcomes(fact) = {TRUE}
      BY <1>2, <2>3, OutcomeCases
    <3> QED
      BY <2>2, <3>1
  <2>4. CASE fact # "always" /\ fact = "funnel"
    <3>1. Outcomes(fact)' = {inv.cmd = "funnel"} /\ Outcomes(fact) = {inv.cmd = "funnel"}
      BY <1>2, <2>4, OutcomeCases
    <3> QED
      BY <2>2, <3>1
  <2>5. CASE fact # "always" /\ fact # "funnel" /\ fact \in Table[inv.cmd].args
    <3>1. Outcomes(fact)' = {(fact \in inv.args)} /\ Outcomes(fact) = {(fact \in inv.args)}
      BY <1>2, <2>5, OutcomeCases
    <3> QED
      BY <2>2, <3>1
  <2>6. CASE /\ fact # "always" /\ fact # "funnel" /\ fact \notin Table[inv.cmd].args
             /\ fact = "a file failed"
    <3>1. Outcomes(fact)' = {inv.had_error} /\ Outcomes(fact) = {inv.had_error}
      BY <1>2, <2>6, OutcomeCases
    <3> QED
      BY <2>2, <3>1
  <2>7. CASE /\ fact # "always" /\ fact # "funnel" /\ fact \notin Table[inv.cmd].args
             /\ fact # "a file failed"
    BY <1>2, <2>1, <2>7
  <2> QED
    BY <2>3, <2>4, <2>5, <2>6, <2>7
<1> QED
  BY <1>3, <1>4

(* A step that returns is not taken where it is belied.                    *)
LEMMA NotBelied ==
  ASSUME NEW values, Applies(values), \A guard \in Current.when : guard[1] \in DOMAIN values,
         Current.arg \in DOMAIN values, values[Current.arg] = TRUE,
         NEW w, \A guard \in w : guard[1] \in DOMAIN values => values[guard[1]] = guard[2]
  PROVE  ~Belies(Current, w)
<1>1. ASSUME NEW fact, <<fact, FALSE>> \in w, Current.arg = fact PROVE FALSE
  <2> DEFINE guard == <<fact, FALSE>>
  <2>1. guard[1] = fact /\ guard[2] = FALSE /\ guard \in w
    BY <1>1
  <2> HIDE DEF guard
  <2> QED
    BY <1>1, <2>1
<1>2. ASSUME NEW fact, NEW yes \in BOOLEAN, NEW no \in BOOLEAN, yes # no,
             <<fact, no>> \in w, <<fact, yes>> \in Current.when
      PROVE  FALSE
  <2> DEFINE guard == <<fact, no>>
             other == <<fact, yes>>
  <2>1. /\ guard[1] = fact /\ guard[2] = no /\ guard \in w
        /\ other[1] = fact /\ other[2] = yes /\ other \in Current.when
    BY <1>2
  <2> HIDE DEF guard, other
  <2> QED
    BY <1>2, <2>1 DEF Applies
<1> QED
  BY <1>1, <1>2 DEF Belies

(* Where it ends in success, its promises were kept.                       *)
LEMMA EndsHonestly ==
  ASSUME TnetInv, SameCommand, inv'.had_error = inv.had_error,
         \/ inv.pc > Len(Script)
         \/ /\ inv.pc \in 1 .. Len(Script) /\ Current.op = "return"
            /\ \E values : /\ Found(values) /\ Applies(values) /\ inv'.known = Learns(values)
                           /\ Current.arg \in DOMAIN values /\ values[Current.arg] = TRUE
  PROVE  Promised' \subseteq Writes
<1>1. /\ Shape /\ Passed /\ Inspected /\ Len(Script) \in Nat /\ inv.pc \in Nat
      /\ Keeps(inv.cmd, Script, Table[inv.cmd].args)
  <2>1. Shape
    BY DEF TnetInv
  <2> QED
    BY <2>1, ScriptFine DEF TnetInv
<1>2. SUFFICES ASSUME NEW p \in Promises(inv.cmd),
                      \A guard \in p.when : Outcomes(guard[1])' = {guard[2]}
               PROVE  p.write \in Writes
  BY DEF Promised, SameCommand
<1>3. ASSUME NEW i \in 1 .. Len(Script), i < inv.pc, p.write \in Pledges,
             Answering(Script[i], p.when, p.write, Arguments)
      PROVE  p.write \in Writes
  <2>1. ASSUME NEW guard \in Script[i].when
        PROVE  guard[1] \in Arguments /\ Settled(guard[1]) = guard[2]
    <3>1. guard \in p.when /\ guard[1] \in Arguments
      BY <1>3, <2>1 DEF Answering
    <3>2. Outcomes(guard[1])' = {guard[2]} /\ Outcomes(guard[1])' = {Settled(guard[1])}
      BY <1>2, <3>1, OutcomesLearnt
    <3> QED
      BY <3>1, <3>2
  <2>2. Due(Script[i], p.write)
    BY <1>3, <2>1 DEF Due, Answering
  <2> QED
    BY <1>1, <1>3, <2>2 DEF Passed, Fulfils
<1>4. ASSUME inv.pc \in 1 .. Len(Script), Current.op = "return", NEW values,
             Found(values), Applies(values), inv'.known = Learns(values),
             Current.arg \in DOMAIN values, values[Current.arg] = TRUE
      PROVE  ~Belies(Current, p.when)
  <2>1. \A guard \in Current.when : guard[1] \in DOMAIN values
    BY <1>4 DEF Found, Asked
  <2>2. ASSUME NEW guard \in p.when, guard[1] \in DOMAIN values
        PROVE  values[guard[1]] = guard[2]
    <3>1. Outcomes(guard[1])' = {guard[2]} /\ Outcomes(guard[1])' = {values[guard[1]]}
      BY <1>2, <1>4, <2>2, OutcomesLearnt
    <3> QED
      BY <3>1
  <2> QED
    BY <1>4, <2>1, <2>2, NotBelied
<1>5. CASE ~Copying
  <2>1. p.write \in Pledges /\ Answers(Script, p.when, p.write, Arguments)
    BY <1>1, <1>5 DEF Keeps, Keeping, Copying, Arguments
  <2>2. CASE inv.pc > Len(Script)
    <3>1. PICK i \in 1 .. Len(Script) : Answering(Script[i], p.when, p.write, Arguments)
      BY <2>1 DEF Answers
    <3>2. i < inv.pc
      BY <1>1, <2>2
    <3> QED
      BY <1>3, <2>1, <3>1, <3>2
  <2>3. CASE inv.pc \in 1 .. Len(Script) /\ Current.op = "return" /\ ~Belies(Current, p.when)
    <3>1. PICK i \in 1 .. Len(Script) : i < inv.pc /\ Answering(Script[i], p.when, p.write, Arguments)
      BY <2>1, <2>3 DEF Answers, Current
    <3> QED
      BY <1>3, <2>1, <3>1
  <2> QED
    BY <1>4, <2>2, <2>3
<1>6. CASE Copying
  <2>1. /\ Attempts(Script) /\ Mute(Script, p.when)
        /\ p.write = "FileCp"
    <3> DEFINE w == {<<"targets", FALSE>>}
    <3>1. Promises(inv.cmd) = For("FileCp", w)
      BY <1>6, PromisesOfHost DEF Copying
    <3>2. Attempts(Script) /\ Mute(Script, w)
      BY <1>1, <1>6 DEF Keeps, Copying
    <3> HIDE DEF w
    <3>3. p.write = "FileCp" /\ p.when = w
      BY <1>2, <3>1 DEF For
    <3> QED
      BY <3>2, <3>3
  <2>2. CASE inv.pc > Len(Script)
    <3>1. PICK i \in 1 .. Len(Script) : IsAttempt(Script[i])
      BY <2>1 DEF Attempts
    <3>2. i < inv.pc
      BY <1>1, <2>2
    <3>3. inv.had_error = FALSE
      BY <1>1, <1>6, <2>2 DEF Inspected
    <3>4. Fulfils(Script[i], inv.had_error)
      BY <1>1, <3>2 DEF Passed
    <3> QED
      BY <2>1, <3>1, <3>3, <3>4 DEF Fulfils
  <2>3. ~(inv.pc \in 1 .. Len(Script) /\ Current.op = "return" /\ ~Belies(Current, p.when))
    BY <2>1 DEF Mute, Current
  <2> QED
    BY <1>4, <2>2, <2>3
<1> QED
  BY <1>5, <1>6

LEMMA PassesOverStep == ASSUME TnetInv, PassesOver PROVE TnetInv'
<1>1. Shape
  BY DEF TnetInv
<1>2. PICK values \in Valuations : Found(values) /\ ~Applies(values) /\ Goes(inv.pc + 1, values)
  BY DEF PassesOver
<1>3. \A failed : Moved(failed)
  BY <1>1, <1>2, FoundFacts
<1>4. SameCommand /\ inv'.pc = inv.pc + 1 /\ inv'.end = inv.end
  BY <1>1, <1>2, RecordFacts
<1>5. /\ wire' = wire /\ daemon' = daemon /\ host' = host
      /\ inv.end = "running" /\ wire.stage = "none" /\ inv.pc <= Len(Script)
  BY DEF PassesOver, AtStep, Running
<1> QED
  BY <1>3, <1>4, <1>5, MovesOn

LEMMA DecidesStep == ASSUME TnetInv, Decides PROVE TnetInv'
<1>1. Shape
  BY DEF TnetInv
<1>2. PICK values \in Valuations :
         /\ Found(values)
         /\ Applies(values)
         /\ IF values[Current.arg]
              THEN Ends(CASE Current.op = "refuse" -> "refused"
                          [] Current.op = "return" -> "ok"
                          [] Current.op = "fail" -> "failed", values)
              ELSE Goes(inv.pc + 1, values)
  BY DEF Decides
<1>3. /\ wire' = wire /\ daemon' = daemon /\ host' = host /\ AtStep
      /\ inv.end = "running" /\ wire.stage = "none" /\ inv.pc <= Len(Script)
      /\ Current.op \in {"refuse", "return", "fail"}
  BY DEF Decides, AtStep, Running
<1>4. /\ Met(Current) /\ ~Void(Current)
      /\ "always" \in DOMAIN values => values["always"] = TRUE
  BY <1>1, <1>2, FoundFacts
<1>5. Current.arg \in DOMAIN values /\ values[Current.arg] \in BOOLEAN
  <2>1. Current.arg \in Asked(Current)
    BY <1>3 DEF Asked
  <2> QED
    BY <1>2, <2>1 DEF Found, Valuations
<1>6. ASSUME values[Current.arg] = FALSE PROVE TnetInv'
  <2>1. Goes(inv.pc + 1, values)
    BY <1>2, <1>6
  <2>2. /\ SameCommand /\ inv'.pc = inv.pc + 1 /\ inv'.end = inv.end
        /\ inv'.had_error = inv.had_error
    BY <1>1, <2>1, RecordFacts
  <2>3. ~IsEnd(Current) /\ ~IsAttempt(Current) /\ \A request : ~Due(Current, request)
    BY <1>3, <1>4, <1>5, <1>6 DEF IsEnd, IsAttempt, Due
  <2>4. ASSUME Copying, IsCheck(Current) PROVE inv.had_error = FALSE
    <3>1. Current.arg = "a file failed"
      BY <2>4 DEF IsCheck
    <3>2. "a file failed" \notin Table[inv.cmd].args
      BY <1>1, <2>4, ScriptFine DEF Keeps, Copying
    <3>3. "a file failed" # "always" /\ "a file failed" # "funnel"
      OBVIOUS
    <3>4. Outcomes(Current.arg) = {inv.had_error}
      BY <3>1, <3>2, <3>3, OutcomeCases
    <3>5. values[Current.arg] \in Outcomes(Current.arg)
      BY <1>2, <1>5 DEF Found
    <3> QED
      BY <1>6, <3>4, <3>5
  <2>5. Moved(inv'.had_error)
    BY <2>2, <2>3, <2>4 DEF Moved, Fulfils
  <2> QED
    BY <1>3, <2>2, <2>5, MovesOn
<1>7. ASSUME values[Current.arg] = TRUE PROVE TnetInv'
  <2>1. /\ Current.op = "refuse" => Ends("refused", values)
        /\ Current.op = "return" => Ends("ok", values)
        /\ Current.op = "fail" => Ends("failed", values)
    BY <1>2, <1>7
  <2>2. /\ SameCommand /\ inv'.pc = inv.pc /\ inv'.known = Learns(values)
        /\ inv'.had_error = inv.had_error
        /\ Current.op = "refuse" => inv'.end = "refused"
        /\ Current.op = "return" => inv'.end = "ok"
        /\ Current.op = "fail" => inv'.end = "failed"
    BY <1>1, <1>3, <2>1, RecordFacts
  <2>3. inv'.end \in {"refused", "ok", "failed"}
    BY <1>3, <2>2
  <2>4. inv'.end = "refused" => wire'.stage = "none" /\ Spared
    BY <1>3, <1>4, <2>2, RefusesUntouched
  <2>5. inv'.end = "ok" => Promised' \subseteq Writes
    <3>1. inv.pc \in 1 .. Len(Script)
      <4>1. Len(Script) \in Nat /\ inv.pc \in 1 .. Len(Script) + 1
        BY <1>1, ScriptFine DEF Shape
      <4> QED
        BY <1>3, <4>1
    <3>2. inv'.end = "ok" => Current.op = "return"
      BY <1>3, <2>2
    <3> QED
      BY <1>2, <1>5, <1>7, <2>2, <3>1, <3>2, EndsHonestly
  <2> QED
    BY <1>3, <2>2, <2>3, <2>4, <2>5, EndsUp
<1> QED
  BY <1>5, <1>6, <1>7

LEMMA RiskStep == ASSUME TnetInv, present_risk_to_user PROVE TnetInv'
<1>1. Shape
  BY DEF TnetInv
<1>2. PICK values \in Valuations :
         /\ Found(values)
         /\ Applies(values)
         /\ Ends("refused", values) \/ Goes(inv.pc + 1, values)
  BY DEF present_risk_to_user
<1>3. /\ wire' = wire /\ daemon' = daemon /\ host' = host /\ AtStep
      /\ inv.end = "running" /\ wire.stage = "none" /\ inv.pc <= Len(Script)
      /\ Current.op = "confirm"
  BY DEF present_risk_to_user, AtStep, Running
<1>4. Met(Current) /\ ~Void(Current)
  BY <1>1, <1>2, FoundFacts
<1>5. \A failed : Moved(failed)
  BY <1>3, Unbound
<1>6. CASE Goes(inv.pc + 1, values)
  <2>1. SameCommand /\ inv'.pc = inv.pc + 1 /\ inv'.end = inv.end
    BY <1>1, <1>6, RecordFacts
  <2> QED
    BY <1>3, <1>5, <2>1, MovesOn
<1>7. CASE Ends("refused", values)
  <2>1. /\ SameCommand /\ inv'.pc = inv.pc /\ inv'.end = "refused"
        /\ inv'.had_error = inv.had_error
    BY <1>1, <1>7, RecordFacts
  <2>2. Spared
    BY <1>3, <1>4, RefusesUntouched
  <2> QED
    BY <1>3, <2>1, <2>2, EndsUp
<1> QED
  BY <1>2, <1>6, <1>7

LEMMA ActsOnHostStep == ASSUME TnetInv, ActsOnHost PROVE TnetInv'
<1>1. Shape
  BY DEF TnetInv
<1>2. PICK values \in Valuations :
         /\ Found(values)
         /\ Applies(values)
         /\ \/ Ends("failed", values) /\ UNCHANGED host
            \/ Goes(inv.pc + 1, values) /\ host' = host \union {Current.arg}
  BY DEF ActsOnHost
<1>3. /\ wire' = wire /\ daemon' = daemon
      /\ inv.end = "running" /\ wire.stage = "none" /\ inv.pc <= Len(Script)
      /\ Current.op = "effect"
  BY DEF ActsOnHost, AtStep, Running
<1>4. Met(Current)
  BY <1>1, <1>2, FoundFacts
<1>5. \A failed : Moved(failed)
  BY <1>3, Unbound
<1>6. CASE Goes(inv.pc + 1, values) /\ host' = host \union {Current.arg}
  <2>1. SameCommand /\ inv'.pc = inv.pc + 1 /\ inv'.end = inv.end
    BY <1>1, <1>6, RecordFacts
  <2> QED
    BY <1>3, <1>4, <1>5, <1>6, <2>1, MovesOn
<1>7. CASE Ends("failed", values) /\ host' = host
  <2>1. /\ SameCommand /\ inv'.pc = inv.pc /\ inv'.end = "failed"
        /\ inv'.had_error = inv.had_error
    BY <1>1, <1>7, RecordFacts
  <2> QED
    BY <1>3, <1>7, <2>1, EndsUp
<1> QED
  BY <1>2, <1>6, <1>7

LEMMA SinceLoops ==
  ASSUME Shape, SameCommand, wire.stage = "none", inv.end = "running",
         inv.pc \in 1 .. Len(Script), Current.op = "again", inv'.pc = inv.pc - Current.back
  PROVE  \A i \in 1 .. Len(Script) : Since(i) => Since(i)'
<1>1. WellFormed(Script) /\ Len(Script) \in Nat
  BY ScriptFine
<1>2. PICK n \in 1 .. Len(Script) : n = inv.pc
  OBVIOUS
<1>3. Script[n].op = "again" /\ inv'.pc = n - Script[n].back
  BY <1>2 DEF Current
<1>4. Script[n].back \in Nat
  BY <1>1, <1>3, LoopBack
<1>5. Script' = Script
  BY Frame
<1>6. ASSUME NEW i \in Body(Script, n) PROVE Since(i)'
  <2>1. n - Script[n].back <= inv'.pc
    BY <1>3, <1>4
  <2> QED
    BY <1>3, <1>5, <1>6, <2>1 DEF Since
<1>7. ASSUME NEW i \in 1 .. Len(Script), i < n PROVE Since(i)'
  <2>1. CASE i < n - Script[n].back
    BY <1>3, <2>1 DEF Since
  <2>2. CASE n - Script[n].back <= i
    BY <1>4, <1>6, <1>7, <2>2 DEF Body
  <2> QED
    BY <1>4, <2>1, <2>2
<1>8. ASSUME NEW i \in 1 .. Len(Script), NEW m \in 1 .. Len(Script), Script[m].op = "again",
             i \in Body(Script, m), m - Script[m].back <= n
      PROVE  Since(i)'
  <2>1. Script[m].back \in Nat
    BY <1>1, <1>8, LoopBack
  <2>2. CASE m - Script[m].back <= n - Script[n].back
    BY <1>3, <1>5, <1>8, <2>2 DEF Since
  <2>3. CASE n - Script[n].back < m - Script[m].back /\ m <= n
    BY <1>4, <1>6, <1>8, <2>1, <2>3 DEF Body
  <2>4. CASE n - Script[n].back < m - Script[m].back /\ n < m
    <3>1. n \in Body(Script, m)
      BY <1>8, <2>1, <2>4 DEF Body
    <3>2. m - Script[m].back <= n - Script[n].back
      BY <1>1, <1>3, <1>8, <3>1 DEF WellFormed
    <3> QED
      BY <2>2, <3>2
  <2> QED
    BY <1>4, <2>1, <2>2, <2>3, <2>4
<1> QED
  BY <1>2, <1>7, <1>8 DEF Since

LEMMA GoesRoundStep == ASSUME TnetInv, GoesRound PROVE TnetInv'
<1>1. Shape
  BY DEF TnetInv
<1>2. /\ wire' = wire /\ daemon' = daemon /\ host' = host
      /\ inv.end = "running" /\ wire.stage = "none" /\ inv.pc <= Len(Script)
      /\ Current.op = "again"
  BY DEF GoesRound, AtStep, Running
<1>3. WellFormed(Script) /\ Len(Script) \in Nat /\ inv.pc \in 1 .. Len(Script) + 1
  BY <1>1, ScriptFine DEF Shape
<1>4. inv.pc \in 1 .. Len(Script)
  BY <1>2, <1>3
<1>5. \A failed : Moved(failed)
  BY <1>2, Unbound
<1>6. ASSUME NEW values, Goes(inv.pc + 1, values) PROVE TnetInv'
  <2>1. SameCommand /\ inv'.pc = inv.pc + 1 /\ inv'.end = inv.end
    BY <1>1, <1>6, RecordFacts
  <2> QED
    BY <1>2, <1>5, <2>1, MovesOn
<1>7. ASSUME SameCommand, inv'.pc = inv.pc - Current.back, inv'.end = inv.end
      PROVE  TnetInv'
  <2>1. Script' = Script /\ Arguments' = Arguments /\ \A step : Met(step)' <=> Met(step)
    BY <1>7, Frame
  <2>2. Current.back \in Nat /\ Current.back < inv.pc
    BY <1>2, <1>3, <1>4, LoopBack DEF Current
  <2>3. inv'.pc \in 1 .. Len(Script) + 1 /\ inv'.pc <= inv.pc
    BY <1>3, <1>4, <1>7, <2>2
  <2>4. \A A : Trace(A) => Trace(A)'
    BY <1>1, <1>2, <1>4, <1>7, SinceLoops, TraceKept
  <2>5. Writes' = Writes
    BY <1>2 DEF Writes
  <2>6. Shape'
    BY <1>1, <1>2, <1>7, <2>1, <2>3 DEF Shape, SameCommand
  <2>7. OnTheWire' /\ Done' /\ Untouched' /\ SuccessIsReal'
    BY <1>2, <1>7 DEF OnTheWire, Done, Untouched, SuccessIsReal
  <2>8. Passed' /\ Inspected'
    <3>1. inv'.pc \in Nat /\ ~(inv'.pc > Len(Script))
      BY <1>3, <1>4, <2>3
    <3>2. Passed /\ Writes \subseteq Writes'
      BY <2>5 DEF TnetInv
    <3>3. Passed'
      BY <1>1, <1>7, <2>3, <3>1, <3>2, PassedKept
    <3> QED
      BY <2>1, <3>1, <3>3 DEF Inspected
  <2>9. Traced' /\ Whole' /\ SecretGatesALock'
    BY <1>2, <1>7, <2>4, <2>5 DEF TnetInv, Traced, Whole, SecretGatesALock, SameCommand
  <2> QED
    BY <2>6, <2>7, <2>8, <2>9 DEF TnetInv
<1>8. PICK values \in Valuations :
         \/ Goes(inv.pc + 1, values)
         \/ \E known, rounds :
              inv' = [inv EXCEPT !.pc = inv.pc - Current.back, !.rounds = rounds, !.known = known]
  BY DEF GoesRound
<1>9. ASSUME NEW known, NEW rounds,
             inv' = [inv EXCEPT !.pc = inv.pc - Current.back, !.rounds = rounds, !.known = known]
      PROVE  SameCommand /\ inv'.pc = inv.pc - Current.back /\ inv'.end = inv.end
  BY <1>1, <1>9 DEF Shape, SameCommand
<1> QED
  BY <1>6, <1>7, <1>8, <1>9

LEMMA PromisedKept == ASSUME inv' = inv PROVE Promised' = Promised
<1>1. \A fact : Outcomes(fact)' = Outcomes(fact)
  BY DEF Outcomes
<1> QED
  BY <1>1 DEF Promised

(* It stays where it is.                                                   *)
LEMMA StaysPut ==
  ASSUME TnetInv, SameCommand, inv'.pc = inv.pc, inv'.end = inv.end,
         inv'.had_error = inv.had_error, inv' = inv \/ inv.end = "running",
         DOMAIN daemon' = DOMAIN daemon, daemon'.applied = daemon.applied, host' = host,
         {"req", "stage", "reply"} \subseteq DOMAIN wire', OnTheWire', Done',
         \/ wire'.stage # "sent" /\ (wire'.stage # "none" \/ inv'.end # "running")
         \/ wire.stage = "sent"
         \/ wire.stage = "none" /\ inv.end = "running",
         wire.stage = "none" /\ inv.end # "running" => wire'.stage = "none"
  PROVE  TnetInv'
<1>1. Shape
  BY DEF TnetInv
<1>2. Script' = Script /\ Arguments' = Arguments /\ \A step : Met(step)' <=> Met(step)
  BY Frame
<1>3. Writes' = Writes
  BY DEF Writes
<1>4. \A A : Trace(A) => Trace(A)'
  BY <1>1, SinceStays, TraceKept
<1>5. Shape'
  BY <1>1, <1>2 DEF Shape, SameCommand
<1>6. Passed' /\ Inspected'
  <2>1. inv'.pc \in Nat /\ inv'.pc <= inv.pc
    BY <1>1, ScriptFine
  <2>2. Passed /\ Writes \subseteq Writes'
    BY <1>3 DEF TnetInv
  <2>3. Passed'
    BY <1>1, <2>1, <2>2, PassedKept
  <2> QED
    BY <1>2, <2>3 DEF TnetInv, Inspected, Copying, SameCommand
<1>7. Traced' /\ Whole' /\ SecretGatesALock'
  BY <1>3, <1>4 DEF TnetInv, Traced, Whole, SecretGatesALock, SameCommand
<1>9. Untouched'
  BY SparedKept DEF TnetInv, Untouched
<1>8. SuccessIsReal'
  <2>1. CASE inv.end = "running"
    BY <2>1 DEF SuccessIsReal
  <2>2. CASE inv' = inv
    <3>1. Promised' = Promised
      BY <2>2, PromisedKept
    <3> QED
      BY <1>3, <2>2, <3>1 DEF TnetInv, SuccessIsReal
  <2> QED
    BY <2>1, <2>2
<1> QED
  BY <1>5, <1>6, <1>7, <1>8, <1>9 DEF TnetInv

LEMMA SendsStep == ASSUME TnetInv, Sends PROVE TnetInv'
<1>1. Shape
  BY DEF TnetInv
<1>2. /\ daemon' = daemon /\ host' = host
      /\ inv.end = "running" /\ wire.stage = "none" /\ inv.pc <= Len(Script)
      /\ Current.op \in RoundTrips
      /\ wire' = [req |-> Current.arg, reply |-> "none",
                  stage |-> IF daemon.up THEN "sent" ELSE "unreachable"]
  BY DEF Sends, AtStep, Running, RoundTrips
<1>3. PICK values \in Valuations : Found(values) /\ Applies(values) /\ Goes(inv.pc, values)
  BY DEF Sends
<1>4. SameCommand /\ inv'.pc = inv.pc /\ inv'.end = inv.end /\ inv'.had_error = inv.had_error
  BY <1>1, <1>3, RecordFacts
<1>5. Met(Current) /\ ~Void(Current)
  BY <1>1, <1>3, FoundFacts
<1>6. Script' = Script /\ \A step : Met(step)' <=> Met(step)
  BY <1>4, Frame
<1>7. DOMAIN wire' = {"req", "stage", "reply"} /\ wire'.req = Current.arg /\ wire'.stage \in {"sent", "unreachable"}
  BY <1>2
<1>8. OnTheWire' /\ Done'
  BY <1>2, <1>4, <1>5, <1>6, <1>7 DEF OnTheWire, Done, Current
<1> QED
  BY <1>2, <1>4, <1>7, <1>8, StaysPut

LEMMA DiesStep == ASSUME TnetInv, Dies PROVE TnetInv'
<1>1. Shape
  BY DEF TnetInv
<1>2. /\ inv' = inv /\ host' = host
      /\ daemon' = [daemon EXCEPT !.up = FALSE, !.deaths = @ + 1]
      /\ wire' = IF wire.stage \in {"sent", "answered"} THEN [wire EXCEPT !.stage = "lost"] ELSE wire
  BY DEF Dies
<1>3. DOMAIN daemon' = DOMAIN daemon /\ daemon'.applied = daemon.applied
  BY <1>1, <1>2 DEF Shape
<1>4. /\ DOMAIN wire' = DOMAIN wire /\ wire'.req = wire.req
      /\ wire' = wire \/ (wire.stage \in {"sent", "answered"} /\ wire'.stage = "lost")
  BY <1>1, <1>2 DEF Shape
<1>5. SameCommand /\ Script' = Script /\ Writes' = Writes /\ \A step : Met(step)' <=> Met(step)
  <2>1. SameCommand
    BY <1>2 DEF SameCommand
  <2> QED
    BY <1>3, <2>1, Frame DEF Writes
<1>6. OnTheWire' /\ Done'
  BY <1>2, <1>4, <1>5 DEF TnetInv, OnTheWire, Done, Current
<1>7. {"req", "stage", "reply"} \subseteq DOMAIN wire'
  BY <1>1, <1>4 DEF Shape
<1> QED
  BY <1>2, <1>3, <1>4, <1>5, <1>6, <1>7, StaysPut

LEMMA RestartsStep == ASSUME TnetInv, Restarts PROVE TnetInv'
<1>1. Shape
  BY DEF TnetInv
<1>2. /\ inv' = inv /\ host' = host /\ wire' = wire
      /\ daemon' = [daemon EXCEPT !.up = TRUE]
  BY DEF Restarts
<1>3. DOMAIN daemon' = DOMAIN daemon /\ daemon'.applied = daemon.applied
  BY <1>1, <1>2 DEF Shape
<1>4. SameCommand /\ Script' = Script /\ Writes' = Writes /\ \A step : Met(step)' <=> Met(step)
  <2>1. SameCommand
    BY <1>2 DEF SameCommand
  <2> QED
    BY <1>3, <2>1, Frame DEF Writes
<1>5. OnTheWire' /\ Done'
  BY <1>2, <1>4 DEF TnetInv, OnTheWire, Done, Current
<1>6. {"req", "stage", "reply"} \subseteq DOMAIN wire'
  BY <1>1, <1>2 DEF Shape
<1> QED
  BY <1>2, <1>3, <1>4, <1>5, <1>6, StaysPut

Grown(b, a, r) ==
  /\ IsSeq(b) /\ b # <<>> /\ Len(a) \in Nat /\ Len(b) = Len(a) + 1
  /\ b[Len(b)] = r
  /\ \A i \in 1 .. Len(a) : b[i] = a[i]
  /\ a = <<>> => Len(a) = 0
  /\ a # <<>> => Len(a) >= 1

LEMMA AppendFacts ==
  ASSUME NEW a, IsSeq(a), NEW r
  PROVE  Grown(Append(a, r), a, r)
<1> DEFINE b == Append(a, r)
<1> DEFINE S == {a[i] : i \in DOMAIN a} \union {r}
<1>1. a \in Seq(S) /\ r \in S
  <2>1. a \in Seq({a[i] : i \in DOMAIN a})
    BY DEF IsSeq
  <2>2. DOMAIN a = 1 .. Len(a) /\ Len(a) \in Nat /\ a \in [1 .. Len(a) -> {a[i] : i \in DOMAIN a}]
    BY <2>1, LenProperties
  <2>3. a \in [1 .. Len(a) -> S]
    BY <2>2
  <2> QED
    BY <2>2, <2>3
<1> HIDE DEF S
<1>2. b \in Seq(S) /\ Len(b) = Len(a) + 1 /\ b # <<>> /\ b[Len(a) + 1] = r
      /\ \A i \in 1 .. Len(a) : b[i] = a[i]
  BY <1>1, AppendProperties
<1> HIDE DEF b
<1>3. Len(a) \in Nat /\ (a = <<>> => Len(a) = 0) /\ (a # <<>> => Len(a) # 0)
  BY <1>1, LenProperties, EmptySeq
<1>4. IsSeq(b)
  BY <1>2, OverAnySet
<1>5. b[Len(b)] = r
  BY <1>2
<1>6. a # <<>> => Len(a) >= 1
  BY <1>3
<1>7. Grown(b, a, r)
  BY <1>2, <1>3, <1>4, <1>5, <1>6 DEF Grown
<1> QED
  BY <1>7 DEF b

(* The daemon has done what the step that the invocation is at asked it.   *)
LEMMA Applied ==
  ASSUME TnetInv, inv' = inv, host' = host, wire.stage = "sent", requires_write(wire.req),
         DOMAIN daemon' = DOMAIN daemon, daemon'.applied = Append(daemon.applied, wire.req),
         DOMAIN wire' = DOMAIN wire, wire'.stage = "answered", wire'.req = wire.req
  PROVE  TnetInv'
<1>1. Shape /\ Passed
  BY DEF TnetInv
<1>2. WellFormed(Script) /\ Len(Script) \in Nat /\ inv.pc \in Nat
  BY <1>1, ScriptFine
<1>3. /\ inv.pc \in 1 .. Len(Script) /\ inv.pc <= Len(Script)
      /\ Current.op \in RoundTrips /\ wire.req = Current.arg
      /\ Met(Current) /\ ~Void(Current)
  BY <1>1, <1>2 DEF TnetInv, OnTheWire, Shape
<1>4. SameCommand
  BY DEF SameCommand
<1>5. Script' = Script /\ Arguments' = Arguments /\ \A step : Met(step)' <=> Met(step)
  BY <1>4, Frame
<1> DEFINE a == daemon.applied
           b == daemon'.applied
<1>6. /\ IsSeq(b) /\ b # <<>> /\ Len(a) \in Nat /\ Len(b) = Len(a) + 1
      /\ b[Len(b)] = wire.req
      /\ \A i \in 1 .. Len(a) : b[i] = a[i]
      /\ a = <<>> => Len(a) = 0
      /\ a # <<>> => Len(a) >= 1
  <2> DEFINE r == wire.req
  <2>1. IsSeq(a) /\ b = Append(a, r)
    BY <1>1 DEF Shape
  <2> HIDE DEF a, b, r
  <2>2. Grown(Append(a, r), a, r)
    BY <2>1, AppendFacts
  <2>3. Grown(b, a, r)
    BY <2>1, <2>2
  <2> QED
    BY <2>3 DEF Grown, r
<1>7. /\ Writes \subseteq Writes' /\ wire.req \in Writes'
      /\ Writes' \subseteq Writes \union {wire.req}
  <2>1. Writes = {a[i] : i \in 1 .. Len(a)} /\ Writes' = {b[i] : i \in 1 .. Len(b)}
    BY DEF Writes
  <2> HIDE DEF a, b
  <2>2. ASSUME NEW i \in 1 .. Len(b) PROVE i \in 1 .. Len(a) \/ i = Len(b)
    BY <1>6, <2>2
  <2> QED
    BY <1>6, <2>1, <2>2
<1>8. Is("writing", Current)
  BY <1>3 DEF Is, Kind
<1>9. Shape'
  BY <1>1, <1>5, <1>6 DEF Shape
<1>10. OnTheWire' /\ Done' /\ Passed' /\ Inspected'
  <2>1. Passed'
    BY <1>1, <1>2, <1>4, <1>7, PassedKept
  <2>2. Inspected'
    BY <1>5 DEF TnetInv, Inspected, Copying
  <2> QED
    BY <1>1, <1>3, <1>5, <1>7, <2>1, <2>2 DEF OnTheWire, Done, Current
<1>11. Traced'
  <2>1. PICK j \in 1 .. Len(Script) : j = inv.pc
    BY <1>3
  <2>2. Is("writing", Script[j]) /\ Met(Script[j]) /\ Since(j)'
    BY <1>3, <1>8, <2>1 DEF Since, Current
  <2>3. Trace("writing")'
    BY <1>5, <2>2 DEF Trace
  <2>4. \A A : Trace(A) => Trace(A)'
    BY <1>1, <1>4, SinceStays, TraceKept
  <2> QED
    BY <2>3, <2>4 DEF TnetInv, Traced
<1>12. Untouched' /\ SecretGatesALock'
  BY <1>7 DEF TnetInv, Untouched, SecretGatesALock
<1>13. SuccessIsReal'
  <2>1. Promised' = Promised
    BY PromisedKept
  <2> QED
    BY <1>7, <2>1 DEF TnetInv, SuccessIsReal
<1>14. ASSUME inv.cmd \notin Several PROVE Len(b) <= 1
  <2>1. Single(Script, Arguments)
    BY <1>1, <1>14, ScriptFine
  <2>2. ~Trace("writing")
    BY <1>1, <1>3, <1>8, <2>1, Barred DEF Single
  <2>3. a = <<>>
    BY <2>2 DEF TnetInv, Traced
  <2> HIDE DEF a, b
  <2> QED
    BY <1>6, <2>3
<1>15. ASSUME inv.cmd = "login" PROVE b[1] = "SwitchToEmptyProfile"
  <2>1. CASE a = <<>> /\ wire.req = "SwitchToEmptyProfile"
    <3> HIDE DEF a, b
    <3> QED
      BY <1>6, <2>1
  <2>2. CASE a = <<>> /\ wire.req # "SwitchToEmptyProfile"
    <3>1. Leads(Script, "SwitchToEmptyProfile", "in the profile")
      BY <1>1, <1>15, ScriptFine DEF Keeps
    <3>2. Is("in the profile", Script[inv.pc])
      BY <1>3, <2>2 DEF Is, Kind, Current
    <3>3. PICK k \in 1 .. Len(Script) : k < inv.pc /\ IsAsk(Script[k], "SwitchToEmptyProfile")
      BY <1>3, <3>1, <3>2 DEF Leads
    <3>4. "SwitchToEmptyProfile" \in Writes
      BY <1>1, <3>3, AskedBefore DEF Pledges
    <3>5. Writes = {a[i] : i \in 1 .. Len(a)}
      BY DEF Writes
    <3> HIDE DEF a, b
    <3> QED
      BY <1>6, <2>2, <3>4, <3>5
  <2>3. CASE a # <<>>
    <3>1. a[1] = "SwitchToEmptyProfile"
      BY <1>15, <2>3 DEF TnetInv, Whole
    <3> HIDE DEF a, b
    <3> QED
      BY <1>6, <2>3, <3>1
  <2> QED
    BY <2>1, <2>2, <2>3
<1>17. ASSUME inv.cmd = "cert" PROVE Writes' \subseteq {"Cert"}
  <2>1. Solely(Script) /\ Writes \subseteq {"Cert"}
    BY <1>1, <1>17, ScriptFine DEF TnetInv, Whole
  <2>2. ~Is("writing else", Current)
    BY <1>3, <2>1 DEF Solely, Lacks, Current
  <2>3. wire.req = "Cert"
    BY <1>3, <2>2 DEF Is, Kind
  <2> QED
    BY <1>7, <2>1, <2>3
<1>16. Whole'
  BY <1>4, <1>14, <1>15, <1>17 DEF Whole, SameCommand
<1> QED
  BY <1>9, <1>10, <1>11, <1>12, <1>13, <1>16 DEF TnetInv

LEMMA HandlesStep == ASSUME TnetInv, Handles PROVE TnetInv'
<1>1. Shape
  BY DEF TnetInv
<1>2. inv' = inv /\ host' = host /\ wire.stage = "sent"
  BY DEF Handles
<1>3. PICK answer : wire' = [wire EXCEPT !.stage = "answered", !.reply = answer]
  BY DEF Handles
<1>4. DOMAIN wire' = DOMAIN wire /\ wire'.stage = "answered" /\ wire'.req = wire.req
  BY <1>1, <1>3 DEF Shape
<1>5. SameCommand /\ Script' = Script /\ \A step : Met(step)' <=> Met(step)
  <2>1. SameCommand
    BY <1>2 DEF SameCommand
  <2> QED
    BY <2>1, Frame
<1>6. OnTheWire'
  BY <1>2, <1>4, <1>5 DEF TnetInv, OnTheWire, Current
<1>7. ASSUME daemon' = daemon, wire'.reply \in {"Error", "RevertGuard"} \/ ~requires_write(wire.req)
      PROVE  TnetInv'
  <2>1. Done'
    BY <1>4, <1>7 DEF Done
  <2>2. {"req", "stage", "reply"} \subseteq DOMAIN wire'
    BY <1>1, <1>4 DEF Shape
  <2> QED
    BY <1>2, <1>4, <1>5, <1>6, <1>7, <2>1, <2>2, StaysPut
<1>8. CASE /\ wire' = [wire EXCEPT !.stage = "answered", !.reply = "Error"]
           /\ daemon' = daemon
  <2>1. wire'.reply = "Error"
    BY <1>1, <1>8 DEF Shape
  <2> QED
    BY <1>7, <1>8, <2>1
<1>9. ASSUME NEW reverts \in IF Reverts THEN BOOLEAN ELSE {FALSE},
             wire' = [wire EXCEPT !.stage = "answered",
                        !.reply = Response(wire.req, reverts, inv.cmd = "debug watch-ipn")],
             daemon' =
               IF reverts \/ ~requires_write(wire.req) THEN daemon
               ELSE [daemon EXCEPT
                       !.applied = Append(@, wire.req),
                       !.logged_in = (@ /\ wire.req # "SwitchToEmptyProfile") \/ wire.req = "Up",
                       !.changed = @ /\ wire.req # "SwitchToEmptyProfile"]
      PROVE  TnetInv'
  <2>1. CASE reverts
    <3>1. wire.req = "Up"
      BY <2>1 DEF Reverts
    <3>2. Response(wire.req, reverts, inv.cmd = "debug watch-ipn") = "RevertGuard"
      <4>1. ASSUME NEW masked \in BOOLEAN PROVE Response("Up", TRUE, masked) = "RevertGuard"
        BY DEF Response, Acknowledged, Reported, Named
      <4>2. reverts = TRUE
        BY <2>1
      <4> QED
        BY <3>1, <4>1, <4>2
    <3>3. wire'.reply = "RevertGuard"
      BY <1>1, <1>9, <3>2 DEF Shape
    <3> QED
      BY <1>7, <1>9, <2>1, <3>3
  <2>2. CASE ~requires_write(wire.req)
    BY <1>7, <1>9, <2>2
  <2>3. CASE ~reverts /\ requires_write(wire.req)
    <3>1. DOMAIN daemon' = DOMAIN daemon /\ daemon'.applied = Append(daemon.applied, wire.req)
      BY <1>1, <1>9, <2>3 DEF Shape
    <3> QED
      BY <1>2, <1>4, <2>3, <3>1, Applied
  <2> QED
    BY <2>1, <2>2, <2>3
<1> QED
  BY <1>8, <1>9 DEF Handles

(* Neither an error nor a revert guard is an answer that the client takes  *)
(* for a write's success.                                                  *)
LEMMA PledgeAnswers ==
  ASSUME NEW request \in Pledges
  PROVE  requires_write(request) /\ \A command : "Error" \notin Expects(command, request)
<1>1. requires_write(request)
  BY DEF Pledges, requires_write, Reads
<1>2. ASSUME NEW command PROVE "Error" \notin Expects(command, request)
  <2>1. CASE request \in {"Up", "Set"}
    BY <2>1 DEF Expects, Acknowledged, Reported, Named
  <2>2. CASE request \in {"FileGet", "FileGetDir"}
    BY <2>2 DEF Expects, Acknowledged, Reported, Named
  <2>3. CASE request \in {"ReloadConfig", "Metrics", "IdToken", "Cert"}
    BY <2>3 DEF Expects, Acknowledged, Reported, Named
  <2>4. CASE request = "DebugStateDir"
    BY <2>4 DEF Expects, Acknowledged, Reported, Named
  <2>5. CASE request \in {"SwitchToEmptyProfile", "Down", "Logout", "Shutdown", "DeleteProfile",
                          "CreateProfile", "SwitchProfile", "DebugCapture", "DebugRebind",
                          "DebugReStun", "CheckPrefs", "LockSign", "LockDisable", "LockInit",
                          "FileCp", "Nc", "SetServeConfig"}
    BY <2>5 DEF Expects, Acknowledged, Reported, Named
  <2> QED
    BY <2>1, <2>2, <2>3, <2>4, <2>5 DEF Pledges
<1> QED
  BY <1>1, <1>2

LEMMA ReceivesStep == ASSUME TnetInv, Receives PROVE TnetInv'
<1>1. Shape
  BY DEF TnetInv
<1>2. /\ wire' = Idle /\ daemon' = daemon /\ host' = host
      /\ inv.end = "running" /\ wire.stage = "answered"
  BY DEF Receives
<1>3. /\ inv.pc <= Len(Script)
      /\ Current.op \in RoundTrips /\ wire.req = Current.arg
  BY <1>2 DEF TnetInv, OnTheWire
<1>4. DOMAIN Idle = {"req", "stage", "reply"} /\ Idle.stage = "none"
  BY DEF Idle
<1> DEFINE understood == wire.reply \in Expects(inv.cmd, wire.req)
           error == wire.reply = "Error"
           op == Current.op
           moves == inv' = [inv EXCEPT !.pc = @ + 1, !.told = understood,
                              !.had_error = @ \/ (error /\ op = "tolerate")]
           taken == understood /\ wire.reply # "RevertGuard"
<1>5. \/ moves /\ (op = "ask" => taken) /\ (op = "tolerate" => taken \/ error)
      \/ Ends("failed", <<>>)
      \/ Ends("confused", <<>>)
  <2>1. (CASE wire.reply = "RevertGuard" /\ understood -> Ends("failed", <<>>)
           [] understood /\ wire.reply # "RevertGuard" -> moves
           [] ~understood /\ op = "try" -> moves
           [] error /\ op = "tolerate" -> moves
           [] error /\ op \in {"ask", "stream"} -> Ends("failed", <<>>)
           [] ~understood /\ ~error /\ op = "stream" -> moves
           [] ~understood /\ ~error /\ op \in {"ask", "tolerate"} -> Ends("confused", <<>>))
    BY DEF Receives
  <2>2. op = "ask" \/ op = "try" \/ op = "tolerate" \/ op = "stream"
    BY <1>3 DEF RoundTrips
  <2>3. ASSUME NEW r, r = wire.reply PROVE r = "RevertGuard" => ~error
    BY <2>3
  <2> HIDE DEF understood, moves, error, op
  <2>4. wire.reply = "RevertGuard" => ~error
    BY <2>3
  <2> QED
    BY <2>1, <2>2, <2>4 DEF taken
<1>6. CASE moves /\ (op = "ask" => taken) /\ (op = "tolerate" => taken \/ error)
  <2>1. /\ SameCommand /\ inv'.pc = inv.pc + 1 /\ inv'.end = "running"
        /\ inv'.had_error = (inv.had_error \/ (error /\ op = "tolerate"))
    <3>1. /\ inv'.cmd = inv.cmd /\ inv'.args = inv.args /\ DOMAIN inv' = DOMAIN inv
          /\ inv'.pc = inv.pc + 1 /\ inv'.end = "running"
          /\ inv'.had_error = (inv.had_error \/ (error /\ op = "tolerate"))
      BY <1>1, <1>2, <1>6 DEF Shape
    <3>2. inv.had_error = TRUE => inv'.had_error = TRUE
      BY <3>1
    <3> QED
      BY <3>1, <3>2 DEF SameCommand
  <2>2. ASSUME NEW request \in Pledges, Current.arg = request, taken PROVE request \in Writes
    <3>1. wire.req = request /\ understood /\ wire.reply # "RevertGuard"
      BY <1>3, <2>2
    <3>2. requires_write(request) /\ wire.reply # "Error"
      BY <3>1, PledgeAnswers
    <3> QED
      BY <1>2, <3>1, <3>2 DEF TnetInv, Done
  <2>3. ~IsEnd(Current) /\ ~IsCheck(Current)
    BY <1>3 DEF IsEnd, IsCheck, RoundTrips
  <2>4. DOMAIN wire' = {"req", "stage", "reply"} /\ wire'.stage = "none"
    BY <1>2, <1>4
  <2>5. ASSUME NEW request \in Pledges, Due(Current, request) PROVE request \in Writes
    BY <1>6, <2>2, <2>5 DEF Due
  <2>6. ASSUME IsAttempt(Current) PROVE "FileCp" \in Writes \/ inv'.had_error = TRUE
    <3>1. op = "tolerate" /\ Current.arg = "FileCp" /\ "FileCp" \in Pledges
      BY <2>6 DEF IsAttempt, Pledges
    <3>2. CASE taken
      BY <2>2, <3>1, <3>2
    <3>3. CASE error
      BY <2>1, <3>1, <3>3
    <3> QED
      BY <1>6, <3>1, <3>2, <3>3
  <2>7. Moved(inv'.had_error)
    BY <2>3, <2>5, <2>6 DEF Moved, Fulfils
  <2> HIDE DEF understood, moves
  <2> QED
    BY <1>2, <1>3, <2>1, <2>4, <2>7, MovesOn
<1>7. ASSUME NEW how \in {"failed", "confused"}, Ends(how, <<>>) PROVE TnetInv'
  <2>1. SameCommand /\ inv'.pc = inv.pc /\ inv'.end = how /\ inv'.had_error = inv.had_error
    BY <1>1, <1>7, RecordFacts
  <2> QED
    BY <1>2, <1>7, <2>1, EndsUp
<1> QED
  BY <1>5, <1>6, <1>7

LEMMA LosesStep == ASSUME TnetInv, Loses PROVE TnetInv'
<1>1. Shape
  BY DEF TnetInv
<1>2. /\ wire' = Idle /\ daemon' = daemon /\ host' = host
      /\ inv.end = "running" /\ wire.stage \in {"lost", "unreachable"}
  BY DEF Loses
<1>3. inv.pc <= Len(Script)
  BY <1>2 DEF TnetInv, OnTheWire
<1>4. DOMAIN Idle = {"req", "stage", "reply"} /\ Idle.stage = "none"
  BY DEF Idle
<1>5. CASE /\ Current.op \in {"try", "stream"}
           /\ inv' = [inv EXCEPT !.pc = @ + 1, !.told = FALSE]
  <2>1. SameCommand /\ inv'.pc = inv.pc + 1 /\ inv'.end = "running"
    BY <1>1, <1>2, <1>5 DEF Shape, SameCommand
  <2>2. \A failed : Moved(failed)
    BY <1>5, Unbound
  <2> QED
    BY <1>2, <1>3, <1>4, <2>1, <2>2, MovesOn
<1>6. CASE Ends("failed", <<>>)
  <2>1. SameCommand /\ inv'.pc = inv.pc /\ inv'.end = "failed" /\ inv'.had_error = inv.had_error
    BY <1>1, <1>6, RecordFacts
  <2> QED
    BY <1>2, <2>1, EndsUp
<1> QED
  BY <1>5, <1>6 DEF Loses

LEMMA FinishesStep == ASSUME TnetInv, Finishes PROVE TnetInv'
<1>1. Shape /\ Passed
  BY DEF TnetInv
<1>2. /\ wire' = wire /\ daemon' = daemon /\ host' = host
      /\ inv.end = "running" /\ inv.pc > Len(Script) /\ Ends("ok", <<>>)
  BY DEF Finishes, Running
<1>3. SameCommand /\ inv'.pc = inv.pc /\ inv'.end = "ok" /\ inv'.had_error = inv.had_error
  BY <1>1, <1>2, RecordFacts
<1>4. Promised' \subseteq Writes
  BY <1>2, <1>3, EndsHonestly
<1> QED
  BY <1>2, <1>3, <1>4, EndsUp

LEMMA KilledStep == ASSUME TnetInv, Killed PROVE TnetInv'
<1>1. Shape
  BY DEF TnetInv
<1>2. /\ wire' = wire /\ daemon' = daemon /\ host' = host
      /\ inv.end = "running" /\ Ends("killed", <<>>)
  BY DEF Killed
<1>3. SameCommand /\ inv'.pc = inv.pc /\ inv'.end = "killed" /\ inv'.had_error = inv.had_error
  BY <1>1, <1>2, RecordFacts
<1> QED
  BY <1>2, <1>3, EndsUp

LEMMA StutterStep == ASSUME TnetInv, UNCHANGED vars PROVE TnetInv'
<1>1. inv' = inv /\ wire' = wire /\ daemon' = daemon /\ host' = host
  BY DEF vars
<1>2. SameCommand
  BY <1>1 DEF SameCommand
<1>3. Script' = Script /\ Writes' = Writes /\ \A step : Met(step)' <=> Met(step)
  BY <1>1, <1>2, Frame DEF Writes
<1>4. OnTheWire' /\ Done' /\ {"req", "stage", "reply"} \subseteq DOMAIN wire'
  BY <1>1, <1>3 DEF TnetInv, Shape, OnTheWire, Done, Current
<1> QED
  BY <1>1, <1>2, <1>4, StaysPut

-----------------------------------------------------------------------------
(* At the start nothing is done and nothing is on the wire.                *)
LEMMA InitTnet == ASSUME Init PROVE TnetInv
<1>1. PICK command \in Invoked : \E args \in SUBSET Table[command].args :
        inv = [cmd |-> command, args |-> args, pc |-> 1, known |-> <<>>,
               told |-> FALSE, had_error |-> FALSE, rounds |-> 0, end |-> "running"]
  BY DEF Init
<1>2. PICK args : inv = [cmd |-> command, args |-> args, pc |-> 1, known |-> <<>>,
                         told |-> FALSE, had_error |-> FALSE, rounds |-> 0, end |-> "running"]
  BY <1>1
<1>3. /\ DOMAIN inv = {"cmd", "args", "pc", "known", "told", "had_error", "rounds", "end"}
      /\ inv.cmd = command /\ inv.pc = 1 /\ inv.end = "running" /\ inv.had_error = FALSE
  BY <1>2
<1>4. /\ DOMAIN wire = {"req", "stage", "reply"} /\ wire.stage = "none"
      /\ host = {}
  BY DEF Init, Idle
<1>5. /\ DOMAIN daemon = {"up", "access", "logged_in", "changed", "applied", "deaths"}
      /\ daemon.applied = <<>>
  BY DEF Init
<1>6. inv.cmd \in DOMAIN Table
  BY <1>3, TnetAssumption
<1>7. Len(Script) \in Nat
  <2>1. Fine(inv.cmd, Table[inv.cmd])
    BY <1>6, TableFine DEF AllFine
  <2> QED
    BY <2>1, LenProperties DEF Fine, WellFormed, IsSeq, Script
<1>8. IsSeq(daemon.applied)
  <2>1. <<>> \in Seq({})
    BY EmptySeq
  <2>2. IsSeq(<<>>)
    BY <2>1, OverAnySet
  <2> QED
    BY <1>5, <2>2
<1>9. Shape
  <2>1. 1 \in 1 .. Len(Script) + 1
    BY <1>7
  <2> QED
    BY <1>3, <1>4, <1>5, <1>6, <1>8, <2>1 DEF Shape
<1>10. Passed /\ Inspected
  BY <1>3, <1>7 DEF Passed, Inspected
<1>11. OnTheWire /\ Done /\ Untouched /\ SuccessIsReal /\ SecretGatesALock
  BY <1>3, <1>4, <1>5 DEF OnTheWire, Done, Untouched, SuccessIsReal, SecretGatesALock
<1>12. Traced /\ Whole
  <2>1. Len(<<>>) = 0
    BY EmptySeq
  <2> QED
    BY <1>4, <1>5, <2>1 DEF Traced, Whole, Writes
<1> QED
  BY <1>9, <1>10, <1>11, <1>12 DEF TnetInv

LEMMA NextTnet == TnetInv /\ [Next]_vars => TnetInv'
<1> SUFFICES ASSUME TnetInv, [Next]_vars PROVE TnetInv'
  OBVIOUS
<1>1. CASE PassesOver
  BY <1>1, PassesOverStep
<1>2. CASE Decides
  BY <1>2, DecidesStep
<1>3. CASE present_risk_to_user
  BY <1>3, RiskStep
<1>4. CASE GoesRound
  BY <1>4, GoesRoundStep
<1>5. CASE ActsOnHost
  BY <1>5, ActsOnHostStep
<1>6. CASE Sends
  BY <1>6, SendsStep
<1>7. CASE Handles
  BY <1>7, HandlesStep
<1>8. CASE Receives
  BY <1>8, ReceivesStep
<1>9. CASE Loses
  BY <1>9, LosesStep
<1>10. CASE Finishes
  BY <1>10, FinishesStep
<1>11. CASE Dies
  BY <1>11, DiesStep
<1>12. CASE Restarts
  BY <1>12, RestartsStep
<1>13. CASE Killed
  BY <1>13, KilledStep
<1>14. CASE UNCHANGED vars
  BY <1>14, StutterStep
<1> QED
  BY <1>1, <1>2, <1>3, <1>4, <1>5, <1>6, <1>7, <1>8, <1>9, <1>10, <1>11, <1>12, <1>13, <1>14
  DEF Next

(* An invocation of any subcommand keeps to its script: a round trip is    *)
(* the one of the step it is at, what was done was done by a step it has   *)
(* taken, no end of the script was run past and no round trip that cannot  *)
(* be skipped was left undone (tnet.rs main and round_trip).  The          *)
(* inductive invariant that the theorems below follow from.                *)
THEOREM KeepsToItsScript == Spec => []TnetInv
<1>1. Init => TnetInv
  BY InitTnet
<1>2. TnetInv /\ [Next]_vars => TnetInv'
  BY NextTnet
<1> QED
  BY <1>1, <1>2, PTL DEF Spec

(* Whichever subcommands are run, however often their loops go round and   *)
(* however often the daemon dies, one that the client refuses or that the  *)
(* user declines has changed neither the daemon nor the host (tnet.rs      *)
(* RISK_ABORTED, "aborted, no changes made", and the refusals of every     *)
(* subcommand); cert, which judges its key file last, has at most had the  *)
(* certificate issued and its public half written (tnet.rs run_cert).      *)
THEOREM RefusalsTouchNothing == Spec => []RefusedTouchesNothing
<1>1. TnetInv => RefusedTouchesNothing
  BY DEF TnetInv, Untouched, Spared, CertHalves, RefusedTouchesNothing
<1> QED
  BY <1>1, KeepsToItsScript, PTL

(* A command that is not several writes by design makes one at most, and a *)
(* login brings the node up only under the profile it has switched to      *)
(* (tnet.rs send_ok_or_die, login_profile_requests).                       *)
THEOREM CommandsAreWhole == Spec => []NothingHalfDone
<1>1. TnetInv => NothingHalfDone
  <2> SUFFICES ASSUME TnetInv PROVE NothingHalfDone
    OBVIOUS
  <2>1. Whole
    BY DEF TnetInv
  <2>2. "Up" \in Writes => daemon.applied # <<>>
    <3>1. Len(<<>>) = 0
      BY EmptySeq
    <3> QED
      BY <3>1 DEF Writes
  <2> QED
    BY <2>1, <2>2 DEF Whole, NothingHalfDone
<1> QED
  BY <1>1, KeepsToItsScript, PTL

(* A command that reports success has had every write it promises done,    *)
(* whatever was refused, lost or answered by a daemon that then died       *)
(* (tnet.rs round_trip, an empty line is no answer; run_file_cp,           *)
(* had_error).  Every writing command promises its writes but debug        *)
(* portmap, web and a demo of cert.                                        *)
THEOREM SuccessIsNeverClaimed == Spec => []SuccessIsReal
<1>1. TnetInv => SuccessIsReal
  BY DEF TnetInv
<1> QED
  BY <1>1, KeepsToItsScript, PTL

(* No run shows a disablement secret for a lock that the daemon has not    *)
(* made (tnet.rs run_lock_init).                                           *)
THEOREM SecretsFollowTheirLock == Spec => []SecretGatesALock
<1>1. TnetInv => SecretGatesALock
  BY DEF TnetInv
<1> QED
  BY <1>1, KeepsToItsScript, PTL

=============================================================================
