---------------------- MODULE ManipulationPipeline_proofs ----------------------
(***************************************************************************)
(* Proofs about ManipulationPipeline, for any number of workers, candidates *)
(* and stages: every candidate is in one place, and a failure reported in  *)
(* time means that all of them were tried.                                 *)
(***************************************************************************)
EXTENDS ManipulationPipeline, FiniteSetTheorems, SequenceTheorems, TLAPS

-----------------------------------------------------------------------------
(* The inductive invariant.                                                *)

\* Nothing is left to be tried.
AllTried ==
  unpushed = {} /\ queue_ = <<>> /\ Evaluating = {} /\ dropped = {}

\* A worker is counted from its test to the next plan or stop; while it holds the
\* mutex it has found the queue empty.
WorkersInv ==
  /\ \A w \in Workers :
       /\ workers[w].inc_queue => workers[w].pc \in {"tested", "waiting", "woken"}
       /\ workers[w].pc \in {"solved", "found"} => success_ # {}
       /\ workers[w].pc = "failed" => workers[w].plan \in contradicted \cup success_
  /\ client \in {"start", "retry", "done"} => \A w \in Workers : workers[w].pc = "off"

\* What plan() has done before it waits, and what ends its wait.
ClientInv ==
  /\ client \notin {"start", "push"} \/ pushed_all_poses_ => unpushed = {}
  /\ client \in {"stop", "join"} /\ round = 1 => done_ \/ timedOut
  /\ client \in {"retry", "reprocess", "pushed"} => round = 2

\* In the first round plans are only given up after a stop, and done_ means a
\* solution or the end of all candidates.
RoundInv ==
  round = 1 =>
    /\ client = "start" \/ ~stop_processing_ => dropped = {}
    /\ done_ => success_ # {} \/ AllTried

IInv ==
  /\ TypeOK /\ PlanIsInOnePlace /\ WorkersInv /\ ClientInv /\ RoundInv
  /\ FailureMeansAllTried

-----------------------------------------------------------------------------
(* Sequences without repetitions, as sets.                                 *)

\* A new element at the end of an injective sequence.
LEMMA AppendLemma ==
  ASSUME NEW S, NEW s \in Seq(S), NEW x \in S, IsInjective(s), x \notin Range(s)
  PROVE  /\ Append(s, x) \in Seq(S) /\ IsInjective(Append(s, x))
         /\ Range(Append(s, x)) = Range(s) \cup {x}
  BY AppendProperties DEF IsInjective, Range

\* The first element taken from an injective sequence.
LEMMA TailLemma ==
  ASSUME NEW S, NEW s \in Seq(S), IsInjective(s), s # <<>>
  PROVE  /\ Head(s) \in S /\ Head(s) \in Range(s)
         /\ Tail(s) \in Seq(S) /\ IsInjective(Tail(s))
         /\ Range(Tail(s)) = Range(s) \ {Head(s)}
<1> DEFINE n == Len(s)
<1>1. n \in Nat \ {0} /\ DOMAIN s = 1 .. n /\ Head(s) = s[1] /\ \A i \in 1 .. n : s[i] \in S
  BY EmptySeq, LenProperties
<1>2. /\ Tail(s) \in Seq(S) /\ DOMAIN Tail(s) = 1 .. (n - 1)
      /\ \A i \in 1 .. (n - 1) : Tail(s)[i] = s[i + 1]
  BY HeadTailProperties, LenProperties
<1> HIDE DEF n
<1>3. IsInjective(Tail(s))
  BY <1>1, <1>2 DEF IsInjective
<1>4. Range(Tail(s)) = Range(s) \ {Head(s)}
  <2>1. ASSUME NEW x \in Range(Tail(s)) PROVE x \in Range(s) \ {Head(s)}
    BY <1>1, <1>2, <2>1 DEF IsInjective, Range
  <2>2. ASSUME NEW x \in Range(s) \ {Head(s)} PROVE x \in Range(Tail(s))
    <3>1. PICK i \in 2 .. n : s[i] = x
      BY <1>1, <2>2 DEF Range
    <3>2. i - 1 \in 1 .. (n - 1) /\ Tail(s)[i - 1] = x
      BY <1>1, <1>2, <3>1
    <3> QED
      BY <1>2, <3>2 DEF Range
  <2> QED
    BY <2>1, <2>2
<1>5. 1 \in DOMAIN s
  BY <1>1
<1>6. Head(s) \in S /\ Head(s) \in Range(s)
  BY <1>1, <1>5 DEF Range
<1> QED
  BY <1>2, <1>3, <1>4, <1>6

\* The last element taken from an injective sequence.
LEMMA FrontLemma ==
  ASSUME NEW S, NEW s \in Seq(S), IsInjective(s), s # <<>>,
         NEW t, t = SubSeq(s, 1, Len(s) - 1)
  PROVE  /\ s[Len(s)] \in S /\ s[Len(s)] \in Range(s)
         /\ t \in Seq(S) /\ IsInjective(t)
         /\ Range(t) = Range(s) \ {s[Len(s)]}
<1> DEFINE n == Len(s)
<1>1. n \in Nat \ {0} /\ DOMAIN s = 1 .. n /\ \A i \in 1 .. n : s[i] \in S
  BY EmptySeq, LenProperties
<1>2. /\ t \in Seq(S) /\ DOMAIN t = 1 .. (n - 1)
      /\ \A i \in 1 .. (n - 1) : t[i] = s[i]
  <2>1. \A i \in 1 .. (n - 1) : s[i] \in S
    BY <1>1
  <2>2. /\ t \in Seq(S) /\ Len(t) = n - 1
        /\ \A i \in 1 .. (n - 1) : t[i] = s[i]
    BY <1>1, <2>1, SubSeqProperties
  <2> QED
    BY <2>2, LenProperties
<1> HIDE DEF n
<1>3. IsInjective(t)
  BY <1>1, <1>2 DEF IsInjective
<1>4. Range(t) = Range(s) \ {s[n]}
  <2>1. ASSUME NEW x \in Range(t) PROVE x \in Range(s) \ {s[n]}
    BY <1>1, <1>2, <2>1 DEF IsInjective, Range
  <2>2. ASSUME NEW x \in Range(s) \ {s[n]} PROVE x \in Range(t)
    <3>1. PICK i \in 1 .. n : s[i] = x /\ i # n
      BY <1>1, <2>2 DEF Range
    <3>2. i \in 1 .. (n - 1) /\ t[i] = x
      BY <1>1, <1>2, <3>1
    <3> QED
      BY <1>2, <3>2 DEF Range
  <2> QED
    BY <2>1, <2>2
<1>5. n \in DOMAIN s
  BY <1>1
<1>6. s[n] \in S /\ s[n] \in Range(s)
  BY <1>1, <1>5 DEF Range
<1> QED
  BY <1>2, <1>3, <1>4, <1>6 DEF n

-----------------------------------------------------------------------------
(* Places of the candidates.                                               *)

Fields == {"unpushed", "queued", "evaluated", "succeeded", "failed", "aborted", "dropped"}

\* A candidate that goes from one place to another is in that one alone.
LEMMA MoveLemma ==
  ASSUME NEW P, NEW Q, DOMAIN P = Fields, DOMAIN Q = Fields, InOnePlace(P),
         NEW a \in Fields, NEW b \in Fields, a # b,
         NEW x \in P[a],
         Q[a] = P[a] \ {x}, Q[b] = P[b] \cup {x},
         \A q \in Fields \ {a, b} : Q[q] = P[q]
  PROVE  InOnePlace(Q)
<1> SUFFICES ASSUME NEW plan \in Plans
             PROVE  \E p \in Fields : \A q \in Fields : plan \in Q[q] <=> q = p
  BY DEF InOnePlace
<1>1. PICK p \in Fields : \A q \in Fields : plan \in P[q] <=> q = p
  BY DEF InOnePlace
<1>2. CASE plan = x
  BY <1>1, <1>2
<1>3. CASE plan # x
  BY <1>1, <1>3
<1> QED
  BY <1>2, <1>3

\* The places by name.
LEMMA PlacesLemma ==
  /\ DOMAIN Places = Fields
  /\ Places["unpushed"] = unpushed /\ Places["queued"] = Range(queue_)
  /\ Places["evaluated"] = {workers[w].plan : w \in Evaluating}
  /\ Places["succeeded"] = Solutions /\ Places["failed"] = Range(failed_)
  /\ Places["aborted"] = aborted /\ Places["dropped"] = dropped
  BY DEF Places, Fields

\* A worker without a plan takes one that nobody evaluates.
LEMMA BeginLemma ==
  ASSUME TypeOK, PlanIsInOnePlace, NEW w \in Workers \ Evaluating,
         NEW r, r.pc = "evaluate", Set(w, r),
         \A v \in Evaluating : workers[v].plan # r.plan
  PROVE  /\ Places'["evaluated"] = Places["evaluated"] \cup {r.plan}
         /\ (\A u, v \in Evaluating : workers[u].plan = workers[v].plan => u = v)'
<1>1. Evaluating' = Evaluating \cup {w} /\ workers'[w] = r
  BY DEF TypeOK, Evaluating, Set
<1>2. \A v \in Evaluating : workers'[v] = workers[v]
  BY DEF TypeOK, Evaluating, Set
<1>3. {workers[v].plan : v \in Evaluating}' = {workers[v].plan : v \in Evaluating} \cup {r.plan}
  BY <1>1, <1>2
<1>4. \A u, v \in Evaluating' : workers'[u].plan = workers'[v].plan => u = v
  BY <1>1, <1>2 DEF PlanIsInOnePlace
<1> QED
  BY <1>3, <1>4 DEF Places

\* A worker gives up the plan that it alone evaluates.
LEMMA EndLemma ==
  ASSUME TypeOK, PlanIsInOnePlace, NEW w \in Evaluating,
         NEW r, r.pc # "evaluate", Set(w, r)
  PROVE  /\ Places'["evaluated"] = Places["evaluated"] \ {workers[w].plan}
         /\ (\A u, v \in Evaluating : workers[u].plan = workers[v].plan => u = v)'
<1>1. Evaluating' = Evaluating \ {w}
  BY DEF TypeOK, Evaluating, Set
<1>2. \A v \in Evaluating \ {w} : workers'[v] = workers[v]
  BY DEF TypeOK, Evaluating, Set
<1>3. {workers[v].plan : v \in Evaluating}'
        = {workers[v].plan : v \in Evaluating} \ {workers[w].plan}
  BY <1>1, <1>2 DEF PlanIsInOnePlace
<1>4. \A u, v \in Evaluating' : workers'[u].plan = workers'[v].plan => u = v
  BY <1>1, <1>2 DEF PlanIsInOnePlace
<1> QED
  BY <1>3, <1>4 DEF Places

SamePlans ==
  \A v \in Workers :
    /\ workers'[v].pc = "evaluate" <=> workers[v].pc = "evaluate"
    /\ workers[v].pc = "evaluate" => workers'[v].plan = workers[v].plan

\* Workers that keep their plans evaluate what they evaluated.
LEMMA SameLemma ==
  ASSUME PlanIsInOnePlace, SamePlans
  PROVE  /\ Places'["evaluated"] = Places["evaluated"]
         /\ (\A u, v \in Evaluating : workers[u].plan = workers[v].plan => u = v)'
<1>1. Evaluating' = Evaluating /\ \A v \in Evaluating : workers'[v].plan = workers[v].plan
  BY DEF SamePlans, Evaluating
<1> QED
  BY <1>1 DEF PlanIsInOnePlace, Places

\* Where no plan moves, every plan stays in its one place.
LEMMA KeepLemma ==
  ASSUME PlanIsInOnePlace, SamePlans, UNCHANGED <<pipeline, unpushed>>
  PROVE  PlanIsInOnePlace'
<1>1. Places' = Places
  <2>1. Places'["evaluated"] = Places["evaluated"]
    BY SameLemma
  <2>2. Solutions' = Solutions
    BY DEF Solutions, pipeline
  <2> QED
    BY <2>1, <2>2 DEF Places, pipeline
<1> QED
  BY <1>1, SameLemma DEF PlanIsInOnePlace, pipeline, InOnePlace

\* A worker moves the first plan of the queue to those that are evaluated.
LEMMA TakePlaces ==
  ASSUME TypeOK, PlanIsInOnePlace, NEW w \in Workers, w \notin Evaluating, queue_ # <<>>, Take(w),
         UNCHANGED <<success_, failed_, aborted, dropped, contradicted, unpushed>>
  PROVE  PlanIsInOnePlace'
<1> DEFINE x == Head(queue_)
<1>1. /\ x \in Plans /\ x \in Range(queue_)
      /\ queue_' = Tail(queue_) /\ Range(queue_') = Range(queue_) \ {x} /\ IsInjective(queue_')
  BY TailLemma DEF TypeOK, PlanIsInOnePlace, Take
<1>2. \A v \in Evaluating : workers[v].plan # x
  <2>1. x \in Places["queued"] /\ \A v \in Evaluating : workers[v].plan \in Places["evaluated"]
    BY <1>1 DEF Places
  <2>2. x \notin Places["evaluated"]
    BY <1>1, <2>1, PlacesLemma DEF PlanIsInOnePlace, InOnePlace, Fields
  <2> QED
    BY <2>1, <2>2
<1>3. /\ Places'["evaluated"] = Places["evaluated"] \cup {x}
      /\ (\A u, v \in Evaluating : workers[u].plan = workers[v].plan => u = v)'
  <2> DEFINE r == [pc |-> "evaluate", plan |-> Head(queue_), stage |-> 1, inc_queue |-> FALSE]
  <2>1. Set(w, r) /\ r.pc = "evaluate" /\ r.plan = x
    BY DEF Take
  <2> HIDE DEF r
  <2> QED
    BY <1>2, <2>1, BeginLemma
<1>4. InOnePlace(Places')
  <2>1. /\ DOMAIN Places = Fields /\ DOMAIN Places' = Fields
        /\ Places'["queued"] = Places["queued"] \ {x} /\ x \in Places["queued"]
        /\ \A q \in Fields \ {"queued", "evaluated"} : Places'[q] = Places[q]
    <3>1. Solutions' = Solutions
      BY DEF Solutions
    <3> QED
      BY <1>1, <3>1 DEF Places, Fields
  <2>2. InOnePlace(Places) /\ "queued" \in Fields /\ "evaluated" \in Fields
    BY DEF PlanIsInOnePlace, Fields
  <2> QED
    BY <1>3, <2>1, <2>2, MoveLemma
<1> QED
  BY <1>1, <1>3, <1>4 DEF PlanIsInOnePlace, InOnePlace

\* A plan that was evaluated goes to place b.
LEMMA FinishLemma ==
  ASSUME TypeOK, PlanIsInOnePlace, NEW w \in Evaluating,
         NEW r, r.pc # "evaluate", Set(w, r),
         NEW b \in Fields \ {"evaluated"},
         Places'[b] = Places[b] \cup {workers[w].plan},
         \A q \in Fields \ {"evaluated", b} : Places'[q] = Places[q]
  PROVE  /\ InOnePlace(Places')
         /\ (\A u, v \in Evaluating : workers[u].plan = workers[v].plan => u = v)'
<1>1. /\ Places'["evaluated"] = Places["evaluated"] \ {workers[w].plan}
      /\ (\A u, v \in Evaluating : workers[u].plan = workers[v].plan => u = v)'
  BY EndLemma
<1>2. /\ DOMAIN Places = Fields /\ DOMAIN Places' = Fields
      /\ workers[w].plan \in Places["evaluated"]
  BY DEF Places, Fields
<1>3. InOnePlace(Places) /\ "evaluated" \in Fields
  BY DEF PlanIsInOnePlace, Fields
<1> QED
  BY <1>1, <1>2, <1>3, MoveLemma

\* The end of a stage leaves the plan with its worker or moves it to one list.
LEMMA EndStagePlaces ==
  ASSUME TypeOK, PlanIsInOnePlace, NEW w \in Workers, EndStage(w)
  PROVE  PlanIsInOnePlace'
<1> DEFINE x == workers[w].plan
           r == [workers[w] EXCEPT !.pc = "next", !.plan = NoPlan, !.stage = 0]
<1>1. /\ w \in Evaluating /\ x \in Plans
      /\ queue_' = queue_ /\ unpushed' = unpushed
  BY DEF TypeOK, EndStage, Evaluating
<1>2. r.pc # "evaluate"
  BY DEF TypeOK
<1>0. UNCHANGED <<success_, contradicted>> => Solutions' = Solutions
  BY DEF Solutions
<1>3. CASE /\ aborted' = aborted \cup {x} /\ Idle(w)
           /\ UNCHANGED <<success_, failed_, dropped, contradicted>>
  <2>1. Set(w, r) /\ "aborted" \in Fields \ {"evaluated"}
    BY <1>3 DEF Idle, Fields
  <2>2. /\ Places'["aborted"] = Places["aborted"] \cup {x}
        /\ \A q \in Fields \ {"evaluated", "aborted"} : Places'[q] = Places[q]
    BY <1>0, <1>1, <1>3 DEF Places, Fields
  <2> HIDE DEF r
  <2>3. /\ InOnePlace(Places')
        /\ (\A u, v \in Evaluating : workers[u].plan = workers[v].plan => u = v)'
    BY <1>1, <1>2, <2>1, <2>2, FinishLemma
  <2> QED
    BY <1>1, <1>3, <2>3 DEF PlanIsInOnePlace
<1>4. CASE /\ failed_' = Append(failed_, x) /\ Idle(w)
           /\ UNCHANGED <<success_, aborted, dropped, contradicted>>
  <2>1. Set(w, r) /\ "failed" \in Fields \ {"evaluated"}
    BY <1>4 DEF Idle, Fields
  <2>2. x \notin Range(failed_)
    <3>1. x \in Places["evaluated"] /\ Places["failed"] = Range(failed_)
      BY <1>1 DEF Places
    <3> QED
      BY <1>1, <3>1, PlacesLemma DEF PlanIsInOnePlace, InOnePlace, Fields
  <2>3. IsInjective(failed_') /\ Range(failed_') = Range(failed_) \cup {x}
    BY <1>1, <1>4, <2>2, AppendLemma DEF TypeOK, PlanIsInOnePlace
  <2>4. /\ Places'["failed"] = Places["failed"] \cup {x}
        /\ \A q \in Fields \ {"evaluated", "failed"} : Places'[q] = Places[q]
    BY <1>0, <1>1, <1>4, <2>3 DEF Places, Fields
  <2> HIDE DEF r
  <2>5. /\ InOnePlace(Places')
        /\ (\A u, v \in Evaluating : workers[u].plan = workers[v].plan => u = v)'
    BY <1>1, <1>2, <2>1, <2>4, FinishLemma
  <2> QED
    BY <1>1, <2>3, <2>5 DEF PlanIsInOnePlace
<1>5. CASE /\ dropped' = dropped \cup {x} /\ Idle(w)
           /\ UNCHANGED <<success_, failed_, aborted, contradicted>>
  <2>1. Set(w, r) /\ "dropped" \in Fields \ {"evaluated"}
    BY <1>5 DEF Idle, Fields
  <2>2. /\ Places'["dropped"] = Places["dropped"] \cup {x}
        /\ \A q \in Fields \ {"evaluated", "dropped"} : Places'[q] = Places[q]
    BY <1>0, <1>1, <1>5 DEF Places, Fields
  <2> HIDE DEF r
  <2>3. /\ InOnePlace(Places')
        /\ (\A u, v \in Evaluating : workers[u].plan = workers[v].plan => u = v)'
    BY <1>1, <1>2, <2>1, <2>2, FinishLemma
  <2> QED
    BY <1>1, <1>5, <2>3 DEF PlanIsInOnePlace
<1>6. CASE /\ Set(w, [workers[w] EXCEPT !.stage = workers[w].stage + 1])
           /\ UNCHANGED <<success_, failed_, aborted, dropped, contradicted>>
  <2>1. SamePlans
    BY <1>1, <1>6 DEF SamePlans, Set, TypeOK
  <2> QED
    BY <1>1, <1>6, <2>1, KeepLemma DEF pipeline
<1>7. CASE /\ success_' = success_ \cup {x} /\ contradicted' = contradicted \ {x}
           /\ Set(w, [workers[w] EXCEPT !.pc = "solved", !.plan = NoPlan, !.stage = 0])
           /\ UNCHANGED <<failed_, aborted, dropped>>
  <2> DEFINE s == [workers[w] EXCEPT !.pc = "solved", !.plan = NoPlan, !.stage = 0]
  <2>1. Set(w, s) /\ s.pc # "evaluate" /\ "succeeded" \in Fields \ {"evaluated"}
    BY <1>7 DEF Fields, TypeOK
  <2>2. /\ Places'["succeeded"] = Places["succeeded"] \cup {x}
        /\ \A q \in Fields \ {"evaluated", "succeeded"} : Places'[q] = Places[q]
    <3>1. Solutions' = Solutions \cup {x}
      BY <1>7 DEF Solutions
    <3> QED
      BY <1>1, <1>7, <3>1 DEF Places, Fields
  <2> HIDE DEF s
  <2>3. /\ InOnePlace(Places')
        /\ (\A u, v \in Evaluating : workers[u].plan = workers[v].plan => u = v)'
    BY <1>1, <2>1, <2>2, FinishLemma
  <2> QED
    BY <1>1, <1>7, <2>3 DEF PlanIsInOnePlace
<1>8. CASE /\ failed_' = Append(failed_, x) /\ contradicted' = contradicted \cup {x}
           /\ Set(w, [workers[w] EXCEPT !.pc = "failed"])
           /\ UNCHANGED <<success_, aborted, dropped>>
  <2> DEFINE s == [workers[w] EXCEPT !.pc = "failed"]
  <2>1. Set(w, s) /\ s.pc # "evaluate" /\ "failed" \in Fields \ {"evaluated"}
    BY <1>8 DEF Fields, TypeOK
  <2>2. x \notin Range(failed_) /\ x \notin Solutions
    <3>1. x \in Places["evaluated"]
      BY <1>1 DEF Places
    <3> QED
      BY <1>1, <3>1, PlacesLemma DEF PlanIsInOnePlace, InOnePlace, Fields
  <2>3. IsInjective(failed_') /\ Range(failed_') = Range(failed_) \cup {x}
    BY <1>1, <1>8, <2>2, AppendLemma DEF TypeOK, PlanIsInOnePlace
  <2>4. /\ Places'["failed"] = Places["failed"] \cup {x}
        /\ \A q \in Fields \ {"evaluated", "failed"} : Places'[q] = Places[q]
    <3>1. Solutions' = Solutions
      BY <1>8, <2>2 DEF Solutions
    <3> QED
      BY <1>1, <1>8, <2>3, <3>1 DEF Places, Fields
  <2> HIDE DEF s
  <2>5. /\ InOnePlace(Places')
        /\ (\A u, v \in Evaluating : workers[u].plan = workers[v].plan => u = v)'
    BY <1>1, <2>1, <2>4, FinishLemma
  <2> QED
    BY <1>1, <2>3, <2>5 DEF PlanIsInOnePlace
<1> QED
  BY <1>3, <1>4, <1>5, <1>6, <1>7, <1>8 DEF EndStage

\* A failed plan that becomes a success stays where it is.
LEMMA SucceedFailedPlaces ==
  ASSUME TypeOK, PlanIsInOnePlace, WorkersInv, NEW w \in Workers, SucceedFailed(w)
  PROVE  PlanIsInOnePlace'
<1>1. /\ SamePlans
      /\ UNCHANGED <<queue_, failed_, aborted, dropped, unpushed>>
  BY DEF SucceedFailed, SamePlans, Set, TypeOK
<1>2. Solutions' = Solutions
  BY DEF SucceedFailed, WorkersInv, Solutions
<1>3. Places' = Places
  <2>1. Places'["evaluated"] = Places["evaluated"]
    BY <1>1, SameLemma
  <2> QED
    BY <1>1, <1>2, <2>1 DEF Places
<1> QED
  BY <1>1, <1>3, SameLemma DEF PlanIsInOnePlace, InOnePlace

\* push() moves a candidate into the queue.
LEMMA PushPlaces ==
  ASSUME TypeOK, PlanIsInOnePlace, Push
  PROVE  PlanIsInOnePlace'
<1>1. PICK x \in unpushed : Enqueue(x) /\ unpushed' = unpushed \ {x}
  BY DEF Push
<1>2. x \in Plans /\ x \in Places["unpushed"] /\ Places["queued"] = Range(queue_)
  BY DEF TypeOK, Places
<1>3. x \notin Range(queue_)
  BY <1>2, PlacesLemma DEF PlanIsInOnePlace, InOnePlace, Fields
<1>4. IsInjective(queue_') /\ Range(queue_') = Range(queue_) \cup {x}
  BY <1>1, <1>2, <1>3, AppendLemma DEF TypeOK, PlanIsInOnePlace, Enqueue
<1>5. SamePlans
  BY <1>1 DEF SamePlans, Enqueue, Notified, TypeOK
<1>6. InOnePlace(Places')
  <2>1. Places'["evaluated"] = Places["evaluated"]
    BY <1>5, SameLemma
  <2>0. Solutions' = Solutions
    BY DEF Push, Solutions
  <2>2. /\ DOMAIN Places = Fields /\ DOMAIN Places' = Fields
        /\ Places'["unpushed"] = Places["unpushed"] \ {x}
        /\ Places'["queued"] = Places["queued"] \cup {x}
        /\ \A q \in Fields \ {"unpushed", "queued", "evaluated"} : Places'[q] = Places[q]
    BY <1>1, <1>4, <2>0 DEF Places, Fields, Push
  <2>3. InOnePlace(Places) /\ "unpushed" \in Fields /\ "queued" \in Fields
    BY DEF PlanIsInOnePlace, Fields
  <2> QED
    BY <1>2, <2>1, <2>2, <2>3, MoveLemma
<1>7. failed_' = failed_
  BY DEF Push
<1> QED
  BY <1>4, <1>5, <1>6, <1>7, SameLemma DEF PlanIsInOnePlace

\* reprocessLastFailure() moves the last failure into the queue.
LEMMA ReprocessPlaces ==
  ASSUME TypeOK, PlanIsInOnePlace, Reprocess
  PROVE  PlanIsInOnePlace'
<1>1. CASE failed_ = <<>>
  <2>1. SamePlans /\ UNCHANGED <<pipeline, unpushed>>
    BY <1>1 DEF Reprocess, SamePlans, pipeline
  <2> QED
    BY <2>1, KeepLemma
<1>2. CASE failed_ # <<>>
  <2> DEFINE x == failed_[Len(failed_)]
  <2>1. Enqueue(x) /\ failed_' = SubSeq(failed_, 1, Len(failed_) - 1)
    BY <1>2 DEF Reprocess
  <2>2. /\ x \in Plans /\ x \in Range(failed_)
        /\ IsInjective(failed_') /\ Range(failed_') = Range(failed_) \ {x}
    BY <1>2, <2>1, FrontLemma DEF TypeOK, PlanIsInOnePlace
  <2> HIDE DEF x
  <2>3. x \notin Range(queue_)
    <3>1. x \in Places["failed"] /\ Places["queued"] = Range(queue_)
      BY <2>2 DEF Places
    <3> QED
      BY <2>2, <3>1, PlacesLemma DEF PlanIsInOnePlace, InOnePlace, Fields
  <2>4. IsInjective(queue_') /\ Range(queue_') = Range(queue_) \cup {x}
    BY <2>1, <2>2, <2>3, AppendLemma DEF TypeOK, PlanIsInOnePlace, Enqueue
  <2>5. SamePlans
    BY <2>1 DEF SamePlans, Enqueue, Notified, TypeOK
  <2>6. InOnePlace(Places')
    <3>1. Places'["evaluated"] = Places["evaluated"]
      BY <2>5, SameLemma
    <3>0. Solutions' = Solutions
      BY DEF Reprocess, Solutions
    <3>2. /\ DOMAIN Places = Fields /\ DOMAIN Places' = Fields
          /\ x \in Places["failed"]
          /\ Places'["failed"] = Places["failed"] \ {x}
          /\ Places'["queued"] = Places["queued"] \cup {x}
          /\ \A q \in Fields \ {"failed", "queued", "evaluated"} : Places'[q] = Places[q]
      BY <2>2, <2>4, <3>0 DEF Places, Fields, Reprocess
    <3>3. InOnePlace(Places) /\ "failed" \in Fields /\ "queued" \in Fields
      BY DEF PlanIsInOnePlace, Fields
    <3> QED
      BY <3>1, <3>2, <3>3, MoveLemma
  <2> QED
    BY <2>2, <2>4, <2>5, <2>6, SameLemma DEF PlanIsInOnePlace
<1> QED
  BY <1>1, <1>2

\* Every step keeps every candidate in one place.
LEMMA PlacesStep ==
  ASSUME TypeOK, PlanIsInOnePlace, WorkersInv, [Next]_vars
  PROVE  PlanIsInOnePlace'
<1>1. ASSUME NEW w \in Workers, Enter(w) PROVE PlanIsInOnePlace'
  <2>1. /\ w \notin Evaluating
        /\ UNCHANGED <<success_, failed_, aborted, dropped, contradicted, unpushed>>
    BY <1>1 DEF Enter, Evaluating
  <2>2. CASE queue_ # <<>> /\ Take(w)
    BY <2>1, <2>2, TakePlaces
  <2>3. CASE workers' = [workers EXCEPT ![w] = Gone] /\ UNCHANGED queue_
    <3>1. SamePlans
      BY <2>1, <2>3 DEF SamePlans, Evaluating, Gone, TypeOK
    <3> QED
      BY <2>1, <2>3, <3>1, KeepLemma DEF pipeline
  <2>4. CASE /\ Set(w, [pc |-> "tested", plan |-> NoPlan, stage |-> 0, inc_queue |-> TRUE])
             /\ UNCHANGED queue_
    <3>1. SamePlans
      BY <2>1, <2>4 DEF SamePlans, Evaluating, Set, TypeOK
    <3> QED
      BY <2>1, <2>4, <3>1, KeepLemma DEF pipeline
  <2> QED
    BY <1>1, <2>2, <2>3, <2>4 DEF Enter, Set
<1>2. ASSUME NEW w \in Workers, WaitForPlan(w) PROVE PlanIsInOnePlace'
  <2>1. SamePlans /\ UNCHANGED <<pipeline, unpushed>>
    BY <1>2 DEF SamePlans, WaitForPlan, Set, TypeOK
  <2> QED
    BY <2>1, KeepLemma
<1>3. ASSUME NEW w \in Workers, Again(w) PROVE PlanIsInOnePlace'
  <2>1. /\ w \notin Evaluating
        /\ UNCHANGED <<success_, failed_, aborted, dropped, contradicted, unpushed>>
    BY <1>3 DEF Again, Evaluating
  <2>2. CASE queue_ # <<>> /\ Take(w)
    BY <2>1, <2>2, TakePlaces
  <2>3. CASE /\ \/ Set(w, [workers[w] EXCEPT !.pc = "top", !.inc_queue = FALSE])
                \/ Set(w, [workers[w] EXCEPT !.pc = "tested"])
             /\ UNCHANGED queue_
    <3>1. ASSUME Set(w, [workers[w] EXCEPT !.pc = "top", !.inc_queue = FALSE])
          PROVE  SamePlans
      BY <2>1, <3>1 DEF SamePlans, Evaluating, Set, TypeOK
    <3>2. ASSUME Set(w, [workers[w] EXCEPT !.pc = "tested"]) PROVE SamePlans
      BY <2>1, <3>2 DEF SamePlans, Evaluating, Set, TypeOK
    <3>3. SamePlans
      BY <2>3, <3>1, <3>2
    <3> QED
      BY <2>1, <2>3, <3>3, KeepLemma DEF pipeline
  <2> QED
    BY <1>3, <2>2, <2>3 DEF Again
<1>4. ASSUME NEW w \in Workers, SignalSolved(w) \/ FoundSolution(w) PROVE PlanIsInOnePlace'
  <2>1. UNCHANGED <<pipeline, unpushed>>
    BY <1>4 DEF SignalSolved, FoundSolution
  <2>2. CASE SignalSolved(w)
    <3>1. SamePlans
      BY <2>2 DEF SamePlans, SignalSolved, SignalStop, Notified, TypeOK
    <3> QED
      BY <2>1, <3>1, KeepLemma
  <2>3. CASE FoundSolution(w)
    <3>1. SamePlans
      BY <2>3 DEF SamePlans, FoundSolution, Set, TypeOK
    <3> QED
      BY <2>1, <3>1, KeepLemma
  <2> QED
    BY <1>4, <2>2, <2>3
<1>5. CASE StartPipeline
  <2>1. UNCHANGED <<pipeline, unpushed>>
    BY <1>5 DEF StartPipeline
  <2>2. \A v \in Workers : workers'[v].pc = "top"
    BY <1>5 DEF StartPipeline, Gone
  <2>3. \A v \in Workers : workers[v].pc # "evaluate"
    BY <1>5 DEF StartPipeline, WorkersInv
  <2> QED
    BY <2>1, <2>2, <2>3, KeepLemma DEF SamePlans
<1>6. CASE EnterWait \/ EndWait \/ Stop \/ Judge \/ TimeOut \/ UNCHANGED vars
  <2>1. UNCHANGED <<pipeline, unpushed>>
    BY <1>6 DEF EnterWait, EndWait, Stop, Judge, TimeOut, vars
  <2>2. CASE Stop
    BY <2>1, <2>2, KeepLemma DEF SamePlans, Stop, SignalStop, Notified, TypeOK
  <2>3. CASE ~Stop
    <3>1. workers' = workers
      BY <1>6, <2>3 DEF EnterWait, EndWait, Judge, TimeOut, vars
    <3> QED
      BY <2>1, <3>1, KeepLemma DEF SamePlans
  <2> QED
    BY <2>2, <2>3
<1> QED
  BY <1>1, <1>2, <1>3, <1>4, <1>5, <1>6, EndStagePlaces, SucceedFailedPlaces,
     PushPlaces, ReprocessPlaces
     DEF Next, Worker, Client

-----------------------------------------------------------------------------
(* Types, and the number of idle workers.                                  *)

Records ==
  [pc : {"off", "top", "tested", "waiting", "woken", "evaluate", "failed", "solved", "found",
         "next"},
   plan : Plans \cup {NoPlan}, stage : 0 .. LastStage, inc_queue : BOOLEAN]

\* A worker has a plan while it evaluates it and until its success is recorded.
Holding == {"evaluate", "failed"}

Counted == {w \in Workers : workers[w].inc_queue}

\* What TypeOK says of the workers and of their number.
WorkersOK ==
  /\ workers \in [Workers -> Records]
  /\ empty_queue_threads_ \in Nat
  /\ ~stop_processing_ => empty_queue_threads_ = Cardinality(Counted)
  /\ \A w \in Workers : workers[w].pc \in Holding <=> workers[w].plan \in Plans

\* And of everything else.
ValuesOK ==
  /\ queue_ \in Seq(Plans) /\ failed_ \in Seq(Plans)
  /\ success_ \subseteq Plans /\ aborted \subseteq Plans /\ dropped \subseteq Plans
  /\ unpushed \subseteq Plans /\ contradicted \subseteq Plans
  /\ stop_processing_ \in BOOLEAN /\ done_ \in BOOLEAN /\ pushed_all_poses_ \in BOOLEAN
  /\ timedOut \in BOOLEAN /\ early \in BOOLEAN /\ missed \in BOOLEAN
  /\ client \in {"start", "push", "waiting", "stop", "join", "retry", "reprocess", "pushed",
                 "done"}
  /\ round \in {1, 2}
  /\ error_code_ \in {"UNSET", "SUCCESS", "TIMED_OUT", "PLANNING_FAILED"}

\* The type invariant is what it says of the workers and of the rest.
LEMMA TypesLemma == TypeOK <=> WorkersOK /\ ValuesOK
  BY DEF TypeOK, WorkersOK, ValuesOK, Records, Counted, Holding

\* The workers that are counted are finitely many.
LEMMA CountLemma == IsFiniteSet(Counted) /\ Cardinality(Counted) \in Nat
  BY ManipulationPipelineAssumption, FS_Subset, FS_CardinalityType DEF Counted

\* One worker changes, and the number with it.
LEMMA CountStep ==
  ASSUME WorkersOK, NEW w \in Workers, NEW r \in Records, Set(w, r),
         r.pc \in Holding <=> r.plan \in Plans,
         stop_processing_' = stop_processing_,
         ~stop_processing_ =>
           empty_queue_threads_' = empty_queue_threads_
                                     + (IF r.inc_queue THEN 1 ELSE 0)
                                     - (IF workers[w].inc_queue THEN 1 ELSE 0),
         stop_processing_ => empty_queue_threads_' \in Nat
  PROVE  WorkersOK'
<1>1. /\ workers' \in [Workers -> Records] /\ workers'[w] = r
      /\ \A v \in Workers \ {w} : workers'[v] = workers[v]
  BY DEF WorkersOK, Set
<1>2. r.inc_queue \in BOOLEAN /\ workers[w].inc_queue \in BOOLEAN
  BY DEF WorkersOK, Records, Holding
<1>3. ~stop_processing_ => empty_queue_threads_' = Cardinality(Counted')
  <2>1. CASE r.inc_queue
    <3>1. Counted' = Counted \cup {w}
      BY <1>1, <2>1 DEF Counted
    <3>2. Cardinality(Counted') = IF w \in Counted THEN Cardinality(Counted)
                                                  ELSE Cardinality(Counted) + 1
      BY <3>1, CountLemma, FS_AddElement
    <3> QED
      BY <1>2, <2>1, <3>2, CountLemma DEF WorkersOK, Counted
  <2>2. CASE ~r.inc_queue
    <3>1. Counted' = Counted \ {w}
      BY <1>1, <2>2 DEF Counted
    <3>2. Cardinality(Counted') = IF w \in Counted THEN Cardinality(Counted) - 1
                                                  ELSE Cardinality(Counted)
      BY <3>1, CountLemma, FS_RemoveElement
    <3> QED
      BY <1>2, <2>2, <3>2, CountLemma DEF WorkersOK, Counted
  <2> QED
    BY <2>1, <2>2
<1>4. IsFiniteSet(Counted') /\ Cardinality(Counted') \in Nat
  BY ManipulationPipelineAssumption, FS_Subset, FS_CardinalityType DEF Counted
<1>5. \A v \in Workers : workers'[v].pc \in Holding <=> workers'[v].plan \in Plans
  BY <1>1 DEF WorkersOK
<1> QED
  BY <1>1, <1>3, <1>4, <1>5 DEF WorkersOK

\* Waking workers changes neither.
LEMMA NotifiedLemma ==
  ASSUME WorkersOK, workers' = Notified(workers),
         empty_queue_threads_' = empty_queue_threads_,
         stop_processing_ => stop_processing_'
  PROVE  WorkersOK'
<1>1. /\ workers' \in [Workers -> Records]
      /\ \A v \in Workers : /\ workers'[v].plan = workers[v].plan
                            /\ workers'[v].inc_queue = workers[v].inc_queue
                            /\ workers'[v].pc \in Holding <=> workers[v].pc \in Holding
  BY DEF WorkersOK, Notified, Records, Holding
<1>2. Counted' = Counted
  BY <1>1 DEF Counted
<1> QED
  BY <1>1, <1>2 DEF WorkersOK

\* A worker that takes a plan is not counted any more.
LEMMA TakeWorkers ==
  ASSUME WorkersOK, ValuesOK, NEW w \in Workers, ~stop_processing_, queue_ # <<>>, Take(w),
         stop_processing_' = stop_processing_
  PROVE  WorkersOK'
<1> DEFINE r == [pc |-> "evaluate", plan |-> Head(queue_), stage |-> 1, inc_queue |-> FALSE]
<1>1. Head(queue_) \in Plans
  BY HeadTailProperties DEF ValuesOK
<1>2. r \in Records /\ Set(w, r) /\ r.pc \in Holding /\ r.plan \in Plans /\ ~r.inc_queue
  BY <1>1, ManipulationPipelineAssumption DEF Records, Holding, Take
<1> HIDE DEF r
<1>3. empty_queue_threads_' = empty_queue_threads_ - (IF workers[w].inc_queue THEN 1 ELSE 0)
  BY DEF Take
<1>4. empty_queue_threads_ \in Nat
  BY DEF WorkersOK
<1>5. empty_queue_threads_'
        = empty_queue_threads_ + (IF r.inc_queue THEN 1 ELSE 0)
                               - (IF workers[w].inc_queue THEN 1 ELSE 0)
  BY <1>2, <1>3, <1>4
<1> QED
  BY <1>2, <1>5, CountStep

\* Every step keeps the count of the workers without work.
LEMMA WorkersStep ==
  ASSUME WorkersOK, ValuesOK, WorkersInv, [Next]_vars
  PROVE  WorkersOK'
<1>1. ASSUME NEW w \in Workers, Enter(w) PROVE WorkersOK'
  <2>1. CASE ~stop_processing_ /\ queue_ # <<>> /\ Take(w)
    BY <1>1, <2>1, TakeWorkers DEF Enter
  <2>2. CASE stop_processing_ /\ Set(w, Gone) /\ UNCHANGED empty_queue_threads_
    BY <1>1, <2>2, ManipulationPipelineAssumption DEF Enter, WorkersOK, Set, Gone, Records, Holding
  <2>3. CASE /\ ~stop_processing_ /\ empty_queue_threads_' = empty_queue_threads_ + 1
             /\ Set(w, [pc |-> "tested", plan |-> NoPlan, stage |-> 0, inc_queue |-> TRUE])
    <3> DEFINE r == [pc |-> "tested", plan |-> NoPlan, stage |-> 0, inc_queue |-> TRUE]
    <3>1. r \in Records /\ Set(w, r) /\ r.pc \notin Holding /\ r.plan \notin Plans /\ r.inc_queue
      BY <2>3, ManipulationPipelineAssumption DEF Records, Holding
    <3> HIDE DEF r
    <3>2. ~workers[w].inc_queue /\ empty_queue_threads_ \in Nat
      BY <1>1 DEF Enter, WorkersInv, WorkersOK
    <3>3. stop_processing_' = stop_processing_
      BY <1>1 DEF Enter
    <3> QED
      BY <2>3, <3>1, <3>2, <3>3, CountStep
  <2> QED
    BY <1>1, <2>1, <2>2, <2>3 DEF Enter
<1>2. ASSUME NEW w \in Workers, WaitForPlan(w) PROVE WorkersOK'
  <2> DEFINE r == [workers[w] EXCEPT !.pc = "waiting"]
  <2>1. /\ r \in Records /\ Set(w, r) /\ r.pc \notin Holding /\ r.plan = workers[w].plan
        /\ r.inc_queue = workers[w].inc_queue /\ workers[w].pc \notin Holding
    BY <1>2 DEF WaitForPlan, WorkersOK, Records, Holding
  <2> HIDE DEF r
  <2>2. /\ stop_processing_' = stop_processing_
        /\ empty_queue_threads_' = empty_queue_threads_ /\ empty_queue_threads_ \in Nat
    BY <1>2 DEF WaitForPlan, WorkersOK
  <2> QED
    BY <2>1, <2>2, CountStep DEF WorkersOK
<1>3. ASSUME NEW w \in Workers, Again(w) PROVE WorkersOK'
  <2>1. CASE ~stop_processing_ /\ queue_ # <<>> /\ Take(w)
    BY <1>3, <2>1, TakeWorkers DEF Again
  <2>2. CASE /\ stop_processing_ \/ workers[w].pc = "next"
             /\ Set(w, [workers[w] EXCEPT !.pc = "top", !.inc_queue = FALSE])
             /\ UNCHANGED empty_queue_threads_
    <3> DEFINE r == [workers[w] EXCEPT !.pc = "top", !.inc_queue = FALSE]
    <3>1. /\ r \in Records /\ Set(w, r) /\ r.pc \notin Holding /\ r.plan = workers[w].plan
          /\ ~r.inc_queue /\ workers[w].pc \notin Holding
      BY <1>3, <2>2 DEF Again, WorkersOK, Records, Holding
    <3> HIDE DEF r
    <3>2. ~stop_processing_ => ~workers[w].inc_queue
      BY <2>2 DEF WorkersInv
    <3>3. /\ stop_processing_' = stop_processing_
          /\ empty_queue_threads_' = empty_queue_threads_ /\ empty_queue_threads_ \in Nat
      BY <1>3, <2>2 DEF Again, WorkersOK
    <3> QED
      BY <3>1, <3>2, <3>3, CountStep DEF WorkersOK
  <2>3. CASE /\ Set(w, [workers[w] EXCEPT !.pc = "tested"])
             /\ UNCHANGED empty_queue_threads_
    <3> DEFINE r == [workers[w] EXCEPT !.pc = "tested"]
    <3>1. /\ r \in Records /\ Set(w, r) /\ r.pc \notin Holding /\ r.plan = workers[w].plan
          /\ r.inc_queue = workers[w].inc_queue /\ workers[w].pc \notin Holding
      BY <1>3, <2>3 DEF Again, WorkersOK, Records, Holding
    <3> HIDE DEF r
    <3>2. /\ stop_processing_' = stop_processing_
          /\ empty_queue_threads_' = empty_queue_threads_ /\ empty_queue_threads_ \in Nat
      BY <1>3, <2>3 DEF Again, WorkersOK
    <3> QED
      BY <3>1, <3>2, CountStep DEF WorkersOK
  <2> QED
    BY <1>3, <2>1, <2>2, <2>3 DEF Again
<1>4. ASSUME NEW w \in Workers, EndStage(w) \/ SucceedFailed(w) PROVE WorkersOK'
  <2>1. PICK r \in Records : /\ Set(w, r) /\ r.inc_queue = workers[w].inc_queue
                             /\ r.pc \in Holding <=> r.plan \in Plans
    <3> DEFINE a == [workers[w] EXCEPT !.pc = "next", !.plan = NoPlan, !.stage = 0]
               b == [workers[w] EXCEPT !.stage = workers[w].stage + 1]
               c == [workers[w] EXCEPT !.pc = "solved", !.plan = NoPlan, !.stage = 0]
               d == [workers[w] EXCEPT !.pc = "failed"]
    <3>0. 0 \in 0 .. LastStage /\ NoPlan \notin Plans
      BY ManipulationPipelineAssumption
    <3>1. CASE Idle(w)
      <4>1. a.inc_queue = workers[w].inc_queue /\ a.pc \notin Holding /\ a.plan = NoPlan
        BY DEF WorkersOK, Records, Holding
      <4>2. a \in Records
        BY <3>0 DEF WorkersOK, Records, Holding
      <4> QED
        BY <3>0, <3>1, <4>1, <4>2 DEF Idle
    <3>2. CASE /\ workers[w].stage < LastStage
               /\ Set(w, b)
      <4>1. b \in Records /\ b.inc_queue = workers[w].inc_queue
            /\ b.pc = workers[w].pc /\ b.plan = workers[w].plan
        BY <3>2, ManipulationPipelineAssumption DEF WorkersOK, Records, Holding
      <4> QED
        BY <3>2, <4>1 DEF WorkersOK
    <3>3. CASE Set(w, c)
      <4>1. c.inc_queue = workers[w].inc_queue /\ c.pc \notin Holding /\ c.plan = NoPlan
        BY DEF WorkersOK, Records, Holding
      <4>2. c \in Records
        BY <3>0 DEF WorkersOK, Records, Holding
      <4> QED
        BY <3>0, <3>3, <4>1, <4>2
    <3>4. CASE EndStage(w) /\ Set(w, d)
      <4>1. d \in Records /\ d.inc_queue = workers[w].inc_queue
            /\ d.pc = "failed" /\ d.plan = workers[w].plan /\ workers[w].pc = "evaluate"
        BY <3>4 DEF EndStage, WorkersOK, Records
      <4> QED
        BY <3>4, <4>1 DEF WorkersOK, Holding
    <3> QED
      BY <1>4, <3>1, <3>2, <3>3, <3>4 DEF EndStage, SucceedFailed
  <2>2. /\ stop_processing_' = stop_processing_
        /\ empty_queue_threads_' = empty_queue_threads_ /\ empty_queue_threads_ \in Nat
    BY <1>4 DEF EndStage, SucceedFailed, WorkersOK
  <2> QED
    BY <2>1, <2>2, CountStep
<1>5. ASSUME NEW w \in Workers, SignalSolved(w) PROVE WorkersOK'
  BY <1>5 DEF SignalSolved, SignalStop, Notified, WorkersOK, Records, Holding
<1>6. ASSUME NEW w \in Workers, FoundSolution(w) PROVE WorkersOK'
  <2> DEFINE r == [workers[w] EXCEPT !.pc = "next"]
  <2>1. /\ r \in Records /\ Set(w, r) /\ r.pc \notin Holding /\ r.plan = workers[w].plan
        /\ r.inc_queue = workers[w].inc_queue /\ workers[w].pc \notin Holding
    BY <1>6 DEF FoundSolution, WorkersOK, Records, Holding
  <2> HIDE DEF r
  <2>2. /\ stop_processing_' = stop_processing_
        /\ empty_queue_threads_' = empty_queue_threads_ /\ empty_queue_threads_ \in Nat
    BY <1>6 DEF FoundSolution, WorkersOK
  <2> QED
    BY <2>1, <2>2, CountStep DEF WorkersOK
<1>7. CASE StartPipeline
  <2>1. Counted' = {}
    BY <1>7 DEF StartPipeline, Counted, Gone
  <2>2. 0 \in 0 .. LastStage /\ NoPlan \notin Plans
    BY ManipulationPipelineAssumption
  <2> DEFINE r == [Gone EXCEPT !.pc = "top"]
  <2>3. r \in Records /\ r.pc = "top" /\ r.plan = NoPlan
    BY <2>2 DEF Gone, Records, Holding
  <2>4. /\ workers' \in [Workers -> Records]
        /\ \A w \in Workers : workers'[w].pc \notin Holding /\ workers'[w].plan \notin Plans
    <3>1. workers' = [w \in Workers |-> r]
      BY <1>7 DEF StartPipeline
    <3> HIDE DEF r
    <3> QED
      BY <2>2, <2>3, <3>1 DEF Holding
  <2>5. empty_queue_threads_' = Cardinality(Counted') /\ empty_queue_threads_' \in Nat
    BY <1>7, <2>1, FS_EmptySet DEF StartPipeline
  <2> QED
    BY <2>4, <2>5 DEF WorkersOK
<1>8. CASE Push \/ Reprocess
  <2>1. workers' = Notified(workers) \/ workers' = workers
    BY <1>8 DEF Push, Reprocess, Enqueue
  <2>2. /\ stop_processing_' = stop_processing_
        /\ empty_queue_threads_' = empty_queue_threads_
    BY <1>8 DEF Push, Reprocess
  <2> QED
    BY <2>1, <2>2, NotifiedLemma DEF WorkersOK, Counted
<1>9. CASE Stop
  BY <1>9, NotifiedLemma DEF Stop, SignalStop
<1>10. CASE EnterWait \/ EndWait \/ Judge \/ TimeOut \/ UNCHANGED vars
  <2>1. UNCHANGED <<workers, stop_processing_, empty_queue_threads_>>
    BY <1>10 DEF EnterWait, EndWait, Judge, TimeOut, vars
  <2> QED
    BY <2>1 DEF WorkersOK, Counted
<1> QED
  BY <1>1, <1>2, <1>3, <1>4, <1>5, <1>6, <1>7, <1>8, <1>9, <1>10 DEF Next, Worker, Client

\* Every step keeps the types of the lists and of the planning.
LEMMA ValuesStep ==
  ASSUME TypeOK, PlanIsInOnePlace, [Next]_vars
  PROVE  ValuesOK'
<1> USE DEF ValuesOK
<1>0. WorkersOK /\ ValuesOK
  BY TypesLemma
<1>1. ASSUME NEW w \in Workers, Enter(w) \/ Again(w) PROVE ValuesOK'
  <2>1. queue_' \in Seq(Plans)
    BY <1>0, <1>1, HeadTailProperties DEF Enter, Again, Take
  <2>2. done_' \in BOOLEAN /\ early' \in BOOLEAN
    BY <1>0, <1>1 DEF Enter, Again, Take, EmptyQueue
  <2> QED
    BY <1>0, <1>1, <2>1, <2>2 DEF Enter, Again
<1>2. ASSUME NEW w \in Workers, EndStage(w) \/ SucceedFailed(w) PROVE ValuesOK'
  <2>1. workers[w].plan \in Plans
    BY <1>0, <1>2 DEF WorkersOK, EndStage, SucceedFailed, Holding
  <2>2. Append(failed_, workers[w].plan) \in Seq(Plans)
    BY <1>0, <2>1
  <2>3. /\ failed_' \in Seq(Plans) /\ success_' \subseteq Plans
        /\ aborted' \subseteq Plans /\ dropped' \subseteq Plans /\ contradicted' \subseteq Plans
    BY <1>0, <1>2, <2>1, <2>2 DEF EndStage, SucceedFailed
  <2>4. UNCHANGED <<queue_, unpushed, stop_processing_, done_, pushed_all_poses_, timedOut, early,
                    missed, client, round, error_code_>>
    BY <1>2 DEF EndStage, SucceedFailed
  <2> QED
    BY <1>0, <2>3, <2>4
<1>3. ASSUME NEW w \in Workers, WaitForPlan(w) \/ SignalSolved(w) \/ FoundSolution(w)
      PROVE  ValuesOK'
  <2>1. stop_processing_' \in BOOLEAN /\ done_' \in BOOLEAN
    BY <1>0, <1>3 DEF WaitForPlan, SignalSolved, SignalStop, FoundSolution
  <2>2. missed' \in BOOLEAN
    BY <1>0, <1>3 DEF WaitForPlan, SignalSolved, SignalStop, FoundSolution
  <2>3. UNCHANGED <<pipeline, unpushed, pushed_all_poses_, timedOut, early, client, round,
                    error_code_>>
    BY <1>3 DEF WaitForPlan, SignalSolved, FoundSolution
  <2> QED
    BY <1>0, <2>1, <2>2, <2>3 DEF pipeline
<1>4. CASE Push
  BY <1>0, <1>4, AppendProperties DEF Push, Enqueue
<1>5. CASE Reprocess
  <2>1. queue_' \in Seq(Plans) /\ failed_' \in Seq(Plans)
    <3>1. CASE failed_ = <<>>
      BY <1>0, <1>5, <3>1 DEF Reprocess
    <3>2. CASE failed_ # <<>>
      <4>1. failed_[Len(failed_)] \in Plans /\ failed_' \in Seq(Plans)
        BY <1>0, <1>5, <3>2, FrontLemma DEF Reprocess, PlanIsInOnePlace
      <4>2. queue_' = Append(queue_, failed_[Len(failed_)])
        BY <1>5, <3>2 DEF Reprocess, Enqueue
      <4> QED
        BY <1>0, <4>1, <4>2, AppendProperties
    <3> QED
      BY <3>1, <3>2
  <2> QED
    BY <1>0, <1>5, <2>1 DEF Reprocess
<1>6. CASE EnterWait \/ EndWait
  BY <1>0, <1>6 DEF EnterWait, EndWait, pipeline
<1>10. CASE UNCHANGED vars
  BY <1>0, <1>10 DEF vars, pipeline
<1>9. CASE StartPipeline
  BY <1>0, <1>9 DEF StartPipeline, pipeline
<1>8. CASE TimeOut
  <2>1. timedOut' \in BOOLEAN
    BY <1>0, <1>8 DEF TimeOut
  <2> QED
    BY <1>0, <1>8, <2>1 DEF TimeOut, pipeline
<1>7. CASE Stop \/ Judge
  <2>1. missed' \in BOOLEAN
    BY <1>0, <1>7 DEF Stop, SignalStop, Judge
  <2>2. /\ stop_processing_' \in BOOLEAN
        /\ client' \in {"join", "done", "retry"} /\ round' \in {1, 2}
        /\ error_code_' \in {"UNSET", "SUCCESS", "TIMED_OUT", "PLANNING_FAILED"}
    BY <1>0, <1>7 DEF Stop, SignalStop, Judge
  <2>3. UNCHANGED <<pipeline, unpushed, done_, pushed_all_poses_, timedOut, early>>
    BY <1>7 DEF Stop, Judge
  <2> QED
    BY <1>0, <2>1, <2>2, <2>3 DEF pipeline
<1> QED
  BY <1>1, <1>2, <1>3, <1>4, <1>5, <1>6, <1>7, <1>8, <1>9, <1>10
  DEF Next, Worker, Client

-----------------------------------------------------------------------------
(* The other parts of the invariant.                                       *)

\* A worker is counted only from its test to the next plan.
LEMMA WorkersInvStep ==
  ASSUME TypeOK, WorkersInv, [Next]_vars
  PROVE  WorkersInv'
<1> USE DEF WorkersInv
<1>0. WorkersOK
  BY TypesLemma
<1>1. ASSUME NEW w \in Workers, Worker(w) PROVE WorkersInv'
  <2>1. client' = client /\ client \notin {"start", "retry", "done"}
    <3>1. client' = client
      BY <1>1 DEF Worker, Enter, WaitForPlan, Again, EndStage, SucceedFailed, SignalSolved,
                  FoundSolution
    <3>2. workers[w].pc # "off"
      BY <1>1 DEF Worker, Enter, WaitForPlan, Again, EndStage, SucceedFailed, SignalSolved,
                  FoundSolution
    <3> QED
      BY <3>1, <3>2
  <2>2. success_ \subseteq success_'
    BY <1>1 DEF Worker, Enter, WaitForPlan, Again, EndStage, SucceedFailed, SignalSolved,
                  FoundSolution, pipeline
  <2>0. contradicted \cup success_ \subseteq contradicted' \cup success_'
    BY <1>1 DEF Worker, Enter, WaitForPlan, Again, EndStage, SucceedFailed, SignalSolved,
                FoundSolution, pipeline
  <2>3. ASSUME \A v \in Workers \ {w} : workers'[v] = workers[v],
               workers'[w].inc_queue => workers'[w].pc \in {"tested", "waiting", "woken"},
               workers'[w].pc \in {"solved", "found"} => success_' # {},
               workers'[w].pc = "failed" =>
                 workers'[w].plan \in contradicted' \cup success_'
        PROVE  WorkersInv'
    BY <2>0, <2>1, <2>2, <2>3
  <2>4. CASE Enter(w)
    <3> DEFINE a == [pc |-> "tested", plan |-> NoPlan, stage |-> 0, inc_queue |-> TRUE]
               b == [pc |-> "evaluate", plan |-> Head(queue_), stage |-> 1, inc_queue |-> FALSE]
    <3>1. workers'[w] = Gone \/ workers'[w] = a \/ workers'[w] = b
      BY <1>0, <2>4 DEF Enter, Take, Set, WorkersOK
    <3>2. \A v \in Workers \ {w} : workers'[v] = workers[v]
      BY <1>0, <2>4 DEF Enter, Take, Set, WorkersOK
    <3> QED
      BY <2>3, <3>1, <3>2 DEF Gone
  <2>5. CASE \/ WaitForPlan(w) \/ Again(w) \/ EndStage(w)
             \/ SucceedFailed(w) \/ FoundSolution(w)
    <3>1. \A v \in Workers \ {w} : workers'[v] = workers[v]
      BY <1>0, <2>5 DEF WaitForPlan, Again, Take, EndStage, SucceedFailed, Idle,
                         FoundSolution, Set, WorkersOK
    <3>2. CASE WaitForPlan(w)
      BY <1>0, <2>3, <3>1, <3>2 DEF WaitForPlan, Set, WorkersOK, Records
    <3>3. CASE Again(w)
      <4>1. workers[w].pc \in {"woken", "next"}
        BY <3>3 DEF Again
      <4>2. CASE Take(w)
        BY <1>0, <2>3, <3>1, <4>2 DEF Take, Set, WorkersOK
      <4>3. CASE Set(w, [workers[w] EXCEPT !.pc = "top", !.inc_queue = FALSE])
        BY <1>0, <2>3, <3>1, <4>3 DEF Set, WorkersOK, Records
      <4>4. CASE Set(w, [workers[w] EXCEPT !.pc = "tested"])
        BY <1>0, <2>3, <3>1, <4>4 DEF Set, WorkersOK, Records
      <4> QED
        BY <3>3, <4>2, <4>3, <4>4 DEF Again
    <3>4. CASE EndStage(w)
      <4>1. workers[w].pc = "evaluate" /\ ~workers[w].inc_queue
        BY <3>4 DEF EndStage
      <4>2. /\ ~workers'[w].inc_queue
            /\ \/ workers'[w].pc \in {"next", "evaluate"}
               \/ workers'[w].pc = "solved" /\ workers[w].plan \in success_'
               \/ workers'[w].pc = "failed" /\ workers'[w].plan \in contradicted'
        <5>1. CASE Idle(w)
          BY <1>0, <4>1, <5>1 DEF Idle, Set, WorkersOK, Records
        <5>2. CASE Set(w, [workers[w] EXCEPT !.stage = workers[w].stage + 1])
          BY <1>0, <4>1, <5>2 DEF Set, WorkersOK, Records
        <5>3. CASE /\ success_' = success_ \cup {workers[w].plan}
                   /\ Set(w, [workers[w] EXCEPT !.pc = "solved", !.plan = NoPlan, !.stage = 0])
          BY <1>0, <4>1, <5>3 DEF Set, WorkersOK, Records
        <5>4. CASE /\ contradicted' = contradicted \cup {workers[w].plan}
                   /\ Set(w, [workers[w] EXCEPT !.pc = "failed"])
          BY <1>0, <4>1, <5>4 DEF Set, WorkersOK, Records
        <5> QED
          BY <3>4, <5>1, <5>2, <5>3, <5>4 DEF EndStage
      <4> QED
        BY <2>3, <3>1, <4>2
    <3>5. CASE FoundSolution(w)
      BY <1>0, <2>3, <3>1, <3>5 DEF FoundSolution, Set, WorkersOK, Records
    <3>6. CASE SucceedFailed(w)
      <4>1. /\ ~workers'[w].inc_queue /\ workers'[w].pc = "solved"
            /\ workers[w].plan \in success_'
        BY <1>0, <3>6 DEF SucceedFailed, Set, WorkersOK, Records
      <4> QED
        BY <2>3, <3>1, <4>1
    <3> QED
      BY <2>5, <3>2, <3>3, <3>4, <3>5, <3>6
  <2>6. CASE SignalSolved(w)
    BY <1>0, <2>0, <2>1, <2>2, <2>6 DEF SignalSolved, SignalStop, Notified, WorkersOK, Records
  <2> QED
    BY <1>1, <2>4, <2>5, <2>6 DEF Worker
<1>2. CASE StartPipeline
  BY <1>2 DEF StartPipeline, Gone
<1>3. CASE Push \/ Reprocess \/ Stop
  <2>1. /\ \A v \in Workers : /\ workers'[v].inc_queue = workers[v].inc_queue
                              /\ workers'[v].plan = workers[v].plan
                              /\ workers'[v].pc # workers[v].pc => workers'[v].pc = "woken"
                              /\ workers[v].pc = "waiting" \/ workers'[v] = workers[v]
    BY <1>0, <1>3 DEF Push, Reprocess, Stop, SignalStop, Enqueue, Notified, WorkersOK, Records
  <2>2. /\ client' \notin {"start", "retry", "done"}
        /\ success_' = success_ /\ contradicted' = contradicted
    BY <1>3 DEF Push, Reprocess, Stop, pipeline
  <2> QED
    BY <2>1, <2>2
<1>4. CASE EnterWait \/ EndWait \/ Judge \/ TimeOut \/ UNCHANGED vars
  BY <1>4 DEF EnterWait, EndWait, Judge, TimeOut, vars, pipeline
<1> QED
  BY <1>1, <1>2, <1>3, <1>4 DEF Next, Client

\* The planning has pushed what it says it has pushed.
LEMMA ClientInvStep ==
  ASSUME TypeOK, WorkersInv, ClientInv, [Next]_vars
  PROVE  ClientInv'
<1> USE DEF ClientInv
<1>1. ASSUME NEW w \in Workers, Worker(w) PROVE ClientInv'
  <2>1. UNCHANGED <<client, pushed_all_poses_, unpushed, round, timedOut>>
    BY <1>1 DEF Worker, Enter, WaitForPlan, Again, EndStage, SucceedFailed, SignalSolved,
                  FoundSolution
  <2>2. done_ => done_'
    BY <1>1 DEF Worker, Enter, WaitForPlan, Again, Take, EmptyQueue, EndStage, SucceedFailed,
                  SignalSolved, FoundSolution
  <2> QED
    BY <2>1, <2>2
<1>2. CASE StartPipeline
  BY <1>2 DEF StartPipeline, TypeOK
<1>3. CASE Push \/ Reprocess
  BY <1>3 DEF Push, Reprocess, TypeOK
<1>4. CASE EnterWait \/ EndWait \/ TimeOut
  BY <1>4 DEF EnterWait, EndWait, TimeOut, TypeOK
<1>5. CASE Stop \/ Judge
  BY <1>5 DEF Stop, Judge, TypeOK
<1>6. CASE UNCHANGED vars
  BY <1>6 DEF vars
<1> QED
  BY <1>1, <1>2, <1>3, <1>4, <1>5, <1>6 DEF Next, Client

\* When the last worker without a plan reports the empty queue, all is tried.
LEMMA EmptyLemma ==
  ASSUME WorkersOK', WorkersInv', ~stop_processing_', unpushed' = {}, queue_' = <<>>,
         dropped' = {}, empty_queue_threads_' = Cardinality(Workers)
  PROVE  AllTried'
<1>1. Counted' = Workers
  BY ManipulationPipelineAssumption, FS_Subset DEF WorkersOK, Counted
<1>2. \A w \in Workers : workers'[w].pc # "evaluate"
  BY <1>1 DEF Counted, WorkersInv
<1> QED
  BY <1>2 DEF AllTried, Evaluating

\* The first round ends with a success, or with all candidates tried.
LEMMA RoundInvStep ==
  ASSUME IInv, WorkersOK', WorkersInv', [Next]_vars
  PROVE  RoundInv'
<1> USE DEF IInv, RoundInv
<1>1. ASSUME NEW w \in Workers, Enter(w) PROVE RoundInv'
  <2>1. UNCHANGED <<success_, dropped, unpushed, stop_processing_, round, client>>
    BY <1>1 DEF Enter
  <2>2. CASE UNCHANGED <<queue_, done_>> /\ Set(w, Gone)
    <3>1. Evaluating' = Evaluating
      BY <1>1, <2>2 DEF Enter, Evaluating, Gone, Set, TypeOK
    <3> QED
      BY <2>1, <2>2, <3>1 DEF AllTried
  <2>3. CASE queue_ # <<>> /\ Take(w)
    BY <2>1, <2>3 DEF Take, AllTried
  <2>4. CASE /\ ~stop_processing_ /\ queue_ = <<>> /\ UNCHANGED queue_
             /\ EmptyQueue(empty_queue_threads_')
             /\ Set(w, [pc |-> "tested", plan |-> NoPlan, stage |-> 0, inc_queue |-> TRUE])
    <3>1. Evaluating' = Evaluating
      BY <1>1, <2>4 DEF Enter, Evaluating, Set, TypeOK
    <3>2. CASE done_' = done_
      BY <2>1, <2>4, <3>1, <3>2 DEF AllTried
    <3>3. CASE done_' # done_ /\ round = 1
      <4>1. pushed_all_poses_ /\ empty_queue_threads_' = Cardinality(Workers)
        BY <2>4, <3>3 DEF EmptyQueue, TypeOK
      <4>2. unpushed' = {} /\ dropped' = {}
        BY <2>1, <2>4, <3>3, <4>1 DEF ClientInv
      <4>3. AllTried'
        BY <2>1, <2>4, <4>1, <4>2, EmptyLemma
      <4> QED
        BY <2>1, <4>2, <4>3
    <3> QED
      BY <2>1, <3>2, <3>3
  <2> QED
    BY <1>1, <2>2, <2>3, <2>4 DEF Enter
<1>2. ASSUME NEW w \in Workers, WaitForPlan(w) PROVE RoundInv'
  <2>1. Evaluating' = Evaluating
    BY <1>2 DEF WaitForPlan, Evaluating, Set, TypeOK
  <2> QED
    BY <1>2, <2>1 DEF WaitForPlan, AllTried, pipeline
<1>3. ASSUME NEW w \in Workers, Again(w) PROVE RoundInv'
  <2>1. UNCHANGED <<success_, dropped, unpushed, stop_processing_, round, client>>
    BY <1>3 DEF Again
  <2>2. CASE queue_ # <<>> /\ Take(w)
    BY <2>1, <2>2 DEF Take, AllTried
  <2>3. CASE UNCHANGED <<queue_, done_>>
    <3>1. Evaluating' \subseteq Evaluating
      <4>1. CASE queue_ # <<>> /\ Take(w)
        BY <2>3, <4>1, HeadTailProperties DEF Take, TypeOK
      <4>2. CASE Set(w, [workers[w] EXCEPT !.pc = "top", !.inc_queue = FALSE])
        BY <1>3, <4>2 DEF Again, Evaluating, Set, TypeOK
      <4>3. CASE Set(w, [workers[w] EXCEPT !.pc = "tested"])
        BY <1>3, <4>3 DEF Again, Evaluating, Set, TypeOK
      <4> QED
        BY <1>3, <4>1, <4>2, <4>3 DEF Again
    <3> QED
      BY <2>1, <2>3, <3>1 DEF AllTried
  <2> QED
    BY <1>3, <2>2, <2>3 DEF Again
<1>4. ASSUME NEW w \in Workers, EndStage(w) PROVE RoundInv'
  <2>1. w \in Evaluating /\ client # "start" /\ success_ \subseteq success_'
    BY <1>4 DEF EndStage, Evaluating, WorkersInv
  <2>2. UNCHANGED <<stop_processing_, round, client, done_>>
    BY <1>4 DEF EndStage
  <2>3. stop_processing_ \/ dropped' = dropped
    BY <1>4 DEF EndStage
  <2> QED
    BY <2>1, <2>2, <2>3 DEF AllTried
<1>11. ASSUME NEW w \in Workers, SucceedFailed(w) PROVE RoundInv'
  <2>1. client # "start" /\ success_' # {}
    BY <1>11 DEF SucceedFailed, WorkersInv
  <2> QED
    BY <1>11, <2>1 DEF SucceedFailed
<1>5. ASSUME NEW w \in Workers, SignalSolved(w) \/ FoundSolution(w) PROVE RoundInv'
  <2>1. workers[w].pc \in {"solved", "found"} /\ success_ # {} /\ success_' = success_
    BY <1>5 DEF SignalSolved, FoundSolution, WorkersInv, pipeline
  <2>2. client # "start" /\ client' = client /\ round' = round /\ dropped' = dropped
    BY <1>5, <2>1 DEF SignalSolved, FoundSolution, WorkersInv, pipeline
  <2>3. stop_processing_' \/ stop_processing_' = stop_processing_
    BY <1>5 DEF SignalSolved, SignalStop, FoundSolution
  <2> QED
    BY <2>1, <2>2, <2>3
<1>6. CASE StartPipeline
  BY <1>6 DEF StartPipeline, ClientInv, pipeline
<1>7. CASE Push \/ Reprocess
  BY <1>7 DEF Push, Reprocess, ClientInv, AllTried
<1>8. CASE EnterWait \/ EndWait \/ Stop \/ Judge \/ TimeOut \/ UNCHANGED vars
  <2>1. UNCHANGED <<pipeline, done_, unpushed>>
    BY <1>8 DEF EnterWait, EndWait, Stop, Judge, TimeOut, vars
  <2>2. /\ client' = "start" => client = "start"
        /\ round' = 1 => round = 1
        /\ stop_processing_' \/ stop_processing_' = stop_processing_
    BY <1>8 DEF EnterWait, EndWait, Stop, SignalStop, Judge, TimeOut, vars
  <2>3. Evaluating' = Evaluating
    <3>1. CASE Stop
      BY <3>1 DEF Stop, SignalStop, Notified, Evaluating, TypeOK
    <3>2. CASE UNCHANGED workers
      BY <3>2 DEF Evaluating
    <3> QED
      BY <1>8, <3>1, <3>2 DEF EnterWait, EndWait, Judge, TimeOut, vars
  <2> QED
    BY <2>1, <2>2, <2>3 DEF AllTried, pipeline
<1> QED
  BY <1>1, <1>2, <1>3, <1>4, <1>5, <1>6, <1>7, <1>8, <1>11 DEF Next, Worker, Client

\* What is judged at the end of the first round.
LEMMA FailureStep ==
  ASSUME IInv, [Next]_vars
  PROVE  FailureMeansAllTried'
<1> USE DEF IInv, FailureMeansAllTried
<1>1. CASE client = "retry"
  <2>1. client' # "retry" \/ UNCHANGED <<pipeline, client, timedOut>>
    <3>1. \A w \in Workers : ~Worker(w)
      BY <1>1 DEF WorkersInv, Worker, Enter, WaitForPlan, Again, EndStage, SucceedFailed,
                  SignalSolved, FoundSolution
    <3> QED
      BY <1>1, <3>1 DEF Next, Client, StartPipeline, Push, Reprocess, EnterWait, EndWait, Stop,
                        Judge, TimeOut, vars
  <2> QED
    BY <1>1, <2>1 DEF pipeline
<1>2. CASE client # "retry" /\ client' = "retry" /\ ~timedOut'
  <2>1. Judge
    <3>1. ASSUME NEW w \in Workers, Worker(w) PROVE client' = client
      BY <3>1 DEF Worker, Enter, WaitForPlan, Again, EndStage, SucceedFailed, SignalSolved,
                  FoundSolution
    <3> QED
      BY <1>2, <3>1 DEF Next, Client, StartPipeline, Push, Reprocess, EnterWait, EndWait, Stop,
                        TimeOut, vars
  <2>2. /\ client = "join" /\ round = 1 /\ success_ = {} /\ ~timedOut
        /\ failed_' = failed_ /\ aborted' = aborted
    BY <1>2, <2>1 DEF Judge, pipeline
  <2>3. AllTried
    BY <2>2 DEF ClientInv, RoundInv
  <2>4. \A p \in Fields \ {"failed", "aborted"} : Places[p] = {}
    BY <2>2, <2>3, PlacesLemma, EmptySeq DEF AllTried, Fields, Range, Solutions
  <2>5. Plans = Places["failed"] \cup Places["aborted"]
    <3>1. Plans \subseteq Places["failed"] \cup Places["aborted"]
      BY <2>4, PlacesLemma DEF PlanIsInOnePlace, InOnePlace
    <3>2. Places["failed"] \subseteq Plans /\ Places["aborted"] \subseteq Plans
      BY PlacesLemma, RangeOfSeq DEF TypeOK
    <3> QED
      BY <3>1, <3>2
  <2> QED
    BY <2>2, <2>5, PlacesLemma
<1> QED
  BY <1>1, <1>2

-----------------------------------------------------------------------------
(* The theorems.                                                           *)

\* The initial states satisfy the invariant.
LEMMA InitLemma == Init => IInv
<1> SUFFICES ASSUME Init PROVE IInv
  OBVIOUS
<1> USE DEF Init
<1>1. TypeOK
  <2>1. 0 \in 0 .. LastStage /\ NoPlan \notin Plans
    BY ManipulationPipelineAssumption
  <2>2. workers \in [Workers -> Records] /\ \A w \in Workers : workers[w] = Gone
    BY <2>1 DEF Records, Gone
  <2>3. WorkersOK
    BY <2>1, <2>2 DEF WorkersOK, Gone, Holding
  <2>4. ValuesOK
    BY EmptySeq DEF ValuesOK
  <2> QED
    BY <2>3, <2>4, TypesLemma
<1>2. PlanIsInOnePlace
  <2>1. Evaluating = {}
    BY DEF Evaluating, Gone
  <2>2. Places["unpushed"] = Plans /\ \A p \in Fields \ {"unpushed"} : Places[p] = {}
    BY <2>1, PlacesLemma DEF Fields, Range, Solutions
  <2> QED
    BY <2>1, <2>2, PlacesLemma DEF PlanIsInOnePlace, InOnePlace, IsInjective, Fields
<1>3. WorkersInv /\ ClientInv /\ RoundInv /\ FailureMeansAllTried
  BY DEF WorkersInv, ClientInv, RoundInv, FailureMeansAllTried, Gone
<1> QED
  BY <1>1, <1>2, <1>3 DEF IInv

\* The invariant holds.
LEMMA Invariance == Spec => []IInv
<1>1. ASSUME IInv, [Next]_vars PROVE IInv'
  <2>1. PlanIsInOnePlace'
    BY <1>1, PlacesStep DEF IInv
  <2>2. WorkersOK' /\ ValuesOK' /\ TypeOK'
    <3>1. WorkersOK' /\ ValuesOK'
      BY <1>1, TypesLemma, WorkersStep, ValuesStep DEF IInv
    <3> QED
      BY <3>1, TypesLemma, PTL
  <2>3. WorkersInv' /\ ClientInv'
    BY <1>1, WorkersInvStep, ClientInvStep DEF IInv
  <2>4. RoundInv'
    BY <1>1, <2>2, <2>3, RoundInvStep
  <2>5. FailureMeansAllTried'
    BY <1>1, FailureStep
  <2> QED
    BY <2>1, <2>2, <2>3, <2>4, <2>5 DEF IInv
<1> QED
  BY <1>1, InitLemma, PTL DEF Spec

\* Types are kept, and empty_queue_threads_ is the number of workers that found the
\* queue empty and have no plan since, until a stop.
THEOREM TypeCorrect == Spec => []TypeOK
<1>1. IInv => TypeOK
  BY DEF IInv
<1> QED
  BY <1>1, Invariance, PTL

\* ManipulationPipeline loses no candidate, no two of its threads evaluate the same
\* one, and none has two verdicts but one that its last stage failed with the code
\* SUCCESS.
THEOREM OnePlaceTheorem == Spec => []PlanIsInOnePlace
<1>1. IInv => PlanIsInOnePlace
  BY DEF IInv
<1> QED
  BY <1>1, Invariance, PTL

\* When plan() reports PLANNING_FAILED before its time is over, every candidate was
\* evaluated to a failure or threw.
THEOREM AllTriedTheorem == Spec => []FailureMeansAllTried
<1>1. IInv => FailureMeansAllTried
  BY DEF IInv
<1> QED
  BY <1>1, Invariance, PTL
================================================================================
