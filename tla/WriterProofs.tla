---------------------------- MODULE WriterProofs ----------------------------
(***************************************************************************)
(* Proofs about WriterActor for any set of calls and any queue size.       *)
(***************************************************************************)
EXTENDS WriterInvariant, TLAPS

\* What Append does to a sequence, index by index.
LEMMA AppendFacts ==
    ASSUME NEW S, NEW q \in Seq(S), NEW e \in S
    PROVE  /\ Append(q, e) \in Seq(S)
           /\ Len(q) \in Nat
           /\ Len(Append(q, e)) = Len(q) + 1
           /\ \A i \in 1..Len(q) : Append(q, e)[i] = q[i]
           /\ Append(q, e)[Len(q) + 1] = e
  OBVIOUS

\* A range that starts one later.
LEMMA RangeFact ==
    ASSUME NEW m \in Nat, NEW n \in Nat
    PROVE  \A a \in (m + 1)..n : a \in m..n
  OBVIOUS

\* Queueing a message m that was never queued before keeps the parts of the
\* invariant that speak of the queue and of what has run.
LEMMA EnqueueInv ==
    ASSUME NEW m \in Messages,
           queue \in Seq(Messages), accepted \in Seq(Messages), connected, handles,
           QueueInv, LoopInv, Fifo,
           m \in Jobs => ran[m] = <<>>,
           queue' = Append(queue, m), accepted' = Append(accepted, m),
           UNCHANGED <<connected, handles, loop, current, ran>>
    PROVE  QueueInv' /\ LoopInv' /\ Fifo'
<1> DEFINE N == Len(accepted)
<1> DEFINE Q == Len(queue)
<1>1. /\ N \in Nat /\ Q \in Nat
      /\ Len(accepted') = N + 1 /\ Len(queue') = Q + 1
      /\ \A a \in 1..N : accepted'[a] = accepted[a]
      /\ accepted'[N + 1] = m
      /\ \A i \in 1..Q : queue'[i] = queue[i]
      /\ queue'[Q + 1] = m
  BY AppendFacts
<1>2. Q <= N /\ \A i \in 1..Q : queue[i] = accepted[N - Q + i]
  BY DEF QueueInv, Taken
<1>3. Taken = N - Q /\ Taken' = N - Q
  BY <1>1 DEF Taken
<1> HIDE DEF N, Q
<1>4. \A i \in 1..(Q + 1) : queue'[i] = accepted'[N - Q + i]
  <2> SUFFICES ASSUME NEW i \in 1..(Q + 1) PROVE queue'[i] = accepted'[N - Q + i]
    OBVIOUS
  <2>1. CASE i = Q + 1
    <3>1. N - Q + i = N + 1
      BY <1>1, <2>1
    <3> QED
      BY <1>1, <2>1, <3>1
  <2>2. CASE i # Q + 1
    <3>1. i \in 1..Q /\ N - Q + i \in 1..N
      BY <1>1, <1>2, <2>2
    <3> QED
      BY <1>1, <1>2, <3>1
  <2> QED
    BY <2>1, <2>2
<1>5. QueueInv'
  <2>1. Len(queue') <= Len(accepted')
    BY <1>1, <1>2
  <2>2. \A i \in 1..Len(queue') : queue'[i] = accepted'[Taken' + i]
    BY <1>1, <1>3, <1>4
  <2> QED
    BY <2>1, <2>2 DEF QueueInv
<1>6. \A n \in 0..N : RanUpTo(n) => RanUpTo(n)'
  BY <1>1 DEF RanUpTo, HasRun
<1>7. \A a \in (N - Q + 1)..(N + 1) : accepted'[a] \in Jobs => ran[accepted'[a]] = <<>>
  <2> SUFFICES ASSUME NEW a \in (N - Q + 1)..(N + 1), accepted'[a] \in Jobs
               PROVE  ran[accepted'[a]] = <<>>
    OBVIOUS
  <2>1. CASE a = N + 1
    BY <1>1, <2>1
  <2>2. CASE a # N + 1
    <3>1. a \in 1..N /\ a \in (N - Q + 1)..N
      BY <1>1, <1>2, <2>2
    <3> QED
      BY <1>1, <1>3, <3>1 DEF LoopInv, HasRun, N
  <2> QED
    BY <2>1, <2>2
<1>8. loop = "run" => N - Q >= 1 /\ current = accepted'[N - Q] /\ ran[accepted'[N - Q]] = <<>>
  BY <1>1, <1>2, <1>3 DEF LoopInv, HasRun
<1>9. loop = "ending" => N - Q >= 1 /\ accepted'[N - Q] \in Shutdowns
  BY <1>1, <1>2, <1>3 DEF LoopInv
<1>10. /\ loop \in {"recv", "inner", "outerOk", "outerPanic"} => RanUpTo(N - Q)
       /\ loop \in {"run", "ending"} => RanUpTo(N - Q - 1)
  BY <1>3 DEF LoopInv
<1>11. /\ loop \in {"recv", "inner", "outerOk", "outerPanic"} => RanUpTo(Taken)'
       /\ loop \in {"run", "ending"} => RanUpTo(Taken - 1)'
  <2>1. /\ loop \in {"recv", "inner", "outerOk", "outerPanic"} =>
              \A a \in 1..(N - Q) : accepted'[a] \in Jobs /\ ran[accepted'[a]] # <<>>
        /\ loop \in {"run", "ending"} =>
              \A a \in 1..(N - Q - 1) : accepted'[a] \in Jobs /\ ran[accepted'[a]] # <<>>
    BY <1>1, <1>2, <1>10 DEF RanUpTo, HasRun
  <2> QED
    BY <1>3, <2>1 DEF RanUpTo, HasRun
<1>12. LoopInv'
  BY <1>1, <1>3, <1>7, <1>8, <1>9, <1>11 DEF LoopInv, HasRun
<1>13. Fifo'
  <2> SUFFICES ASSUME NEW a \in 1..(N + 1), NEW b \in 1..(N + 1), b < a,
                      accepted'[a] \in Jobs, ran[accepted'[a]] # <<>>
               PROVE  accepted'[b] \in Jobs /\ ran[accepted'[b]] # <<>>
    BY <1>1 DEF Fifo, HasRun
  <2>1. a \in 1..N /\ b \in 1..N
    BY <1>1, SMTT(30)
  <2> QED
    BY <1>1, <2>1 DEF Fifo, HasRun, N
<1> QED
  BY <1>5, <1>12, <1>13

\* What Tail does to a non-empty sequence, index by index.
LEMMA TailFacts ==
    ASSUME NEW S, NEW q \in Seq(S), q # <<>>
    PROVE  /\ Tail(q) \in Seq(S)
           /\ Len(q) \in Nat /\ Len(q) >= 1
           /\ Len(Tail(q)) = Len(q) - 1
           /\ \A i \in 1..(Len(q) - 1) : Tail(q)[i] = q[i + 1]
           /\ Head(q) = q[1]
  OBVIOUS

\* Taking the next message keeps the queue the untaken tail of what was
\* accepted, and the message is the first one that has not run.
LEMMA DequeueInv ==
    ASSUME queue \in Seq(Messages), accepted \in Seq(Messages), queue # <<>>,
           QueueInv, LoopInv, loop = "recv", loop' \in {"run", "ending"},
           queue' = Tail(queue), UNCHANGED <<connected, accepted, ran>>
    PROVE  /\ QueueInv'
           /\ connected
           /\ Taken' \in Nat /\ Taken' >= 1 /\ accepted'[Taken'] = Head(queue)
           /\ RanUpTo(Taken - 1)'
           /\ \A a \in Taken'..Len(accepted') : accepted[a] \in Jobs => ran[accepted[a]] = <<>>
<1> DEFINE N == Len(accepted)
<1> DEFINE Q == Len(queue)
<1>1. /\ N \in Nat /\ Q \in Nat /\ Q >= 1
      /\ Len(queue') = Q - 1
      /\ \A i \in 1..(Q - 1) : queue'[i] = queue[i + 1]
      /\ Head(queue) = queue[1]
  BY TailFacts
<1>2. connected /\ connected'
  BY DEF QueueInv
<1>3. Q <= N /\ \A i \in 1..Q : queue[i] = accepted[N - Q + i]
  BY <1>2 DEF QueueInv, Taken
<1>4. Taken = N - Q /\ Taken' = N - Q + 1
  BY <1>1 DEF Taken
<1>5. /\ RanUpTo(N - Q)
      /\ \A a \in (N - Q + 1)..N : accepted[a] \in Jobs => ran[accepted[a]] = <<>>
  BY <1>2, <1>4 DEF LoopInv, HasRun
<1> HIDE DEF N, Q
<1>6. \A i \in 1..(Q - 1) : queue'[i] = accepted[N - Q + 1 + i]
  <2> SUFFICES ASSUME NEW i \in 1..(Q - 1) PROVE queue'[i] = accepted[N - Q + 1 + i]
    OBVIOUS
  <2>1. i + 1 \in 1..Q /\ N - Q + (i + 1) = N - Q + 1 + i
    BY <1>1, <1>3
  <2>2. queue'[i] = queue[i + 1] /\ queue[i + 1] = accepted[N - Q + (i + 1)]
    BY <1>1, <1>3, <2>1
  <2> QED
    BY <2>1, <2>2
<1>7. QueueInv'
  <2>1. Len(queue') <= Len(accepted')
    BY <1>1, <1>3 DEF N
  <2>2. \A i \in 1..Len(queue') : queue'[i] = accepted'[Taken' + i]
    BY <1>1, <1>4, <1>6
  <2> QED
    BY <1>2, <2>1, <2>2 DEF QueueInv
<1>8. Taken' \in Nat /\ Taken' >= 1 /\ accepted'[Taken'] = Head(queue)
  BY <1>1, <1>3, <1>4
<1>9. RanUpTo(Taken - 1)'
  <2>1. Taken' - 1 = N - Q
    BY <1>1, <1>4
  <2> QED
    BY <1>5, <2>1 DEF RanUpTo, HasRun
<1> QED
  BY <1>2, <1>4, <1>5, <1>7, <1>8, <1>9 DEF N

\* A one-element sequence of results holds a result.
LEMMA SingletonFacts ==
    ASSUME NEW r, <<r>> \in Seq(Results)
    PROVE  r \in Results
  <1>1. Len(<<r>>) = 1 /\ <<r>>[1] = r
    OBVIOUS
  <1> QED
    BY <1>1

\* AcceptedInv depends on a call only through Past.
LEMMA AcceptedFrame ==
    ASSUME AcceptedInv, TypeOK, accepted' = accepted, shutting' = shutting,
           \A k \in Jobs : Past(k)' <=> Past(k)
    PROVE  AcceptedInv'
  BY DEF AcceptedInv

\* One-element sequences.
LEMMA NonEmpty == \A r : <<r>> # <<>> /\ Len(<<r>>) = 1 /\ <<r>>[1] = r /\ Append(<<>>, r) = <<r>>
  OBVIOUS

\* Between running a job and receiving the next message its closure has run.
LEMMA AfterRun ==
    ASSUME LoopInv, NEW j \in Jobs, current = j, loop \in {"inner", "outerOk", "outerPanic"}
    PROVE  HasRun(j)
  <1>1. ran[j] = <<"ok">> \/ ran[j] = <<"jobErr">> \/ ran[j] = <<"panicErr">>
    BY DEF LoopInv
  <1> QED
    BY <1>1, NonEmpty DEF HasRun

\* A call that has not queued its message has none in the queue or running.
LEMMA NotQueued ==
    ASSUME TypeOK, AcceptedInv, QueueInv, LoopInv, ReplyInv, NEW j \in Jobs, ~Past(j)
    PROVE  SendersGone(j) /\ ~HasRun(j)
<1>1. ~HasRun(j) /\ \A a \in 1..Len(accepted) : accepted[a] # j
  BY DEF ReplyInv, AcceptedInv
<1>2. Len(accepted) \in Nat /\ Len(queue) \in Nat /\ Taken \in 0..Len(accepted)
  BY DEF TypeOK, QueueInv, Taken
<1>3. \A i \in 1..Len(queue) : queue[i] # j
  <2>1. CASE ~connected
    BY <2>1 DEF QueueInv
  <2>2. CASE connected
    <3> SUFFICES ASSUME NEW i \in 1..Len(queue) PROVE queue[i] # j
      OBVIOUS
    <3>1. queue[i] = accepted[Taken + i] /\ Taken + i \in 1..Len(accepted)
      BY <1>2, <2>2 DEF QueueInv, Taken
    <3> QED
      BY <1>1, <3>1
  <2> QED
    BY <2>1, <2>2
<1>4. current # j
  <2> SUFFICES ASSUME current = j PROVE FALSE
    OBVIOUS
  <2>1. loop \in {"run", "inner", "outerOk", "outerPanic"}
    BY WriterAssumption DEF LoopInv, TypeOK
  <2>2. loop # "run"
    BY <1>1, <1>2 DEF LoopInv
  <2> QED
    BY <1>1, <2>1, <2>2, AfterRun
<1> QED
  BY <1>1, <1>3, <1>4 DEF SendersGone

\* Queueing the message of a call for the first time.
LEMMA AcceptedEnqueue ==
    ASSUME TypeOK, AcceptedInv, NEW j \in Jobs, callers[j] = "sending",
           callers' = [callers EXCEPT ![j] = "waiting"], shutting' = shutting,
           accepted' = Append(accepted, j)
    PROVE  AcceptedInv'
<1> DEFINE N == Len(accepted)
<1>1. /\ N \in Nat /\ Len(accepted') = N + 1
      /\ \A a \in 1..N : accepted'[a] = accepted[a]
      /\ accepted'[N + 1] = j
  BY AppendFacts DEF TypeOK, Messages
<1>2. \A a \in 1..N : accepted[a] # j
  BY DEF AcceptedInv, Past, Results
<1>3. Past(j)' /\ \A k \in Jobs : k # j => (Past(k)' <=> Past(k))
  BY DEF Past, TypeOK
<1>4. j \notin Shutdowns
  BY WriterAssumption
<1>5. \A a, b \in 1..N : accepted[a] = accepted[b] => a = b
  BY DEF AcceptedInv
<1>6. \A a \in 1..N : /\ accepted[a] \in Jobs => Past(accepted[a])
                      /\ accepted[a] \in Shutdowns => shutting[accepted[a]] = "done"
  BY DEF AcceptedInv
<1>7. \A k \in Jobs : Past(k) => \E a \in 1..N : accepted[a] = k
  BY DEF AcceptedInv
<1> HIDE DEF N
<1>8. \A a, b \in 1..(N + 1) : accepted'[a] = accepted'[b] => a = b
  <2> SUFFICES ASSUME NEW a \in 1..(N + 1), NEW b \in 1..(N + 1),
                      accepted'[a] = accepted'[b]
               PROVE  a = b
    OBVIOUS
  <2>1. (a \in 1..N \/ a = N + 1) /\ (b \in 1..N \/ b = N + 1)
    BY <1>1
  <2> QED
    BY <1>1, <1>2, <1>5, <2>1
<1>9. ASSUME NEW a \in 1..(N + 1)
      PROVE  /\ accepted'[a] \in Jobs => (Past(accepted[a]))'
             /\ accepted'[a] \in Shutdowns => shutting'[accepted'[a]] = "done"
  <2>1. CASE a = N + 1
    BY <1>1, <1>3, <1>4, <2>1 DEF Past
  <2>2. CASE a \in 1..N
    <3>1. accepted'[a] = accepted[a] /\ accepted[a] # j
      BY <1>1, <1>2, <2>2
    <3>2. accepted[a] \in Jobs => callers'[accepted[a]] = callers[accepted[a]]
      BY <3>1 DEF TypeOK
    <3> QED
      BY <1>6, <2>2, <3>1, <3>2 DEF Past
  <2> QED
    BY <1>1, <2>1, <2>2
<1>10. ASSUME NEW k \in Jobs, Past(k)' PROVE \E a \in 1..(N + 1) : accepted'[a] = k
  <2>1. CASE k = j
    BY <1>1, <2>1
  <2>2. CASE k # j
    <3>1. PICK a \in 1..N : accepted[a] = k
      BY <1>3, <1>7, <1>10, <2>2
    <3> QED
      BY <1>1, <3>1
  <2> QED
    BY <2>1, <2>2
<1> QED
  BY <1>1, <1>8, <1>9, <1>10 DEF AcceptedInv

\* Running the job taken last: it had not run before, and afterwards everything
\* taken so far has run, each job once.
LEMMA RunInv ==
    ASSUME IInv, NEW j \in Jobs, NEW r \in Results, RunJob(j, r)
    PROVE  /\ ran[j] = <<>> /\ ran' = [ran EXCEPT ![j] = <<r>>]
           /\ AtMostOnce' /\ LoopInv' /\ AnswersAreTrue' /\ HealthInv' /\ Fifo'
<1>0. /\ ran \in [Jobs -> Seq(Results)] /\ accepted \in Seq(Messages) /\ queue \in Seq(Messages)
      /\ AtMostOnce /\ AcceptedInv /\ QueueInv /\ LoopInv /\ ReplyInv /\ AnswersAreTrue
      /\ HealthInv /\ Fifo
  BY DEF IInv, TypeOK
<1>1. /\ accepted' = accepted /\ queue' = queue /\ connected' = connected
      /\ callers' = callers /\ current' = current /\ handles' = handles
      /\ loop = "run" /\ current = j /\ connected /\ Taken' = Taken
  BY <1>0 DEF RunJob, callerVars, QueueInv, Taken
<1>2. Taken >= 1 /\ accepted[Taken] = j /\ ran[j] = <<>> /\ RanUpTo(Taken - 1)
  BY <1>0, <1>1 DEF LoopInv, HasRun
<1>3. ran' = [ran EXCEPT ![j] = <<r>>]
  BY <1>2, NonEmpty DEF RunJob
<1>4. ran'[j] = <<r>> /\ \A k \in Jobs : k # j => ran'[k] = ran[k]
  BY <1>0, <1>3
<1>5. Len(accepted) \in Nat /\ Len(queue) \in Nat /\ Taken \in 1..Len(accepted)
  BY <1>0, <1>2 DEF QueueInv, Taken
<1>6. AtMostOnce'
  <2>1. Len(ran'[j]) <= 1
    <3>1. Len(ran'[j]) = 1
      BY <1>4, NonEmpty
    <3> QED
      BY <3>1
  <2>2. \A k \in Jobs : k # j => Len(ran'[k]) <= 1
    BY <1>0, <1>4 DEF AtMostOnce
  <2> QED
    BY <2>1, <2>2 DEF AtMostOnce
<1>7. AnswersAreTrue'
  <2>1. callers[j] \notin Results
    BY <1>0, <1>2, NonEmpty, ZenonT(30) DEF AnswersAreTrue
  <2> QED
    BY <1>0, <1>1, <1>4, <2>1 DEF AnswersAreTrue
<1>8. HealthInv'
  <2>1. healthy' => healthy /\ r # "panicErr"
    BY DEF RunJob, HealthAfter
  <2>2. r # "panicErr" => <<r>> # <<"panicErr">>
    OBVIOUS
  <2> QED
    BY <1>0, <1>4, <2>1, <2>2 DEF HealthInv
<1>9. \A a \in 1..Taken : accepted[a] \in Jobs /\ ran'[accepted[a]] # <<>>
  <2> SUFFICES ASSUME NEW a \in 1..Taken
               PROVE  accepted[a] \in Jobs /\ ran'[accepted[a]] # <<>>
    OBVIOUS
  <2>1. CASE a = Taken
    BY <1>2, <1>4, <2>1, NonEmpty
  <2>2. CASE a # Taken
    <3>1. a \in 1..(Taken - 1)
      BY <1>5, <2>2
    <3>2. accepted[a] \in Jobs /\ ran[accepted[a]] # <<>>
      BY <1>2, <3>1 DEF RanUpTo, HasRun
    <3> QED
      BY <1>2, <1>4, <3>2
  <2> QED
    BY <2>1, <2>2
<1>10. \A a \in 1..Len(accepted) : accepted[a] = j => a = Taken
  BY <1>0, <1>2, <1>5 DEF AcceptedInv
<1>11. \A a \in (Taken + 1)..Len(accepted) : accepted[a] \in Jobs => ran'[accepted[a]] = <<>>
  <2> SUFFICES ASSUME NEW a \in (Taken + 1)..Len(accepted), accepted[a] \in Jobs
               PROVE  ran'[accepted[a]] = <<>>
    OBVIOUS
  <2>1. accepted[a] # j
    BY <1>5, <1>10
  <2>2. ran[accepted[a]] = <<>>
    BY <1>0, <1>1 DEF LoopInv, HasRun
  <2> QED
    BY <1>4, <2>1, <2>2
<1>12. LoopInv'
  <2>1. /\ r = "panicErr" => loop' = "outerPanic"
        /\ r # "panicErr" => loop' = "inner" /\ r \in {"ok", "jobErr"}
    BY DEF RunJob, Results
  <2>2. RanUpTo(Taken)'
    BY <1>1, <1>9 DEF RanUpTo, HasRun
  <2>3. j # NoJob
    BY WriterAssumption
  <2> QED
    BY <1>1, <1>4, <1>11, <2>1, <2>2, <2>3 DEF LoopInv, HasRun
<1>13. Fifo'
  <2> SUFFICES ASSUME NEW a \in 1..Len(accepted), NEW b \in 1..Len(accepted), b < a,
                      accepted[a] \in Jobs, ran'[accepted[a]] # <<>>
               PROVE  accepted[b] \in Jobs /\ ran'[accepted[b]] # <<>>
    BY <1>1 DEF Fifo, HasRun
  <2>1. a \in 1..Taken
    BY <1>5, <1>11
  <2> QED
    BY <1>5, <1>9, <2>1
<1> QED
  BY <1>2, <1>3, <1>6, <1>7, <1>8, <1>12, <1>13
\* The invariant is inductive: one lemma step per action of the specification,
\* one substep per part of the invariant the action can disturb.
LEMMA WriterStepInv == IInv /\ [Next]_vars => IInv'
<1> USE WriterAssumption DEF TypeOK, Messages, Results, Rejected, Outcomes, Active, NoReply
<1> SUFFICES ASSUME IInv, [Next]_vars PROVE IInv'
  OBVIOUS
<1>0. /\ TypeOK
      /\ AtMostOnce
      /\ HandlesInv
      /\ AcceptedInv
      /\ QueueInv
      /\ LoopInv
      /\ ReplyInv
      /\ AnswersAreTrue
      /\ HealthInv
      /\ Fifo
      /\ DrainedWhenStopped
  BY DEF IInv
<1>1. ASSUME NEW j \in Jobs, Write(j) PROVE IInv'
  <2>1. HandlesInv'
    BY <1>0, <1>1 DEF Write, writerVars, HandlesInv
  <2>2. AcceptedInv'
    BY <1>0, <1>1 DEF Write, writerVars, AcceptedInv, Past
  <2>3. ReplyInv'
    BY <1>0, <1>1 DEF Write, writerVars, ReplyInv, LoopInv, AcceptedInv,
       QueueInv, Taken, RanUpTo, HasRun, Past
  <2>4. TypeOK' /\ AtMostOnce' /\ QueueInv' /\ LoopInv' /\ AnswersAreTrue' /\
         HealthInv' /\ Fifo' /\ DrainedWhenStopped'
    BY <1>0, <1>1 DEF Write, writerVars, AtMostOnce, QueueInv, Taken, LoopInv,
       RanUpTo, HasRun, AnswersAreTrue, HealthInv, Fifo, DrainedWhenStopped
  <2> QED
    BY <2>1, <2>2, <2>3, <2>4 DEF IInv
<1>2. ASSUME NEW j \in Jobs, SendOk(j) PROVE IInv'
  <2>a. /\ j \in Messages /\ queue \in Seq(Messages) /\ accepted \in Seq(Messages)
        /\ connected /\ handles
        /\ queue' = Append(queue, j) /\ accepted' = Append(accepted, j)
        /\ UNCHANGED <<connected, handles, loop, current, ran>>
    BY <1>0, <1>2 DEF SendOk, writerVars, HandlesInv
  <2>b. j \in Jobs => ran[j] = <<>>
    BY <1>0, <1>2 DEF SendOk, ReplyInv, Past, HasRun
  <2>1. TypeOK'
    <3>1. /\ accepted' \in Seq(Messages) /\ queue' \in Seq(Messages)
          /\ Len(queue) \in Nat /\ Len(queue') = Len(queue) + 1
      BY <2>a, AppendFacts
    <3>2. Len(queue') <= QueueSize
      BY <1>2, <3>1 DEF SendOk, HasRoom
    <3> QED
      BY <1>0, <1>2, <3>1, <3>2 DEF SendOk, writerVars
  <2>2. HandlesInv'
    BY <1>0, <1>2 DEF SendOk, HasRoom, writerVars, HandlesInv
  <2>3. AcceptedInv'
    BY <1>0, <1>2, AcceptedEnqueue DEF SendOk
  <2>4. QueueInv' /\ LoopInv' /\ Fifo'
    BY <1>0, <2>a, <2>b, EnqueueInv
  <2>5. ReplyInv'
    <3>1. callers' = [callers EXCEPT ![j] = "waiting"] /\ reply' = reply /\ result' = result
      BY <1>2 DEF SendOk
    <3>2. reply[j] = NoReply /\ ran[j] = <<>>
      BY <1>0, <1>2, <2>b DEF ReplyInv, HasRun
    <3>3. loop \in {"inner", "outerOk"} => current # j
      BY <1>0, <3>2, AfterRun DEF HasRun
    <3>4. callers'[j] = "waiting" /\ \A k \in Jobs : k # j => callers'[k] = callers[k]
      BY <1>0, <3>1
    <3> QED
      BY <1>0, <2>a, <3>1, <3>2, <3>3, <3>4 DEF ReplyInv, HasRun, Past
  <2>6. DrainedWhenStopped'
    BY <1>0, <1>2 DEF SendOk, HasRoom, writerVars, DrainedWhenStopped, HasRun,
       QueueInv, LoopInv, RanUpTo, Taken
  <2>7. AtMostOnce' /\ AnswersAreTrue' /\ HealthInv'
    BY <1>0, <1>2 DEF SendOk, HasRoom, writerVars, AtMostOnce, AnswersAreTrue,
       HealthInv
  <2> QED
    BY <2>1, <2>2, <2>3, <2>4, <2>5, <2>6, <2>7 DEF IInv
<1>3. ASSUME NEW j \in Jobs, SendFails(j) PROVE IInv'
  <2>1. AcceptedInv'
    <3>1. accepted' = accepted /\ shutting' = shutting
      BY <1>3 DEF SendFails
    <3>2. \A k \in Jobs : Past(k)' <=> Past(k)
      BY <1>0, <1>3 DEF SendFails, SendError, Past
    <3> QED
      BY <1>0, <3>1, <3>2, AcceptedFrame
  <2>2. ReplyInv'
    BY <1>0, <1>3 DEF SendFails, SendError, HasRoom, writerVars, ReplyInv,
       LoopInv, AcceptedInv, QueueInv, Taken, RanUpTo, HasRun, Past
  <2>3. AnswersAreTrue'
    BY <1>0, <1>3 DEF SendFails, SendError, HasRoom, writerVars, AnswersAreTrue,
       ReplyInv, Past, HasRun
  <2>4. TypeOK' /\ AtMostOnce' /\ HandlesInv' /\ QueueInv' /\ LoopInv' /\
         HealthInv' /\ Fifo' /\ DrainedWhenStopped'
    BY <1>0, <1>3 DEF SendFails, SendError, HasRoom, writerVars, AtMostOnce,
       HandlesInv, QueueInv, Taken, LoopInv, RanUpTo, HasRun, HealthInv, Fifo,
       DrainedWhenStopped
  <2> QED
    BY <2>1, <2>2, <2>3, <2>4 DEF IInv
<1>4. ASSUME NEW j \in Jobs, RecvReply(j) PROVE IInv'
  <2>a. reply[j] = "ok" => result[j] \in {"ok", "jobErr"}
    <3>1. reply[j] = "ok" => ran[j] = <<result[j]>>
      BY <1>0, <1>4 DEF RecvReply, ReplyInv
    <3>2. reply[j] = "ok" => result[j] \in Results
      <4>1. ran[j] \in Seq(Results)
        BY <1>0
      <4> QED
        BY <3>1, <4>1, SingletonFacts
    <3> QED
      BY <1>0, <3>2
  <2>b. Returned(j) \in {"ok", "jobErr", "panicErr"}
    BY <1>0, <1>4, <2>a DEF RecvReply, Returned
  <2>1. TypeOK'
    BY <1>0, <1>4, <2>b DEF RecvReply, writerVars
  <2>2. AcceptedInv'
    <3>1. accepted' = accepted /\ shutting' = shutting
      BY <1>4 DEF RecvReply
    <3>2. \A k \in Jobs : Past(k)' <=> Past(k)
      BY <1>0, <1>4, <2>b DEF RecvReply, Past
    <3> QED
      BY <1>0, <3>1, <3>2, AcceptedFrame
  <2>3. ReplyInv'
    BY <1>0, <1>4, SMTT(30) DEF RecvReply, Returned, writerVars, ReplyInv, LoopInv,
       AcceptedInv, QueueInv, Taken, RanUpTo, HasRun, Past
  <2>4. AnswersAreTrue'
    BY <1>0, <1>4 DEF RecvReply, Returned, writerVars, AnswersAreTrue, ReplyInv,
       Past, HasRun
  <2>5. AtMostOnce' /\ HandlesInv' /\ QueueInv' /\ LoopInv' /\ HealthInv' /\ Fifo'
         /\ DrainedWhenStopped'
    BY <1>0, <1>4 DEF RecvReply, Returned, writerVars, AtMostOnce, HandlesInv,
       QueueInv, Taken, LoopInv, RanUpTo, HasRun, HealthInv, Fifo,
       DrainedWhenStopped
  <2> QED
    BY <2>1, <2>2, <2>3, <2>4, <2>5 DEF IInv
<1>5. ASSUME NEW j \in Jobs, RecvTimeout(j) PROVE IInv'
  <2>1. AcceptedInv'
    BY <1>0, <1>5 DEF RecvTimeout, writerVars, AcceptedInv, Past
  <2>2. ReplyInv'
    BY <1>0, <1>5 DEF RecvTimeout, writerVars, ReplyInv, LoopInv, AcceptedInv,
       QueueInv, Taken, RanUpTo, HasRun, Past
  <2>3. TypeOK' /\ AtMostOnce' /\ HandlesInv' /\ QueueInv' /\ LoopInv' /\
         AnswersAreTrue' /\ HealthInv' /\ Fifo' /\ DrainedWhenStopped'
    BY <1>0, <1>5 DEF RecvTimeout, writerVars, AtMostOnce, HandlesInv, QueueInv,
       Taken, LoopInv, RanUpTo, HasRun, AnswersAreTrue, HealthInv, Fifo,
       DrainedWhenStopped
  <2> QED
    BY <2>1, <2>2, <2>3 DEF IInv
<1>6. ASSUME NEW j \in Jobs, RecvDisconnected(j) PROVE IInv'
  <2>1. AcceptedInv'
    <3>1. accepted' = accepted /\ shutting' = shutting
      BY <1>6 DEF RecvDisconnected
    <3>2. \A k \in Jobs : Past(k)' <=> Past(k)
      BY <1>0, <1>6 DEF RecvDisconnected, Past
    <3> QED
      BY <1>0, <3>1, <3>2, AcceptedFrame
  <2>2. ReplyInv'
    <3>1. ~HasRun(j)
      BY <1>0, <1>6 DEF RecvDisconnected, SendersGone, ReplyInv
    <3>2. ~connected
      <4> SUFFICES ASSUME connected PROVE FALSE
        OBVIOUS
      <4>1. PICK a \in 1..Len(accepted) : accepted[a] = j
        BY <1>0, <1>6 DEF RecvDisconnected, AcceptedInv, Past
      <4>2. Len(accepted) \in Nat /\ Len(queue) \in Nat /\ Taken \in 0..Len(accepted)
        BY <1>0 DEF QueueInv, Taken
      <4>3. CASE a > Taken
        <5>1. a - Taken \in 1..Len(queue) /\ Taken + (a - Taken) = a
          BY <4>1, <4>2, <4>3 DEF Taken
        <5>2. queue[a - Taken] = j
          BY <1>0, <4>1, <5>1 DEF QueueInv
        <5> QED
          BY <1>6, <5>1, <5>2 DEF RecvDisconnected, SendersGone
      <4>4. CASE a <= Taken
        <5>0. a \in 1..(Taken - 1) \/ a = Taken
          BY <4>1, <4>2, <4>4
        <5>1. loop = "run" => a = Taken
          BY <1>0, <3>1, <4>1, <5>0 DEF LoopInv, RanUpTo
        <5>2. loop = "ending" => a = Taken /\ accepted[Taken] \in Shutdowns
          BY <1>0, <3>1, <4>1, <4>2, <4>4 DEF LoopInv, RanUpTo
        <5>3. loop \in {"run", "ending"}
          BY <1>0, <3>1, <4>1, <4>2, <4>4 DEF LoopInv, RanUpTo, QueueInv
        <5> QED
          BY <1>0, <1>6, <4>1, <5>1, <5>2, <5>3 DEF LoopInv, RecvDisconnected, SendersGone
      <4> QED
        BY <4>2, <4>3, <4>4
    <3> QED
      BY <1>0, <1>6, <3>1, <3>2 DEF RecvDisconnected, writerVars, ReplyInv, HasRun, Past
  <2>3. TypeOK' /\ AtMostOnce' /\ HandlesInv' /\ QueueInv' /\ LoopInv' /\
         AnswersAreTrue' /\ HealthInv' /\ Fifo' /\ DrainedWhenStopped'
    BY <1>0, <1>6 DEF RecvDisconnected, SendersGone, writerVars, AtMostOnce,
       HandlesInv, QueueInv, Taken, LoopInv, RanUpTo, HasRun, AnswersAreTrue,
       HealthInv, Fifo, DrainedWhenStopped
  <2> QED
    BY <2>1, <2>2, <2>3 DEF IInv
<1>7. ASSUME NEW s \in Shutdowns, Shutdown(s) PROVE IInv'
  <2>1. HandlesInv'
    BY <1>0, <1>7 DEF Shutdown, writerVars, HandlesInv
  <2>2. AcceptedInv'
    BY <1>0, <1>7 DEF Shutdown, writerVars, AcceptedInv, Past
  <2>3. TypeOK' /\ AtMostOnce' /\ QueueInv' /\ LoopInv' /\ ReplyInv' /\
         AnswersAreTrue' /\ HealthInv' /\ Fifo' /\ DrainedWhenStopped'
    BY <1>0, <1>7 DEF Shutdown, writerVars, AtMostOnce, QueueInv, Taken,
       LoopInv, RanUpTo, HasRun, ReplyInv, Past, AnswersAreTrue, HealthInv,
       Fifo, DrainedWhenStopped
  <2> QED
    BY <2>1, <2>2, <2>3 DEF IInv
<1>8. ASSUME NEW s \in Shutdowns, ShutdownSend(s) PROVE IInv'
  <2>a. /\ s \in Messages /\ queue \in Seq(Messages) /\ accepted \in Seq(Messages)
        /\ connected /\ handles
        /\ queue' = Append(queue, s) /\ accepted' = Append(accepted, s)
        /\ UNCHANGED <<connected, handles, loop, current, ran>>
    BY <1>0, <1>8 DEF ShutdownSend, writerVars, HandlesInv
  <2>b. s \in Jobs => ran[s] = <<>>
    BY <1>0, <1>8 DEF ShutdownSend, ReplyInv, Past, HasRun
  <2>1. TypeOK'
    <3>1. /\ accepted' \in Seq(Messages) /\ queue' \in Seq(Messages)
          /\ Len(queue) \in Nat /\ Len(queue') = Len(queue) + 1
      BY <2>a, AppendFacts
    <3>2. Len(queue') <= QueueSize
      BY <1>8, <3>1 DEF ShutdownSend, HasRoom
    <3> QED
      BY <1>0, <1>8, <3>1, <3>2 DEF ShutdownSend, writerVars
  <2>2. AcceptedInv'
    BY <1>0, <1>8 DEF ShutdownSend, HasRoom, writerVars, AcceptedInv, Past
  <2>3. QueueInv' /\ LoopInv' /\ Fifo'
    BY <1>0, <2>a, <2>b, EnqueueInv
  <2>4. DrainedWhenStopped'
    BY <1>0, <1>8 DEF ShutdownSend, HasRoom, writerVars, DrainedWhenStopped,
       HasRun, QueueInv, LoopInv, RanUpTo, Taken
  <2>5. AtMostOnce' /\ HandlesInv' /\ ReplyInv' /\ AnswersAreTrue' /\ HealthInv'
    BY <1>0, <1>8 DEF ShutdownSend, HasRoom, writerVars, AtMostOnce, HandlesInv,
       ReplyInv, HasRun, Past, AnswersAreTrue, HealthInv
  <2> QED
    BY <2>1, <2>2, <2>3, <2>4, <2>5 DEF IInv
<1>9. ASSUME NEW s \in Shutdowns, ShutdownIgnored(s) PROVE IInv'
  <2>1. AcceptedInv'
    BY <1>0, <1>9 DEF ShutdownIgnored, writerVars, AcceptedInv, Past
  <2>2. TypeOK' /\ AtMostOnce' /\ HandlesInv' /\ QueueInv' /\ LoopInv' /\
         ReplyInv' /\ AnswersAreTrue' /\ HealthInv' /\ Fifo' /\ DrainedWhenStopped'
    BY <1>0, <1>9 DEF ShutdownIgnored, writerVars, AtMostOnce, HandlesInv,
       QueueInv, Taken, LoopInv, RanUpTo, HasRun, ReplyInv, Past,
       AnswersAreTrue, HealthInv, Fifo, DrainedWhenStopped
  <2> QED
    BY <2>1, <2>2 DEF IInv
<1>10. ASSUME DropHandles PROVE IInv'
  <2>1. HandlesInv'
    BY <1>0, <1>10 DEF DropHandles, writerVars, HandlesInv
  <2>2. LoopInv'
    BY <1>0, <1>10 DEF DropHandles, writerVars, LoopInv, QueueInv, AcceptedInv,
       Taken, RanUpTo, HasRun
  <2>3. AcceptedInv'
    BY <1>0, <1>10 DEF DropHandles, writerVars, AcceptedInv, Past
  <2>4. QueueInv' /\ ReplyInv'
    BY <1>0, <1>10 DEF DropHandles, writerVars, QueueInv, Taken, ReplyInv,
       HasRun, Past
  <2>5. TypeOK' /\ AtMostOnce' /\ AnswersAreTrue' /\ HealthInv' /\ Fifo' /\
         DrainedWhenStopped'
    BY <1>0, <1>10, ZenonT(30) DEF DropHandles, writerVars, AtMostOnce, AnswersAreTrue,
       HealthInv, Fifo, HasRun, DrainedWhenStopped
  <2> QED
    BY <2>1, <2>2, <2>3, <2>4, <2>5 DEF IInv
<1>11. ASSUME RecvJob PROVE IInv'
  <2>a. /\ queue \in Seq(Messages) /\ accepted \in Seq(Messages) /\ queue # <<>>
        /\ loop = "recv" /\ loop' \in {"run", "ending"}
        /\ queue' = Tail(queue) /\ UNCHANGED <<connected, accepted, ran>>
    BY <1>0, <1>11 DEF RecvJob, callerVars
  <2>b. /\ QueueInv' /\ connected
        /\ Taken' \in Nat /\ Taken' >= 1 /\ accepted'[Taken'] = Head(queue)
        /\ RanUpTo(Taken - 1)'
        /\ \A a \in Taken'..Len(accepted') : accepted[a] \in Jobs => ran[accepted[a]] = <<>>
    BY <1>0, <2>a, DequeueInv
  <2>1. TypeOK'
    <3>1. /\ queue' \in Seq(Messages) /\ Len(queue) \in Nat
          /\ Len(queue') = Len(queue) - 1
      BY <2>a, TailFacts
    <3>2. Len(queue') <= QueueSize
      BY <1>0, <3>1
    <3> QED
      BY <1>0, <1>11, <3>1, <3>2 DEF RecvJob, NextMsg, callerVars
  <2>2. QueueInv'
    BY <2>b
  <2>3. LoopInv'
    <3>1. loop' = "run" /\ current' = Head(queue) /\ Head(queue) \in Jobs
      BY <1>11 DEF RecvJob, NextMsg
    <3>2. Taken' \in Taken'..Len(accepted')
      BY <1>0, <2>a, <2>b DEF QueueInv, Taken
    <3>3. ran[Head(queue)] = <<>> /\ Head(queue) # NoJob
      BY <2>a, <2>b, <3>1, <3>2
    <3>4. \A a \in (Taken' + 1)..Len(accepted') :
              accepted[a] \in Jobs => ran[accepted[a]] = <<>>
      <4>1. Len(accepted') \in Nat /\ Taken' \in Nat
        BY <2>a, <2>b
      <4>2. \A a \in (Taken' + 1)..Len(accepted') : a \in Taken'..Len(accepted')
        BY <4>1, RangeFact
      <4> QED
        BY <2>b, <4>2
    <3> QED
      BY <2>a, <2>b, <3>1, <3>3, <3>4 DEF LoopInv, HasRun
  <2>4. ReplyInv'
    BY <1>0, <1>11 DEF RecvJob, NextMsg, callerVars, ReplyInv, LoopInv,
       AcceptedInv, QueueInv, Taken, RanUpTo, HasRun, Past
  <2>5. AtMostOnce' /\ HandlesInv' /\ AcceptedInv' /\ AnswersAreTrue' /\
         HealthInv' /\ Fifo' /\ DrainedWhenStopped'
    BY <1>0, <1>11 DEF RecvJob, NextMsg, callerVars, AtMostOnce, HandlesInv,
       AcceptedInv, Past, AnswersAreTrue, HealthInv, Fifo, HasRun,
       DrainedWhenStopped
  <2> QED
    BY <2>1, <2>2, <2>3, <2>4, <2>5 DEF IInv
<1>12. ASSUME RecvShutdown PROVE IInv'
  <2>a. /\ queue \in Seq(Messages) /\ accepted \in Seq(Messages) /\ queue # <<>>
        /\ loop = "recv" /\ loop' \in {"run", "ending"}
        /\ queue' = Tail(queue) /\ UNCHANGED <<connected, accepted, ran>>
    BY <1>0, <1>12 DEF RecvShutdown, callerVars
  <2>b. /\ QueueInv' /\ connected
        /\ Taken' \in Nat /\ Taken' >= 1 /\ accepted'[Taken'] = Head(queue)
        /\ RanUpTo(Taken - 1)'
        /\ \A a \in Taken'..Len(accepted') : accepted[a] \in Jobs => ran[accepted[a]] = <<>>
    BY <1>0, <2>a, DequeueInv
  <2>1. TypeOK'
    <3>1. /\ queue' \in Seq(Messages) /\ Len(queue) \in Nat
          /\ Len(queue') = Len(queue) - 1
      BY <2>a, TailFacts
    <3>2. Len(queue') <= QueueSize
      BY <1>0, <3>1
    <3> QED
      BY <1>0, <1>12, <3>1, <3>2 DEF RecvShutdown, NextMsg, callerVars
  <2>2. QueueInv'
    BY <2>b
  <2>3. LoopInv'
    <3>1. loop' = "ending" /\ current' = NoJob /\ Head(queue) \in Shutdowns
      BY <1>0, <1>12 DEF RecvShutdown, NextMsg, LoopInv
    <3>2. \A a \in (Taken' + 1)..Len(accepted') :
              accepted[a] \in Jobs => ran[accepted[a]] = <<>>
      <4>1. Len(accepted') \in Nat /\ Taken' \in Nat
        BY <2>a, <2>b
      <4>2. \A a \in (Taken' + 1)..Len(accepted') : a \in Taken'..Len(accepted')
        BY <4>1, RangeFact
      <4> QED
        BY <2>b, <4>2
    <3> QED
      BY <2>a, <2>b, <3>1, <3>2 DEF LoopInv, HasRun
  <2>4. ReplyInv'
    BY <1>0, <1>12 DEF RecvShutdown, NextMsg, callerVars, ReplyInv, LoopInv,
       AcceptedInv, QueueInv, Taken, RanUpTo, HasRun, Past
  <2>5. AtMostOnce' /\ HandlesInv' /\ AcceptedInv' /\ AnswersAreTrue' /\
         HealthInv' /\ Fifo' /\ DrainedWhenStopped'
    BY <1>0, <1>12 DEF RecvShutdown, NextMsg, callerVars, AtMostOnce,
       HandlesInv, AcceptedInv, Past, AnswersAreTrue, HealthInv, Fifo, HasRun,
       DrainedWhenStopped
  <2> QED
    BY <2>1, <2>2, <2>3, <2>4, <2>5 DEF IInv
<1>13. ASSUME RecvClosed PROVE IInv'
  <2>1. QueueInv'
    BY <1>0, <1>13 DEF RecvClosed, AllSendersGone, callerVars, QueueInv, Taken
  <2>2. LoopInv'
    BY <1>0, <1>13 DEF RecvClosed, AllSendersGone, callerVars, LoopInv,
       QueueInv, AcceptedInv, Taken, RanUpTo, HasRun
  <2>3. ReplyInv'
    BY <1>0, <1>13 DEF RecvClosed, AllSendersGone, callerVars, ReplyInv,
       LoopInv, AcceptedInv, QueueInv, Taken, RanUpTo, HasRun, Past
  <2>4. TypeOK' /\ AtMostOnce' /\ HandlesInv' /\ AcceptedInv' /\ AnswersAreTrue'
         /\ HealthInv' /\ Fifo' /\ DrainedWhenStopped'
    BY <1>0, <1>13 DEF RecvClosed, AllSendersGone, callerVars, AtMostOnce,
       HandlesInv, AcceptedInv, Past, AnswersAreTrue, HealthInv, Fifo, HasRun,
       DrainedWhenStopped
  <2> QED
    BY <2>1, <2>2, <2>3, <2>4 DEF IInv
<1>14. ASSUME NEW j \in Jobs, NEW r \in Results, RunJob(j, r) PROVE IInv'
  <2>a. /\ ran[j] = <<>> /\ ran' = [ran EXCEPT ![j] = <<r>>]
        /\ AtMostOnce' /\ LoopInv' /\ AnswersAreTrue' /\ HealthInv' /\ Fifo'
    BY <1>14, RunInv
  <2>b. ran'[j] = <<r>> /\ <<r>> # <<>> /\ \A k \in Jobs : k # j => ran'[k] = ran[k]
    BY <1>0, <2>a, NonEmpty
  <2>c. /\ accepted' = accepted /\ connected' = connected /\ callers' = callers
        /\ reply' = reply /\ current' = current /\ connected /\ current = j
        /\ loop = "run"
    BY <1>0, <1>14 DEF RunJob, callerVars, QueueInv
  <2>1. TypeOK'
    BY <1>0, <1>14 DEF RunJob, HealthAfter, callerVars
  <2>2. QueueInv'
    BY <1>0, <1>14 DEF RunJob, HealthAfter, callerVars, QueueInv, Taken
  <2>3. ReplyInv'
    <3>1. reply[j] = NoReply /\ callers[j] # "dropped"
      BY <1>0, <2>a, <2>c DEF ReplyInv, HasRun
    <3>2. Past(j)
      <4>1. Taken \in 1..Len(accepted) /\ accepted[Taken] = j
        BY <1>0, <2>c DEF LoopInv, QueueInv, Taken
      <4> QED
        BY <1>0, <4>1 DEF AcceptedInv
    <3>3. /\ callers[j] = "waiting" /\ r # "panicErr" => result'[j] = r
          /\ \A k \in Jobs : k # j => result'[k] = result[k]
      BY <1>0, <1>14 DEF RunJob
    <3>4. loop' \in {"inner", "outerPanic"} /\ (loop' = "inner" => r # "panicErr")
      BY <1>14 DEF RunJob
    <3>5. \A k \in Jobs : Past(k)' <=> Past(k)
      BY <2>c DEF Past
    <3>6. \A k \in Jobs : HasRun(k)' <=> (HasRun(k) \/ k = j)
      BY <2>a, <2>b DEF HasRun
    <3>7. ASSUME NEW k \in Jobs, k # j
          PROVE  /\ HasRun(k) => Past(k)
                 /\ ~HasRun(k) => reply[k] = NoReply
                 /\ callers[k] = "waiting" =>
                     /\ reply[k] = "ok" => ran'[k] = <<result'[k]>>
                     /\ reply[k] = "panicErr" => ran'[k] = <<"panicErr">>
                     /\ HasRun(k) => reply[k] # NoReply
                 /\ callers[k] = "dropped" => ~connected /\ ~HasRun(k)
      BY <1>0, <2>b, <2>c, <3>3, <3>7 DEF ReplyInv
    <3> QED
      BY <2>b, <2>c, <3>1, <3>2, <3>3, <3>4, <3>5, <3>6, <3>7 DEF ReplyInv
  <2>4. DrainedWhenStopped'
    BY <1>0, <1>14 DEF RunJob, HealthAfter, callerVars, DrainedWhenStopped,
       HasRun, QueueInv, LoopInv, RanUpTo, Taken
  <2>5. HandlesInv' /\ AcceptedInv'
    BY <1>0, <1>14 DEF RunJob, HealthAfter, callerVars, HandlesInv, AcceptedInv,
       Past
  <2> QED
    BY <2>a, <2>1, <2>2, <2>3, <2>4, <2>5 DEF IInv
<1>15. ASSUME NEW j \in Jobs, InnerReply(j) PROVE IInv'
  <2>1. TypeOK'
    BY <1>0, <1>15 DEF InnerReply, callerVars
  <2>2. QueueInv'
    BY <1>0, <1>15 DEF InnerReply, callerVars, QueueInv, Taken
  <2>3. LoopInv'
    BY <1>0, <1>15 DEF InnerReply, callerVars, LoopInv, QueueInv, AcceptedInv,
       Taken, RanUpTo, HasRun
  <2>4. ReplyInv'
    <3>1. /\ callers' = callers /\ ran' = ran /\ result' = result /\ connected' = connected
          /\ current' = current /\ current = j /\ loop = "inner" /\ loop' = "outerOk"
      BY <1>15 DEF InnerReply, callerVars
    <3>2. HasRun(j) /\ (callers[j] = "waiting" => ran[j] = <<result[j]>> /\ reply'[j] = "ok")
      BY <1>0, <1>15, <3>1, AfterRun DEF InnerReply, ReplyInv
    <3>3. /\ \A k \in Jobs : k # j => reply'[k] = reply[k]
          /\ callers[j] # "waiting" => reply'[j] = reply[j]
      BY <1>0, <1>15 DEF InnerReply
    <3>4. \A k \in Jobs : (HasRun(k)' <=> HasRun(k)) /\ (Past(k)' <=> Past(k))
      BY <3>1 DEF HasRun, Past
    <3> QED
      BY <1>0, <3>1, <3>2, <3>3, <3>4 DEF ReplyInv
  <2>5. AtMostOnce' /\ HandlesInv' /\ AcceptedInv' /\ AnswersAreTrue' /\
         HealthInv' /\ Fifo' /\ DrainedWhenStopped'
    BY <1>0, <1>15 DEF InnerReply, callerVars, AtMostOnce, HandlesInv,
       AcceptedInv, Past, AnswersAreTrue, HealthInv, Fifo, HasRun,
       DrainedWhenStopped
  <2> QED
    BY <2>1, <2>2, <2>3, <2>4, <2>5 DEF IInv
<1>16. ASSUME NEW j \in Jobs, OuterReply(j) PROVE IInv'
  <2>1. TypeOK'
    BY <1>0, <1>16 DEF OuterReply, CanReply, callerVars
  <2>2. QueueInv'
    BY <1>0, <1>16 DEF OuterReply, CanReply, callerVars, QueueInv, Taken
  <2>3. LoopInv'
    BY <1>0, <1>16 DEF OuterReply, CanReply, callerVars, LoopInv, QueueInv,
       AcceptedInv, Taken, RanUpTo, HasRun
  <2>4. ReplyInv'
    <3>1. /\ callers' = callers /\ ran' = ran /\ result' = result /\ connected' = connected
          /\ current' = NoJob /\ current = j /\ loop' = "recv"
          /\ loop \in {"outerOk", "outerPanic"}
      BY <1>16 DEF OuterReply, callerVars
    <3>2. HasRun(j)
      BY <1>0, <3>1, AfterRun
    <3>3. callers[j] = "waiting" =>
            loop = "outerPanic" /\ reply'[j] = "panicErr" /\ ran[j] = <<"panicErr">>
      BY <1>0, <1>16, <3>1 DEF OuterReply, CanReply, ReplyInv, LoopInv
    <3>4. /\ \A k \in Jobs : k # j => reply'[k] = reply[k]
          /\ callers[j] # "waiting" => reply'[j] = reply[j]
      BY <1>0, <1>16 DEF OuterReply
    <3>5. \A k \in Jobs : (HasRun(k)' <=> HasRun(k)) /\ (Past(k)' <=> Past(k)) /\ k # NoJob
      BY <3>1 DEF HasRun, Past
    <3> QED
      BY <1>0, <3>1, <3>2, <3>3, <3>4, <3>5 DEF ReplyInv
  <2>5. AtMostOnce' /\ HandlesInv' /\ AcceptedInv' /\ AnswersAreTrue' /\
         HealthInv' /\ Fifo' /\ DrainedWhenStopped'
    BY <1>0, <1>16 DEF OuterReply, CanReply, callerVars, AtMostOnce, HandlesInv,
       AcceptedInv, Past, AnswersAreTrue, HealthInv, Fifo, HasRun,
       DrainedWhenStopped
  <2> QED
    BY <2>1, <2>2, <2>3, <2>4, <2>5 DEF IInv
<1>17. ASSUME DropReceiver PROVE IInv'
  <2>1. TypeOK'
    <3>1. queue' = <<>> /\ connected' = FALSE /\ loop' = "closing"
      BY <1>17 DEF DropReceiver
    <3>2. <<>> \in Seq(Messages) /\ Len(<<>>) <= QueueSize
      OBVIOUS
    <3> QED
      BY <1>0, <1>17, <3>1, <3>2 DEF DropReceiver, callerVars
  <2>2. QueueInv'
    BY <1>0, <1>17 DEF DropReceiver, callerVars, QueueInv, Taken
  <2>3. LoopInv'
    BY <1>0, <1>17 DEF DropReceiver, callerVars, LoopInv, QueueInv, AcceptedInv,
       Taken, RanUpTo, HasRun
  <2>4. ReplyInv'
    BY <1>0, <1>17 DEF DropReceiver, callerVars, ReplyInv, LoopInv, AcceptedInv,
       QueueInv, Taken, RanUpTo, HasRun, Past
  <2>5. DrainedWhenStopped'
    BY <1>0, <1>17 DEF DropReceiver, callerVars, DrainedWhenStopped, HasRun,
       QueueInv, LoopInv, RanUpTo, Taken
  <2>6. AtMostOnce' /\ HandlesInv' /\ AcceptedInv' /\ AnswersAreTrue' /\
         HealthInv' /\ Fifo'
    BY <1>0, <1>17 DEF DropReceiver, callerVars, AtMostOnce, HandlesInv,
       AcceptedInv, Past, AnswersAreTrue, HealthInv, Fifo, HasRun
  <2> QED
    BY <2>1, <2>2, <2>3, <2>4, <2>5, <2>6 DEF IInv
<1>18. ASSUME MarkStopped PROVE IInv'
  <2>1. QueueInv'
    BY <1>0, <1>18 DEF MarkStopped, callerVars, QueueInv, Taken
  <2>2. LoopInv'
    BY <1>0, <1>18 DEF MarkStopped, callerVars, LoopInv, QueueInv, AcceptedInv,
       Taken, RanUpTo, HasRun
  <2>3. ReplyInv'
    BY <1>0, <1>18 DEF MarkStopped, callerVars, ReplyInv, LoopInv, AcceptedInv,
       QueueInv, Taken, RanUpTo, HasRun, Past
  <2>4. HealthInv'
    BY <1>0, <1>18 DEF MarkStopped, callerVars, HealthInv
  <2>5. AcceptedInv'
    BY <1>0, <1>18 DEF MarkStopped, callerVars, AcceptedInv, Past
  <2>6. TypeOK' /\ AtMostOnce' /\ HandlesInv' /\ AnswersAreTrue' /\ Fifo' /\
         DrainedWhenStopped'
    BY <1>0, <1>18 DEF MarkStopped, callerVars, AtMostOnce, HandlesInv,
       AnswersAreTrue, Fifo, HasRun, DrainedWhenStopped
  <2> QED
    BY <2>1, <2>2, <2>3, <2>4, <2>5, <2>6 DEF IInv
<1>19. ASSUME UNCHANGED vars PROVE IInv'
  <2>1. AcceptedInv'
    BY <1>0, <1>19 DEF vars, AcceptedInv, Past
  <2>2. QueueInv' /\ LoopInv' /\ ReplyInv'
    BY <1>0, <1>19 DEF vars, QueueInv, Taken, LoopInv, RanUpTo, HasRun,
       ReplyInv, Past
  <2>3. TypeOK' /\ AtMostOnce' /\ HandlesInv' /\ AnswersAreTrue' /\ HealthInv' /\
         Fifo' /\ DrainedWhenStopped'
    BY <1>0, <1>19 DEF vars, AtMostOnce, HandlesInv, AnswersAreTrue, HealthInv,
       Fifo, HasRun, DrainedWhenStopped
  <2> QED
    BY <2>1, <2>2, <2>3 DEF IInv
<1> QED
  BY <1>1, <1>2, <1>3, <1>4, <1>5, <1>6, <1>7, <1>8, <1>9, <1>10, <1>11, <1>12,
     <1>13, <1>14, <1>15, <1>16, <1>17, <1>18, <1>19 DEF Next, CallerStep,
     WriterStep, Done

\* Everything the safety runs check of the actor, from one inductive invariant.
THEOREM WriterInv == Spec => []IInv
<1>1. Init => IInv
  <2> SUFFICES ASSUME Init PROVE IInv
    OBVIOUS
  <2> USE WriterAssumption DEF Init
  <2>1. TypeOK
    BY DEF TypeOK, Messages, Results, Rejected, Outcomes, Active, NoReply
  <2>2. AtMostOnce /\ HandlesInv /\ AnswersAreTrue /\ HealthInv
    BY DEF AtMostOnce, HandlesInv, AnswersAreTrue, HealthInv, Results, Active
  <2>3. AcceptedInv /\ QueueInv /\ LoopInv /\ ReplyInv
    BY DEF AcceptedInv, QueueInv, LoopInv, ReplyInv, Past, Taken, RanUpTo, HasRun, Results
  <2>4. Fifo /\ DrainedWhenStopped
    BY DEF Fifo, DrainedWhenStopped
  <2> QED
    BY <2>1, <2>2, <2>3, <2>4 DEF IInv
<1>2. QED
  BY <1>1, WriterStepInv, PTL DEF Spec

\* The type invariant; in particular the queue never exceeds queue_size.  It is
\* not inductive alone: that the value a caller takes from the result channel
\* is there at all follows from ReplyInv.
THEOREM WriterTypeOK == Spec => []TypeOK
<1>1. IInv => TypeOK
  BY DEF IInv
<1>2. QED
  BY <1>1, WriterInv, PTL

\* No closure runs twice.
THEOREM WriterAtMostOnce == Spec => []AtMostOnce
<1>1. IInv => AtMostOnce
  BY DEF IInv
<1>2. QED
  BY <1>1, WriterInv, PTL

\* A result reported by write() is the result of the one execution.
THEOREM WriterAnswersAreTrue == Spec => []AnswersAreTrue
<1>1. IInv => AnswersAreTrue
  BY DEF IInv
<1>2. QED
  BY <1>1, WriterInv, PTL

\* Jobs run in the order they were queued, and none runs behind a Shutdown.
THEOREM WriterFifo == Spec => []Fifo
<1>1. IInv => Fifo
  BY DEF IInv
<1>2. QED
  BY <1>1, WriterInv, PTL

\* A stopped writer has executed every job queued before the first Shutdown.
THEOREM WriterDrained == Spec => []DrainedWhenStopped
<1>1. IInv => DrainedWhenStopped
  BY DEF IInv
<1>2. QED
  BY <1>1, WriterInv, PTL

\* A rejected call has left no message behind, neither queued nor running, and
\* its closure has not run.
THEOREM WriterRejectionIsFinal == Spec => []RejectionIsFinal
<1>1. IInv => RejectionIsFinal
  <2> SUFFICES ASSUME IInv, NEW j \in Jobs, callers[j] \in Rejected
               PROVE  ran[j] = <<>> /\ SendersGone(j)
    BY DEF RejectionIsFinal, SendersGone
  <2>0. TypeOK /\ AcceptedInv /\ QueueInv /\ LoopInv /\ ReplyInv
    BY DEF IInv
  <2>1. ran[j] = <<>>
    BY <2>0 DEF ReplyInv, Past, HasRun, Rejected, Results
  <2>2. CASE callers[j] = "dropped"
    <3>1. ~connected
      BY <2>0, <2>2 DEF ReplyInv
    <3>2. queue = <<>> /\ current = NoJob
      BY <2>0, <3>1 DEF QueueInv, LoopInv
    <3> QED
      BY <2>1, <3>2, WriterAssumption DEF SendersGone
  <2>3. CASE callers[j] # "dropped"
    <3>1. ~Past(j)
      BY <2>3 DEF Past, Rejected, Results
    <3> QED
      BY <2>0, <2>1, <3>1, NotQueued
  <2> QED
    BY <2>2, <2>3
<1>2. QED
  BY <1>1, WriterInv, PTL

\* Once a caller has been told of a panic, is_healthy() is false for good.
THEOREM WriterPanicIsVisible == Spec => []PanicIsVisible
<1>1. IInv => PanicIsVisible
  BY DEF IInv, PanicIsVisible, AnswersAreTrue, HealthInv, Results
<1>2. QED
  BY <1>1, WriterInv, PTL
-----------------------------------------------------------------------------
(***************************************************************************)
(* The actor implements WriteService.                                      *)
(***************************************************************************)

\* A step that changes no call's view is a stuttering step of the service.
LEMMA Unseen ==
    ASSUME \A k \in Jobs : /\ PhaseOf(k)' = PhaseOf(k)
                           /\ EffectOf(k)' = EffectOf(k)
                           /\ AnswerOf(k)' = AnswerOf(k)
    PROVE  UNCHANGED WS!vars
  BY DEF WS!vars

\* A step that leaves ran, the phases of the calls and their answers alone.
LEMMA UnseenByCaller ==
    ASSUME ran' = ran, callers' = callers,
           \A k \in Jobs : HasRun(k) \/ (SendersGone(k)' <=> SendersGone(k))
    PROVE  UNCHANGED WS!vars
<1>1. \A k \in Jobs : /\ PhaseOf(k)' = PhaseOf(k)
                      /\ EffectOf(k)' = EffectOf(k)
                      /\ AnswerOf(k)' = AnswerOf(k)
  BY DEF PhaseOf, EffectOf, AnswerOf, HasRun
<1> QED
  BY <1>1, Unseen

\* Every step of the actor is one step of the service or none.
LEMMA WriterStepImplements == IInv /\ [Next]_vars => [WS!Next]_WS!vars
<1> SUFFICES ASSUME IInv, [Next]_vars PROVE WS!Next \/ UNCHANGED WS!vars
  OBVIOUS
<1>0. TypeOK /\ AcceptedInv /\ QueueInv /\ LoopInv /\ ReplyInv /\ AnswersAreTrue
  BY DEF IInv
<1>t. callers \in [Jobs -> {"idle"} \cup Active \cup Outcomes]
  BY <1>0 DEF TypeOK
<1>1. ASSUME NEW j \in Jobs, Write(j) PROVE WS!Submit(j)
  <2>1. /\ callers[j] = "idle" /\ callers' = [callers EXCEPT ![j] = "sending"]
        /\ ran' = ran /\ queue' = queue /\ current' = current
    BY <1>1 DEF Write, writerVars
  <2>2. ~HasRun(j)
    BY <1>0, <2>1 DEF ReplyInv, Past, Results
  <2>3. PhaseOf(j) = "idle" /\ PhaseOf(j)' = "open"
    BY <1>t, <2>1, <2>2 DEF PhaseOf, HasRun
  <2>4. \A k \in Jobs : k # j => PhaseOf(k)' = PhaseOf(k)
    BY <1>t, <2>1 DEF PhaseOf, HasRun, SendersGone
  <2>5. \A k \in Jobs : EffectOf(k)' = EffectOf(k) /\ AnswerOf(k)' = AnswerOf(k)
    BY <1>t, <2>1 DEF EffectOf, AnswerOf, HasRun, Outcomes, Results, Rejected
  <2> QED
    BY <2>3, <2>4, <2>5 DEF WS!Submit
<1>2. ASSUME NEW j \in Jobs, SendOk(j) PROVE UNCHANGED WS!vars
  <2>1. /\ callers[j] = "sending" /\ callers' = [callers EXCEPT ![j] = "waiting"]
        /\ ran' = ran /\ queue' = Append(queue, j) /\ current' = current
    BY <1>2 DEF SendOk, writerVars
  <2>2. queue \in Seq(Messages) /\ j \in Messages
    BY <1>0 DEF TypeOK, Messages
  <2>3. /\ Len(queue) \in Nat /\ Len(queue') = Len(queue) + 1
        /\ \A i \in 1..Len(queue) : queue'[i] = queue[i]
        /\ queue'[Len(queue) + 1] = j
    BY <2>1, <2>2, AppendFacts
  <2>4. ~SendersGone(j)' /\ \A k \in Jobs : k # j => (SendersGone(k)' <=> SendersGone(k))
    <3>1. Len(queue) + 1 \in 1..Len(queue')
      BY <2>3
    <3>2. \A i \in 1..Len(queue') : i \in 1..Len(queue) \/ i = Len(queue) + 1
      BY <2>3
    <3>3. \A i \in 1..Len(queue) : i \in 1..Len(queue')
      BY <2>3
    <3> QED
      BY <2>1, <2>3, <3>1, <3>2, <3>3 DEF SendersGone
  <2>5. \A k \in Jobs : PhaseOf(k)' = PhaseOf(k)
    BY <1>t, <2>1, <2>4 DEF PhaseOf, HasRun
  <2>6. \A k \in Jobs : EffectOf(k)' = EffectOf(k) /\ AnswerOf(k)' = AnswerOf(k)
    BY <1>t, <2>1 DEF EffectOf, AnswerOf, HasRun, Outcomes, Results, Rejected
  <2> QED
    BY <2>5, <2>6, Unseen
<1>3. ASSUME NEW j \in Jobs, SendFails(j) PROVE WS!Reject(j, SendError) /\ SendError \in WS!RefusedAnswers
  <2>1. /\ callers[j] = "sending" /\ callers' = [callers EXCEPT ![j] = SendError]
        /\ ran' = ran /\ queue' = queue /\ current' = current
    BY <1>3 DEF SendFails, writerVars
  <2>2. SendError \in {"stopped", "queueFull"}
    BY <1>3 DEF SendFails, SendError
  <2>3. SendersGone(j) /\ ~HasRun(j)
    BY <1>0, <2>1, NotQueued DEF Past, Results
  <2>4. PhaseOf(j) = "open" /\ PhaseOf(j)' = "refused"
    BY <1>t, <2>1, <2>2, <2>3 DEF PhaseOf, HasRun, SendersGone
  <2>5. \A k \in Jobs : k # j => PhaseOf(k)' = PhaseOf(k)
    BY <1>t, <2>1 DEF PhaseOf, HasRun, SendersGone
  <2>6. \A k \in Jobs : EffectOf(k)' = EffectOf(k)
    BY <2>1 DEF EffectOf, HasRun
  <2>7. /\ AnswerOf(j) = "none" /\ AnswerOf(j)' = SendError
        /\ \A k \in Jobs : k # j => AnswerOf(k)' = AnswerOf(k)
    BY <1>t, <2>1, <2>2 DEF AnswerOf, Outcomes, Results, Rejected
  <2> QED
    BY <2>2, <2>4, <2>5, <2>6, <2>7 DEF WS!Reject, WS!RefusedAnswers
<1>4. ASSUME NEW j \in Jobs, RecvReply(j)
      PROVE  WS!Answer(j, Returned(j)) /\ Returned(j) \in WS!AppliedAnswers
  <2>1. /\ callers[j] = "waiting" /\ callers' = [callers EXCEPT ![j] = Returned(j)]
        /\ ran' = ran /\ queue' = queue /\ current' = current
    BY <1>4 DEF RecvReply, writerVars
  <2>2. ran[j] = <<Returned(j)>>
    BY <1>0, <1>4 DEF RecvReply, Returned, ReplyInv, TypeOK, NoReply
  <2>3. Returned(j) \in Results
    BY <1>0, <2>2, SingletonFacts, ZenonT(30) DEF TypeOK
  <2>4. HasRun(j) /\ ran[j][1] = Returned(j)
    BY <2>2, NonEmpty DEF HasRun
  <2>5. \A k \in Jobs : PhaseOf(k)' = PhaseOf(k)
    BY <1>t, <2>1, <2>3, <2>4 DEF PhaseOf, HasRun, SendersGone, Results
  <2>6. PhaseOf(j) = "applied" /\ EffectOf(j) = Returned(j)
    BY <2>1, <2>4 DEF PhaseOf, EffectOf
  <2>7. \A k \in Jobs : EffectOf(k)' = EffectOf(k)
    BY <2>1 DEF EffectOf, HasRun
  <2>8. /\ AnswerOf(j) = "none" /\ AnswerOf(j)' = Returned(j)
        /\ \A k \in Jobs : k # j => AnswerOf(k)' = AnswerOf(k)
    BY <1>t, <2>1, <2>3 DEF AnswerOf, Outcomes, Results, Rejected
  <2> QED
    BY <2>3, <2>5, <2>6, <2>7, <2>8 DEF WS!Answer, WS!AppliedAnswers, Results
<1>5. ASSUME NEW j \in Jobs, RecvTimeout(j) PROVE WS!Answer(j, "timeout")
  <2>1. /\ callers[j] = "waiting" /\ callers' = [callers EXCEPT ![j] = "timeout"]
        /\ ran' = ran /\ queue' = queue /\ current' = current
    BY <1>5 DEF RecvTimeout, writerVars
  <2>2. PhaseOf(j) # "idle" /\ \A k \in Jobs : PhaseOf(k)' = PhaseOf(k)
    BY <1>t, <2>1 DEF PhaseOf, HasRun, SendersGone
  <2>3. \A k \in Jobs : EffectOf(k)' = EffectOf(k)
    BY <2>1 DEF EffectOf, HasRun
  <2>4. /\ AnswerOf(j) = "none" /\ AnswerOf(j)' = "timeout"
        /\ \A k \in Jobs : k # j => AnswerOf(k)' = AnswerOf(k)
    BY <1>t, <2>1 DEF AnswerOf, Outcomes, Results, Rejected
  <2> QED
    BY <2>2, <2>3, <2>4 DEF WS!Answer
<1>6. ASSUME NEW j \in Jobs, RecvDisconnected(j) PROVE WS!Answer(j, "dropped")
  <2>1. /\ callers[j] = "waiting" /\ callers' = [callers EXCEPT ![j] = "dropped"]
        /\ ran' = ran /\ queue' = queue /\ current' = current
        /\ SendersGone(j) /\ current # j /\ reply[j] = NoReply
    BY <1>6 DEF RecvDisconnected, SendersGone, writerVars
  <2>2. ~HasRun(j)
    BY <1>0, <2>1 DEF ReplyInv
  <2>3. PhaseOf(j) = "refused" /\ \A k \in Jobs : PhaseOf(k)' = PhaseOf(k)
    BY <1>t, <2>1, <2>2 DEF PhaseOf, HasRun, SendersGone
  <2>4. \A k \in Jobs : EffectOf(k)' = EffectOf(k)
    BY <2>1 DEF EffectOf, HasRun
  <2>5. /\ AnswerOf(j) = "none" /\ AnswerOf(j)' = "dropped"
        /\ \A k \in Jobs : k # j => AnswerOf(k)' = AnswerOf(k)
    BY <1>t, <2>1 DEF AnswerOf, Outcomes, Results, Rejected
  <2> QED
    BY <2>3, <2>4, <2>5 DEF WS!Answer, WS!RefusedAnswers
<1>7. ASSUME NEW s \in Shutdowns, Shutdown(s) \/ ShutdownIgnored(s) PROVE UNCHANGED WS!vars
  BY <1>7, UnseenByCaller DEF Shutdown, ShutdownIgnored, writerVars, SendersGone
<1>8. ASSUME NEW s \in Shutdowns, ShutdownSend(s) PROVE UNCHANGED WS!vars
  <2>1. /\ callers' = callers /\ ran' = ran /\ queue' = Append(queue, s) /\ current' = current
    BY <1>8 DEF ShutdownSend, writerVars
  <2>2. queue \in Seq(Messages) /\ s \in Messages
    BY <1>0, <1>8 DEF TypeOK, Messages
  <2>3. /\ Len(queue) \in Nat /\ Len(queue') = Len(queue) + 1
        /\ \A i \in 1..Len(queue) : queue'[i] = queue[i]
        /\ queue'[Len(queue) + 1] = s
    BY <2>1, <2>2, AppendFacts
  <2>4. \A k \in Jobs : SendersGone(k)' <=> SendersGone(k)
    <3>1. \A i \in 1..Len(queue') : i \in 1..Len(queue) \/ i = Len(queue) + 1
      BY <2>3
    <3>2. \A i \in 1..Len(queue) : i \in 1..Len(queue')
      BY <2>3
    <3>3. s \notin Jobs
      BY <1>8, WriterAssumption
    <3> QED
      BY <2>1, <2>3, <3>1, <3>2, <3>3 DEF SendersGone
  <2> QED
    BY <2>1, <2>4, UnseenByCaller
<1>9. ASSUME DropHandles \/ RecvClosed \/ MarkStopped PROVE UNCHANGED WS!vars
  BY <1>9, UnseenByCaller DEF DropHandles, RecvClosed, MarkStopped, writerVars, callerVars, SendersGone
<1>10. ASSUME RecvJob \/ RecvShutdown PROVE UNCHANGED WS!vars
  <2>1. /\ callers' = callers /\ ran' = ran /\ queue' = Tail(queue) /\ queue # <<>>
        /\ current = NoJob
        /\ \/ current' = Head(queue)
           \/ current' = NoJob /\ Head(queue) \in Shutdowns
    BY <1>0, <1>10 DEF RecvJob, RecvShutdown, NextMsg, callerVars, LoopInv
  <2>2. /\ Len(queue) \in Nat /\ Len(queue) >= 1 /\ Len(queue') = Len(queue) - 1
        /\ \A i \in 1..(Len(queue) - 1) : queue'[i] = queue[i + 1]
        /\ Head(queue) = queue[1]
    BY <1>0, <2>1, TailFacts DEF TypeOK
  <2>3. ASSUME NEW k \in Jobs PROVE SendersGone(k)' <=> SendersGone(k)
    <3>1. k # NoJob /\ k \notin Shutdowns
      BY WriterAssumption
    <3>2. \A i \in 1..(Len(queue) - 1) : i + 1 \in 1..Len(queue)
      BY <2>2
    <3>3. \A i \in 1..Len(queue) : i = 1 \/ (i - 1 \in 1..(Len(queue) - 1) /\ (i - 1) + 1 = i)
      BY <2>2
    <3>4. 1 \in 1..Len(queue)
      BY <2>2
    <3>5. ASSUME SendersGone(k)' PROVE SendersGone(k)
      <4>1. queue[1] # k
        BY <2>1, <2>2, <3>1, <3>5 DEF SendersGone
      <4>2. \A i \in 1..Len(queue) : i # 1 => queue[i] # k
        BY <2>2, <3>3, <3>5 DEF SendersGone
      <4> QED
        BY <2>1, <3>1, <4>1, <4>2 DEF SendersGone
    <3>6. ASSUME SendersGone(k) PROVE SendersGone(k)'
      BY <2>1, <2>2, <3>1, <3>2, <3>4, <3>6 DEF SendersGone
    <3> QED
      BY <3>5, <3>6
  <2> QED
    BY <2>1, <2>3, UnseenByCaller
<1>11. ASSUME NEW j \in Jobs, NEW r \in Results, RunJob(j, r)
       PROVE  WS!Apply(j, r) /\ r \in WS!AppliedAnswers
  <2>1. /\ callers' = callers /\ queue' = queue /\ current' = current
        /\ current = j /\ loop = "run"
    BY <1>11 DEF RunJob, callerVars
  <2>2. ran[j] = <<>> /\ ran' = [ran EXCEPT ![j] = <<r>>]
    BY <1>11, RunInv
  <2>3. /\ ran'[j] = <<r>> /\ <<r>> # <<>> /\ <<r>>[1] = r
        /\ \A k \in Jobs : k # j => ran'[k] = ran[k]
    BY <1>0, <2>2, NonEmpty DEF TypeOK
  <2>4. Past(j)
    <3>1. Taken \in 1..Len(accepted) /\ accepted[Taken] = j
      BY <1>0, <2>1 DEF TypeOK, LoopInv, QueueInv, Taken
    <3> QED
      BY <1>0, <3>1 DEF AcceptedInv
  <2>5. PhaseOf(j) = "open" /\ PhaseOf(j)' = "applied" /\ EffectOf(j)' = r
    BY <2>1, <2>2, <2>3, <2>4 DEF PhaseOf, EffectOf, HasRun, SendersGone, Past, Results
  <2>6. \A k \in Jobs : k # j => PhaseOf(k)' = PhaseOf(k) /\ EffectOf(k)' = EffectOf(k)
    BY <2>1, <2>3 DEF PhaseOf, EffectOf, HasRun, SendersGone
  <2>7. \A k \in Jobs : AnswerOf(k)' = AnswerOf(k)
    BY <2>1 DEF AnswerOf
  <2> QED
    BY <2>5, <2>6, <2>7 DEF WS!Apply, WS!AppliedAnswers, Results
<1>12. ASSUME NEW j \in Jobs, InnerReply(j) \/ OuterReply(j) PROVE UNCHANGED WS!vars
  <2>1. /\ callers' = callers /\ ran' = ran /\ queue' = queue
        /\ current = j /\ current' \in {j, NoJob}
        /\ loop \in {"inner", "outerOk", "outerPanic"}
    BY <1>12 DEF InnerReply, OuterReply, callerVars
  <2>2. HasRun(j)
    BY <1>0, <2>1, AfterRun
  <2>3. \A k \in Jobs : HasRun(k) \/ (SendersGone(k)' <=> SendersGone(k))
    BY <2>1, <2>2, WriterAssumption DEF SendersGone
  <2> QED
    BY <2>1, <2>3, UnseenByCaller
<1>13. ASSUME DropReceiver
       PROVE  \E S \in SUBSET Jobs : WS!Refuse(S)
  <2> DEFINE S == {k \in Jobs : PhaseOf(k) = "open" /\ callers[k] # "sending"}
  <2>1. callers' = callers /\ ran' = ran /\ queue' = <<>> /\ current' = current /\ current = NoJob
    BY <1>0, <1>13 DEF DropReceiver, callerVars, LoopInv
  <2>2. \A k \in Jobs : SendersGone(k)'
    BY <2>1, WriterAssumption DEF SendersGone
  <2>3. \A k \in Jobs : PhaseOf(k)' = IF k \in S THEN "refused" ELSE PhaseOf(k)
    BY <2>1, <2>2 DEF PhaseOf, HasRun
  <2>4. \A k \in Jobs : EffectOf(k)' = EffectOf(k) /\ AnswerOf(k)' = AnswerOf(k)
    BY <2>1 DEF EffectOf, AnswerOf, HasRun
  <2>5. WS!Refuse(S)
    BY <2>3, <2>4 DEF WS!Refuse
  <2> QED
    BY <2>5
<1>14. ASSUME UNCHANGED vars PROVE UNCHANGED WS!vars
  BY <1>14, UnseenByCaller DEF vars, SendersGone
<1> QED
  BY <1>1, <1>2, <1>3, <1>4, <1>5, <1>6, <1>7, <1>8, <1>9, <1>10, <1>11, <1>12, <1>13, <1>14
     DEF Next, CallerStep, WriterStep, Done, WS!Next, WS!RefusedAnswers

\* Callers of StoreHandle::write may reason with the abstract service: at most
\* one execution, truthful answers, and only a timeout left open.
THEOREM WriterImplementsWriteService == Spec => ImplementsWriteService
<1>1. Init => WS!Init
  BY DEF Init, WS!Init, PhaseOf, EffectOf, AnswerOf, HasRun, Outcomes, Results, Rejected
<1>2. QED
  BY <1>1, WriterInv, WriterStepImplements, PTL DEF Spec, ImplementsWriteService, WS!Spec
=============================================================================
