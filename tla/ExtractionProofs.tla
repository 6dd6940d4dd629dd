-------------------------- MODULE ExtractionProofs --------------------------
(***************************************************************************)
(* Proofs about Extraction for any clients, workers, sessions, ceilings,   *)
(* windows, costs and faults.                                              *)
(***************************************************************************)
EXTENDS Extraction, Functions, FiniteSetTheorems, WellFoundedInduction, SequenceTheorems, TLAPS

\* Among subsets of a finite set there is a minimal one.
LEMMA MinimalExists ==
    ASSUME NEW S, IsFiniteSet(S), NEW B \in SUBSET (SUBSET S), B # {}
    PROVE  \E m \in B : \A t \in B : t \subseteq m => t = m
<1>1. IsWellFoundedOn(StrictSubsetOrdering(S), SUBSET S)
  BY FS_StrictSubsetOrderingWellFounded, FS_FiniteSubsetsOfFinite
<1>2. PICK m \in B : \A t \in B : ~ (<<t, m>> \in StrictSubsetOrdering(S))
  BY <1>1, WFMin
<1> QED
  BY <1>2 DEF StrictSubsetOrdering

\* What SumFunctionOnSet of the community modules computes: the sum of the
\* function's values, in whichever order it takes them. (It is a recursive
\* function chosen in a LET; these lemmas show that there is one and that its
\* defining equation holds.)
Sum(f, S) == SumFunctionOnSet(f, S)
AnyOf(S) == CHOOSE x \in S : TRUE

\* The equation of the fold, on the subsets of S.
IsFold(f, S, g) ==
    g = [s \in SUBSET S |-> IF s = {} THEN 0 ELSE f[AnyOf(s)] + g[s \ {AnyOf(s)}]]

LEMMA FoldAt ==
    ASSUME NEW f, NEW S, NEW g, IsFold(f, S, g), NEW s \in SUBSET S
    PROVE  g[s] = IF s = {} THEN 0 ELSE f[AnyOf(s)] + g[s \ {AnyOf(s)}]
  BY DEF IsFold

\* Two folds agree where both are defined.
LEMMA FoldUnique ==
    ASSUME NEW f, NEW S, NEW T, IsFiniteSet(S), T \subseteq S,
           NEW g, IsFold(f, S, g), NEW h, IsFold(f, T, h), NEW r \in SUBSET T
    PROVE  g[r] = h[r]
<1> DEFINE B == {s \in SUBSET T : g[s] # h[s]}
<1> SUFFICES ASSUME B # {} PROVE FALSE
  OBVIOUS
<1>1. B \in SUBSET (SUBSET T) /\ IsFiniteSet(T)
  BY FS_Subset
<1>2. PICK m \in B : \A t \in B : t \subseteq m => t = m
  <2> HIDE DEF B
  <2> QED
    BY <1>1, MinimalExists
<1>3. m \in SUBSET T /\ m \in SUBSET S /\ g[m] # h[m]
  OBVIOUS
<1>4. /\ g[m] = IF m = {} THEN 0 ELSE f[AnyOf(m)] + g[m \ {AnyOf(m)}]
      /\ h[m] = IF m = {} THEN 0 ELSE f[AnyOf(m)] + h[m \ {AnyOf(m)}]
  <2> HIDE DEF B
  <2>1. g[m] = IF m = {} THEN 0 ELSE f[AnyOf(m)] + g[m \ {AnyOf(m)}]
    BY <1>3 DEF IsFold
  <2>2. h[m] = IF m = {} THEN 0 ELSE f[AnyOf(m)] + h[m \ {AnyOf(m)}]
    BY <1>3 DEF IsFold
  <2> QED
    BY <2>1, <2>2
<1>5. m # {}
  BY <1>3, <1>4
<1>6. AnyOf(m) \in m
  BY <1>5 DEF AnyOf
<1>7. m \ {AnyOf(m)} \notin B
  BY <1>2, <1>6
<1> QED
  BY <1>3, <1>4, <1>5, <1>7

\* Every finite set has a fold.
LEMMA FoldExists ==
    ASSUME NEW f, NEW S, IsFiniteSet(S)
    PROVE  \E g : IsFold(f, S, g)
<1> DEFINE B == {s \in SUBSET S : ~ \E g : IsFold(f, s, g)}
<1> SUFFICES ASSUME B # {} PROVE FALSE
  OBVIOUS
<1>1. PICK m \in B : \A t \in B : t \subseteq m => t = m
  <2>1. B \in SUBSET (SUBSET S)
    OBVIOUS
  <2> HIDE DEF B
  <2> QED
    BY <2>1, MinimalExists
<1>2. m \in SUBSET S /\ IsFiniteSet(m) /\ ~ \E g : IsFold(f, m, g)
  BY FS_Subset
<1>3. ASSUME NEW s \in SUBSET m, s # m PROVE \E g : IsFold(f, s, g)
  BY <1>1, <1>3
<1> DEFINE Of(s) == CHOOSE g : IsFold(f, s, g)
           Less(s) == s \ {AnyOf(s)}
           G == [s \in SUBSET m |-> IF s = {} THEN 0 ELSE f[AnyOf(s)] + Of(Less(s))[Less(s)]]
<1>4. ASSUME NEW s \in SUBSET m, s # m PROVE IsFold(f, s, Of(s))
  BY <1>3, <1>4
<1>5. ASSUME NEW s \in SUBSET m, s # {} PROVE AnyOf(s) \in s /\ Less(s) \in SUBSET m /\ Less(s) # m
  BY <1>5 DEF AnyOf
<1> HIDE DEF Of
<1>6. ASSUME NEW s \in SUBSET m, s # {} PROVE G[Less(s)] = Of(Less(s))[Less(s)]
  <2> DEFINE t == Less(s)
  <2>1. t \in SUBSET m /\ t # m /\ IsFold(f, t, Of(t)) /\ IsFiniteSet(t)
    BY <1>2, <1>4, <1>5, <1>6, FS_Subset
  <2> HIDE DEF t
  <2>2. Of(t)[t] = IF t = {} THEN 0 ELSE f[AnyOf(t)] + Of(t)[Less(t)]
    BY <2>1, FoldAt
  <2>3. G[t] = IF t = {} THEN 0 ELSE f[AnyOf(t)] + Of(Less(t))[Less(t)]
    BY <2>1
  <2>4. ASSUME t # {} PROVE Of(t)[Less(t)] = Of(Less(t))[Less(t)]
    <3>1. Less(t) \in SUBSET m /\ Less(t) # m /\ Less(t) \subseteq t
      BY <1>5, <2>1, <2>4
    <3>2. IsFold(f, Less(t), Of(Less(t)))
      BY <1>4, <3>1
    <3> HIDE DEF Less
    <3> QED
      BY <2>1, <3>1, <3>2, FoldUnique
  <2> HIDE DEF G, Less
  <2> QED
    BY <2>2, <2>3, <2>4 DEF t
<1>7. G = [s \in SUBSET m |-> IF s = {} THEN 0 ELSE f[AnyOf(s)] + G[Less(s)]]
  <2>1. \A s \in SUBSET m : (IF s = {} THEN 0 ELSE f[AnyOf(s)] + Of(Less(s))[Less(s)])
                             = (IF s = {} THEN 0 ELSE f[AnyOf(s)] + G[Less(s)])
    BY <1>6
  <2> QED
    BY <2>1
<1>8. IsFold(f, m, G)
  BY <1>7 DEF IsFold
<1> QED
  BY <1>2, <1>8

\* SumFunctionOnSet is the fold of its set.
LEMMA SumIsFold ==
    ASSUME NEW f, NEW S, IsFiniteSet(S)
    PROVE  \E g : IsFold(f, S, g) /\ Sum(f, S) = g[S]
<1>1. PICK g : IsFold(f, S, g)
  BY FoldExists
<1> QED
  BY <1>1 DEF Sum, SumFunctionOnSet, FoldFunctionOnSet, MapThenFoldSet, IsFold, AnyOf

LEMMA SumEmpty == \A f : Sum(f, {}) = 0
<1> SUFFICES ASSUME NEW f PROVE Sum(f, {}) = 0
  OBVIOUS
<1>1. PICK g : IsFold(f, {}, g) /\ Sum(f, {}) = g[{}]
  BY SumIsFold, FS_EmptySet
<1> QED
  BY <1>1, FoldAt

\* The defining equation.
LEMMA SumChosen ==
    ASSUME NEW f, NEW S, IsFiniteSet(S), S # {}
    PROVE  AnyOf(S) \in S /\ Sum(f, S) = f[AnyOf(S)] + Sum(f, S \ {AnyOf(S)})
<1> DEFINE T == S \ {AnyOf(S)}
<1>1. T \subseteq S /\ IsFiniteSet(T) /\ AnyOf(S) \in S
  BY FS_Subset DEF AnyOf
<1>2. PICK g : IsFold(f, S, g) /\ Sum(f, S) = g[S]
  BY SumIsFold
<1> HIDE DEF T
<1>3. PICK h : IsFold(f, T, h) /\ Sum(f, T) = h[T]
  BY <1>1, SumIsFold
<1>4. g[T] = h[T]
  BY <1>1, <1>2, <1>3, FoldUnique
<1>5. g[S] = f[AnyOf(S)] + g[T]
  BY <1>2, FoldAt DEF T
<1> QED
  BY <1>1, <1>2, <1>3, <1>4, <1>5 DEF T

\* The order does not matter.
LEMMA SumAny ==
    ASSUME NEW f, NEW S, IsFiniteSet(S), \A x \in S : f[x] \in Nat
    PROVE  /\ Sum(f, S) \in Nat
           /\ \A y \in S : Sum(f, S) = f[y] + Sum(f, S \ {y})
<1> DEFINE Good(s) == /\ Sum(f, s) \in Nat
                      /\ \A y \in s : Sum(f, s) = f[y] + Sum(f, s \ {y})
           B == {s \in SUBSET S : ~Good(s)}
<1> SUFFICES ASSUME B # {} PROVE FALSE
  OBVIOUS
<1>1. PICK m \in B : \A t \in B : t \subseteq m => t = m
  <2>1. B \in SUBSET (SUBSET S)
    OBVIOUS
  <2> HIDE DEF B
  <2> QED
    BY <2>1, MinimalExists
<1>2. m \in SUBSET S /\ IsFiniteSet(m) /\ ~Good(m)
  BY FS_Subset
<1>3. ASSUME NEW x \in m PROVE Good(m \ {x})
  <2>1. m \ {x} \in SUBSET S /\ m \ {x} \subseteq m /\ m \ {x} # m
    BY <1>2
  <2> QED
    BY <1>1, <2>1
<1>4. m # {}
  <2>1. ASSUME m = {} PROVE FALSE
    <3>1. Sum(f, m) = 0
      BY <2>1, SumEmpty
    <3> HIDE DEF B
    <3> QED
      BY <1>2, <2>1, <3>1
  <2> QED
    BY <2>1
<1> DEFINE x == AnyOf(m)
<1>5. x \in m /\ Sum(f, m) = f[x] + Sum(f, m \ {x})
  BY <1>2, <1>4, SumChosen
<1> HIDE DEF x, B
<1>6. f[x] \in Nat /\ Sum(f, m) \in Nat
  BY <1>2, <1>3, <1>5
<1>7. ASSUME NEW y \in m, y # x PROVE Sum(f, m) = f[y] + Sum(f, m \ {y})
  <2>1. /\ Sum(f, m \ {x}) = f[y] + Sum(f, (m \ {x}) \ {y})
        /\ Sum(f, m \ {y}) = f[x] + Sum(f, (m \ {y}) \ {x})
    BY <1>3, <1>5, <1>7
  <2>2. (m \ {x}) \ {y} = (m \ {y}) \ {x}
    OBVIOUS
  <2>3. Sum(f, (m \ {x}) \ {y}) \in Int /\ f[y] \in Nat
    <3>1. Good(m \ {x}) /\ Sum(f, m \ {x}) \in Nat /\ f[y] \in Nat
      BY <1>2, <1>3, <1>5
    <3>2. IsFiniteSet((m \ {x}) \ {y})
      BY <1>2, FS_RemoveElement
    <3>3. m \ {x} # m /\ (m \ {x}) \ {y} \in SUBSET S /\ (m \ {x}) \ {y} # m
          /\ (m \ {x}) \ {y} \subseteq m
      BY <1>2, <1>5
    <3>4. Good((m \ {x}) \ {y})
      BY <1>1, <3>3 DEF B
    <3> QED
      BY <3>1, <3>4
  <2> HIDE DEF Good
  <2> QED
    BY <1>5, <1>6, <2>1, <2>2, <2>3, SMTT(30)
<1> QED
  BY <1>2, <1>5, <1>6, <1>7

LEMMA SumSingleton ==
    ASSUME NEW f, NEW x, f[x] \in Nat
    PROVE  Sum(f, {x}) = f[x]
<1>1. IsFiniteSet({x}) /\ {x} \ {x} = {}
  BY FS_Singleton
<1>2. Sum(f, {x}) = f[x] + Sum(f, {x} \ {x})
  BY <1>1, SumAny
<1> QED
  BY <1>1, <1>2, SumEmpty

\* A larger set has a larger sum.
LEMMA SumMonotone ==
    ASSUME NEW f, NEW S, IsFiniteSet(S), \A x \in S : f[x] \in Nat, NEW T \in SUBSET S
    PROVE  Sum(f, T) <= Sum(f, S)
<1> DEFINE B == {s \in SUBSET S : T \subseteq s /\ ~ (Sum(f, T) <= Sum(f, s))}
<1> SUFFICES ASSUME B # {} PROVE FALSE
  OBVIOUS
<1>1. PICK m \in B : \A t \in B : t \subseteq m => t = m
  <2>1. B \in SUBSET (SUBSET S)
    OBVIOUS
  <2> HIDE DEF B
  <2> QED
    BY <2>1, MinimalExists
<1>2. m \in SUBSET S /\ IsFiniteSet(m) /\ T \subseteq m /\ ~ (Sum(f, T) <= Sum(f, m))
  BY FS_Subset
<1>3. Sum(f, T) \in Nat
  BY FS_Subset, SumAny
<1>4. PICK y \in m : y \notin T
  BY <1>2, <1>3
<1>5. m \ {y} \notin B
  BY <1>1, <1>4
<1>6. Sum(f, T) <= Sum(f, m \ {y})
  BY <1>2, <1>4, <1>5
<1>7. /\ Sum(f, m) = f[y] + Sum(f, m \ {y})
      /\ IsFiniteSet(m \ {y}) /\ f[y] \in Nat
  BY <1>2, SumAny, FS_RemoveElement
<1>8. Sum(f, m \ {y}) \in Nat
  BY <1>2, <1>7, SumAny
<1> QED
  BY <1>2, <1>3, <1>6, <1>7, <1>8

-----------------------------------------------------------------------------

\* Appends leave room for the turns of the commands under way (a bound of the
\* model, which the types of the counters rest on).
Appending(s) == {c \in Clients : client[c].op = "append" /\ s \in client[c].todo}

RoomInv ==
    /\ turns \in [Ids -> Seq(Sizes)]
    /\ upto \in [Ids -> Nat]
    /\ \A s \in Ids : IsFiniteSet(Appending(s)) /\ Len(turns[s]) + Appends(s) <= MaxTurns

\* Only closed sessions are enqueued, and nothing is known or paid of the others.
SessionInv ==
    /\ \A c \in Clients :
          /\ client[c].op = "append" => \E s \in Ids : client[c].todo = {s}
          /\ client[c].op = "enqueue" => \A s \in client[c].todo : sess[s] = "closed"
    /\ \A s \in sameMs : sess[s] = "closed"
    /\ \A s \in Ids :
          /\ sess[s] # "closed" => /\ job[s].status = "none"
                                   /\ billed[s] = 0 /\ shown[s] = {} /\ upto[s] = 0
          /\ job[s].status = "none" => job[s].attempts = 0
          /\ job[s].status = "queued" => job[s].attempts < MaxAttempts

\* An extraction is the only one of its session, whose turns it has all read.
RunOf(w) ==
    /\ run[w].at # "answered" => run[w].cost = 0
    /\ run[w].at # "idle" =>
          /\ job[run[w].s].status = "running"
          /\ \A v \in Workers : run[v].at # "idle" /\ run[v].s = run[w].s => v = w
    /\ run[w].at \in {"turns_read", "calling", "answered", "persisting", "marking"} =>
          run[w].n = Len(turns[run[w].s])
    /\ run[w].at \in {"calling", "answered", "persisting", "marking"} => run[w].from < run[w].n

RunInv == \A w \in Workers : RunOf(w)

\* What a session is charged, and what it may still be charged: the answer in
\* hand is paid for, and the ceiling had room for it.
LedgerRow(s) ==
    /\ ledger[s] <= billed[s]
    /\ Ceiling # 0 => ledger[s] < Ceiling + MaxCost

LedgerOf(w) ==
    LET s == run[w].s IN
    /\ run[w].at = "answered" =>
          /\ ledger[s] + run[w].cost <= billed[s]
          /\ Ceiling # 0 => ledger[s] + run[w].cost < Ceiling + MaxCost
    /\ Ceiling # 0 /\ run[w].at \in {"checked", "turns_read", "calling"} => ledger[s] < Ceiling

LedgerInv == (\A s \in Ids : LedgerRow(s)) /\ (\A w \in Workers : LedgerOf(w))

\* Each claim of a job allows one more call, and one not yet made is still allowed.
Allowed(s) == MaxCost * (MaxAttempts * requeues + job[s].attempts)

SpendInv ==
    /\ \A s \in Ids : billed[s] <= Allowed(s)
    /\ \A w \in Workers : \A s \in Ids :
          run[w].s = s /\ run[w].at \in {"claimed", "checked", "turns_read", "calling"} =>
             billed[s] + MaxCost <= Allowed(s)

\* The turns up to the watermark of a short session have been shown, and so have
\* those an extraction takes for done.
SeenRow(s) ==
    /\ shown[s] \subseteq DOMAIN turns[s]
    /\ Short(s) => 1..upto[s] \subseteq shown[s]
    /\ Short(s) /\ job[s].status = "done" => DOMAIN turns[s] \subseteq shown[s]

SeenOf(w) ==
    LET s == run[w].s IN
    /\ run[w].at = "calling" /\ Short(s) => 1..run[w].from \subseteq shown[s]
    /\ run[w].at \in {"answered", "persisting", "marking", "ok"} /\ Short(s) =>
          DOMAIN turns[s] \subseteq shown[s]

SeenInv == (\A s \in Ids : SeenRow(s)) /\ (\A w \in Workers : SeenOf(w))

\* A job that is not done although the watermark is at the last turn met a fault;
\* one that calls the model nevertheless met two.
MarkRow(s) ==
    upto[s] = Len(turns[s]) /\ upto[s] # 0 /\ job[s].status # "done"
    /\ (\A w \in Workers : ~(run[w].at = "ok" /\ run[w].s = s)) => faults >= 1

MarkOf(w) ==
    run[w].at = "calling" /\ upto[run[w].s] = Len(turns[run[w].s]) => faults >= 2

MarkInv == (\A s \in Ids : MarkRow(s)) /\ (\A w \in Workers : MarkOf(w))

IInv == TypeOK /\ RoomInv /\ SessionInv /\ RunInv /\ LedgerInv /\ SpendInv /\ SeenInv /\ MarkInv
-----------------------------------------------------------------------------
Runs == [at : Stages, s : 0..MaxSessions, n : 0..MaxTurns,
         from : 0..MaxTurns, cost : 0..MaxCost, left : 0..MaxCandidates]
Jobs == [status : {"none", "queued", "running", "done", "dead"}, attempts : 0..MaxAttempts]
Commands == [op : {"idle", "append", "close", "enqueue"}, todo : SUBSET Ids]

LEMMA Types ==
    ASSUME TypeOK
    PROVE  /\ Room \in Nat /\ Window \in Nat /\ MaxCost \in Nat /\ MaxAttempts \in Nat
           /\ Window # 0 /\ MaxCost # 0 /\ MaxAttempts # 0
           /\ Ceiling \in Nat /\ MaxCandidates \in Nat /\ MaxSessions \in Nat
           /\ MaxTurns \in Nat /\ MaxFaults \in Nat /\ MaxRequeues \in Nat
           /\ Sizes \subseteq Nat \ {0}
           /\ 0 \notin Ids /\ Ids \subseteq 0..MaxSessions
           /\ sess \in [Ids -> {"none", "open", "closed"}]
           /\ job \in [Ids -> Jobs]
           /\ ledger \in [Ids -> Nat] /\ billed \in [Ids -> Nat]
           /\ shown \in [Ids -> SUBSET (1..MaxTurns)]
           /\ client \in [Clients -> Commands]
           /\ run \in [Workers -> Runs]
           /\ \A w \in Workers : run[w].at # "idle" => run[w].s \in Ids
           /\ sameMs \subseteq Ids
           /\ faults \in 0..MaxFaults /\ faults \in Nat
           /\ \A kind : Strike(kind) => faults' \in 0..MaxFaults /\ faults' = faults + 1
<1>1. /\ Room \in Nat /\ Window \in Nat /\ MaxCost \in Nat /\ MaxAttempts \in Nat
      /\ Window # 0 /\ MaxCost # 0 /\ MaxAttempts # 0
      /\ Ceiling \in Nat /\ MaxCandidates \in Nat /\ MaxSessions \in Nat
      /\ MaxTurns \in Nat /\ MaxFaults \in Nat /\ MaxRequeues \in Nat
      /\ Sizes \subseteq Nat \ {0}
  BY ExtractionAssumption DEF ExtractionAssumption
<1>2. 0 \notin Ids /\ Ids \subseteq 0..MaxSessions
  BY <1>1 DEF Ids
<1>3. faults \in 0..MaxFaults /\ faults \in Nat
      /\ \A kind : Strike(kind) => faults' \in 0..MaxFaults /\ faults' = faults + 1
  BY <1>1 DEF TypeOK, Strike
<1> QED
  BY <1>1, <1>2, <1>3 DEF TypeOK, Runs, Jobs, Commands

\* Commands that append leave room for their turns.
LEMMA RoomStep ==
    ASSUME TypeOK, RoomInv, SessionInv, [Next]_vars
    PROVE  RoomInv'
<1>t. client \in [Clients -> Commands] /\ MaxTurns \in Nat /\ run \in [Workers -> Runs]
      /\ \A w \in Workers : run[w].at # "idle" => run[w].s \in Ids
  BY Types
<1> USE DEF RoomInv, Appends, Appending
<1>l. \A s \in Ids : /\ Len(turns[s]) \in Nat /\ Appends(s) = Cardinality(Appending(s))
                     /\ Cardinality(Appending(s)) \in Nat
  BY FS_CardinalityType, LenProperties
<1>1. ASSUME UNCHANGED <<client, turns>>, upto' \in [Ids -> Nat] PROVE RoomInv'
  BY <1>1
<1>2. ASSUME NEW c \in Clients, NEW op, op # "append", NEW todo, Goes(c, op, todo),
             UNCHANGED <<turns, upto>>
      PROVE  RoomInv'
  <2>1. ASSUME NEW s \in Ids
        PROVE  IsFiniteSet(Appending(s)') /\ Len(turns[s]) + Cardinality(Appending(s)') <= MaxTurns
    <3>1. Appending(s)' = Appending(s) \ {c}
      BY <1>2, <1>t DEF Goes
    <3>2. IsFiniteSet(Appending(s)') /\ Cardinality(Appending(s)') <= Cardinality(Appending(s))
      BY <1>l, <3>1, FS_Subset
    <3>3. Cardinality(Appending(s)') \in Nat
      BY <3>2, FS_CardinalityType
    <3> QED
      BY <1>l, <1>t, <3>2, <3>3
  <2> QED
    BY <1>2, <2>1
<1>3. ASSUME NEW c \in Clients, NEW op \in {"append", "close"}, Resolve(c, op) PROVE RoomInv'
  <2>1. PICK r \in Ids : /\ op = "append" => MaxTurns > Len(turns[r]) + Appends(r)
                         /\ Goes(c, op, {r})
    BY <1>3 DEF Resolve
  <2>2. CASE op = "append"
    <3>1. ASSUME NEW s \in Ids
          PROVE  /\ IsFiniteSet(Appending(s)')
                 /\ Len(turns[s]) + Cardinality(Appending(s)') <= MaxTurns
      <4>1. Appending(s)' = IF s = r THEN Appending(s) \cup {c} ELSE Appending(s)
        BY <1>3, <1>t, <2>1, <2>2 DEF Goes, Resolve
      <4>2. CASE s = r
        <5>1. IsFiniteSet(Appending(s)) /\ Cardinality(Appending(s)) \in Nat
          BY <1>l
        <5>2. Len(turns[s]) + Cardinality(Appending(s)) < MaxTurns /\ Len(turns[s]) \in Nat
          BY <1>l, <2>1, <2>2, <4>2
        <5> HIDE DEF Appending, Appends, RoomInv
        <5>3. IsFiniteSet(Appending(s)')
              /\ Cardinality(Appending(s)') =
                    IF c \in Appending(s) THEN Cardinality(Appending(s)) ELSE Cardinality(Appending(s)) + 1
          BY <4>1, <4>2, <5>1, FS_AddElement
        <5> QED
          BY <1>t, <5>1, <5>2, <5>3
      <4> QED
        BY <4>1, <4>2
    <3> QED
      BY <1>3, <3>1 DEF Resolve, db
  <2>3. CASE op = "close"
    BY <1>2, <1>3, <2>1, <2>3 DEF Resolve, db
  <2> QED
    BY <2>2, <2>3
<1>4. ASSUME NEW c \in Clients, AppendTurn(c) PROVE RoomInv'
  <2>1. PICK r \in Ids : client[c].todo = {r}
    BY <1>4 DEF AppendTurn, SessionInv
  <2>2. CASE UNCHANGED turns
    BY <1>2, <1>4, <2>2 DEF AppendTurn
  <2>3. ASSUME NEW size \in Sizes, turns' = [turns EXCEPT ![r] = Append(@, size)] PROVE RoomInv'
    <3>1. /\ Append(turns[r], size) \in Seq(Sizes)
          /\ Len(Append(turns[r], size)) = Len(turns[r]) + 1
      BY AppendProperties
    <3>2. turns' \in [Ids -> Seq(Sizes)] /\ upto' = upto
      BY <1>4, <2>3, <3>1 DEF AppendTurn
    <3>3. ASSUME NEW s \in Ids
          PROVE  /\ IsFiniteSet(Appending(s)')
                 /\ Len(turns'[s]) + Cardinality(Appending(s)') <= MaxTurns
      <4>1. Appending(s)' = Appending(s) \ {c}
        BY <1>4, <1>t DEF AppendTurn, Goes
      <4>2. s = r => c \in Appending(s)
        BY <1>4, <2>1 DEF AppendTurn
      <4>3. IsFiniteSet(Appending(s)') /\ Cardinality(Appending(s)') =
                IF c \in Appending(s) THEN Cardinality(Appending(s)) - 1 ELSE Cardinality(Appending(s))
        <5>1. IsFiniteSet(Appending(s))
          BY <1>l
        <5> HIDE DEF Appending, Appends, RoomInv
        <5> QED
          BY <4>1, <5>1, FS_RemoveElement
      <4>4. Len(turns'[s]) = IF s = r THEN Len(turns[s]) + 1 ELSE Len(turns[s])
        BY <2>3, <3>1
      <4>5. /\ Cardinality(Appending(s)) \in Nat /\ Len(turns[s]) \in Nat
            /\ Len(turns[s]) + Cardinality(Appending(s)) <= MaxTurns
        BY <1>l
      <4> HIDE DEF Appending
      <4> QED
        BY <1>t, <4>2, <4>3, <4>4, <4>5
    <3> QED
      BY <3>2, <3>3
  <2> QED
    BY <1>4, <2>1, <2>2, <2>3 DEF AppendTurn
<1>5. ASSUME NEW c \in Clients, CloseSession(c) PROVE RoomInv'
  BY <1>2, <1>5 DEF CloseSession
<1>6. ASSUME NEW c \in Clients, EnqueueExtract(c) PROVE RoomInv'
  <2>1. \E op, todo : op # "append" /\ Goes(c, op, todo)
    BY <1>6 DEF EnqueueExtract
  <2> QED
    BY <1>2, <1>6, <2>1 DEF EnqueueExtract
<1>7. ASSUME NEW c \in Clients, CloseIdle(c) \/ ClientCrash(c) PROVE RoomInv'
  BY <1>2, <1>7 DEF CloseIdle, ClientCrash, db
<1>8. ASSUME NEW w \in Workers, Mark(w) PROVE RoomInv'
  <2>1. run[w].n \in Nat /\ run[w].from \in Nat
    BY <1>t DEF Runs
  <2> QED
    BY <1>1, <1>8, <2>1 DEF Mark, LastSeq
<1>9. ASSUME UNCHANGED <<client, turns, upto>> PROVE RoomInv'
  BY <1>1, <1>9
<1> QED
  BY <1>3, <1>4, <1>5, <1>6, <1>7, <1>8, <1>9
  DEF Next, ClientStep, OpenSession, Tick, WorkerStep, Claim, CheckBudget, ReadTurns, ReadUpto,
      Complete, Record, Persist, Finish, RequeueDead, WorkerCrash, db, vars

\* Every step keeps the types.
LEMMA TypeStep ==
    ASSUME TypeOK, RoomInv, RoomInv', SessionInv, RunInv, [Next]_vars
    PROVE  TypeOK'
<1>t. /\ Ceiling \in Nat /\ MaxCandidates \in Nat /\ MaxSessions \in Nat /\ MaxAttempts \in Nat
      /\ MaxTurns \in Nat /\ MaxFaults \in Nat /\ MaxRequeues \in Nat /\ MaxCost \in Nat
      /\ 0 \notin Ids /\ Ids \subseteq 0..MaxSessions
      /\ sess \in [Ids -> {"none", "open", "closed"}]
      /\ job \in [Ids -> Jobs]
      /\ ledger \in [Ids -> Nat] /\ billed \in [Ids -> Nat]
      /\ shown \in [Ids -> SUBSET (1..MaxTurns)]
      /\ client \in [Clients -> Commands]
      /\ run \in [Workers -> Runs]
      /\ \A w \in Workers : run[w].at # "idle" => run[w].s \in Ids
      /\ sameMs \subseteq Ids
      /\ faults \in 0..MaxFaults /\ requeues \in 0..MaxRequeues
      /\ \A kind : Strike(kind) => faults' \in 0..MaxFaults
  BY Types DEF TypeOK
<1>l. /\ \A s \in Ids : turns[s] \in Seq(Sizes) /\ turns'[s] \in Seq(Sizes)
                        /\ Len(turns[s]) \in Nat /\ Len(turns[s]) <= MaxTurns
                        /\ upto[s] \in 0..Len(turns[s])
  <2>1. \A s \in Ids : turns[s] \in Seq(Sizes) /\ turns'[s] \in Seq(Sizes) /\ Len(turns[s]) \in Nat
    BY LenProperties DEF RoomInv
  <2>2. \A s \in Ids : Appends(s) \in Nat /\ Len(turns[s]) + Appends(s) <= MaxTurns
    BY FS_CardinalityType DEF RoomInv, Appends, Appending
  <2>3. \A s \in Ids : upto[s] \in 0..Len(turns[s])
    BY DEF TypeOK
  <2> QED
    BY <1>t, <2>1, <2>2, <2>3
\* The types, as what a step has to establish of what it changes.
<1> DEFINE UptoTyped == \A s \in Ids : upto'[s] \in 0..Len(turns'[s])
           RunTyped == run' \in [Workers -> Runs] /\ \A w \in Workers : run'[w].at # "idle" => run'[w].s \in Ids
           SpendTyped == /\ ledger' \in [Ids -> Nat] /\ billed' \in [Ids -> Nat]
                         /\ shown' \in [Ids -> SUBSET (1..MaxTurns)]
           BoundsTyped == faults' \in 0..MaxFaults /\ requeues' \in 0..MaxRequeues
<1>q. ASSUME sess' \in [Ids -> {"none", "open", "closed"}], UptoTyped, job' \in [Ids -> Jobs],
             SpendTyped, client' \in [Clients -> Commands], RunTyped, sameMs' \subseteq Ids,
             BoundsTyped
      PROVE  TypeOK'
  BY <1>l, <1>q DEF TypeOK, Jobs, Commands, Runs
<1>u. /\ UNCHANGED <<turns, upto>> => UptoTyped
      /\ UNCHANGED run => RunTyped
      /\ UNCHANGED spend => SpendTyped
      /\ UNCHANGED bounds => BoundsTyped
  BY <1>t, <1>l DEF spend, bounds
<1>r. ASSUME NEW w \in Workers, NEW r \in Runs, r.at # "idle" => r.s \in Ids,
             run' = [run EXCEPT ![w] = r]
      PROVE  RunTyped
  BY <1>t, <1>r
<1>i. IdleRun \in Runs /\ IdleRun.at = "idle"
  BY <1>t DEF IdleRun, Runs, Stages
<1>g. ASSUME NEW c \in Clients, NEW op \in {"idle", "append", "close", "enqueue"}, NEW todo \in SUBSET Ids,
             Goes(c, op, todo)
      PROVE  client' \in [Clients -> Commands]
  BY <1>t, <1>g DEF Goes, Commands
<1>j. ASSUME NEW s \in Ids, NEW j \in Jobs, job' = [job EXCEPT ![s] = j]
      PROVE  job' \in [Ids -> Jobs]
  BY <1>t, <1>j
<1> HIDE DEF UptoTyped, RunTyped, SpendTyped, BoundsTyped
<1>1. ASSUME NEW c \in Clients, OpenSession(c) PROVE TypeOK'
  BY <1>1, <1>q, <1>t, <1>u DEF OpenSession
<1>2. ASSUME NEW c \in Clients, NEW op \in {"append", "close"}, Resolve(c, op) PROVE TypeOK'
  BY <1>2, <1>g, <1>q, <1>t, <1>u DEF Resolve, db
<1>3. ASSUME NEW c \in Clients, AppendTurn(c) PROVE TypeOK'
  <2>1. UptoTyped
    <3>1. ASSUME NEW s \in Ids PROVE Len(turns'[s]) \in Nat /\ Len(turns'[s]) >= Len(turns[s])
      <4>1. CASE UNCHANGED turns
        BY <1>l, <4>1
      <4>2. ASSUME NEW r \in Ids, NEW size \in Sizes, turns' = [turns EXCEPT ![r] = Append(@, size)]
            PROVE  Len(turns'[s]) \in Nat /\ Len(turns'[s]) >= Len(turns[s])
        BY <1>l, <4>2, AppendProperties DEF RoomInv
      <4> QED
        BY <1>3, <1>t, <4>1, <4>2 DEF AppendTurn, Commands
    <3> QED
      BY <1>3, <1>l, <3>1 DEF AppendTurn, UptoTyped
  <2> QED
    BY <1>3, <1>g, <1>q, <1>t, <1>u, <2>1 DEF AppendTurn
<1>4. ASSUME NEW c \in Clients, CloseSession(c) PROVE TypeOK'
  <2>1. PICK s \in client[c].todo :
              \/ sess' = [sess EXCEPT ![s] = "closed"] /\ Goes(c, "enqueue", {s})
              \/ UNCHANGED sess /\ Goes(c, "idle", {})
    BY <1>4 DEF CloseSession
  <2>2. s \in Ids
    BY <1>t DEF Commands
  <2> QED
    BY <1>4, <1>g, <1>q, <1>t, <1>u, <2>1, <2>2 DEF CloseSession
<1>5. ASSUME NEW c \in Clients, CloseIdle(c) PROVE TypeOK'
  <2>1. PICK idle \in SUBSET Ids : /\ sess' = [s \in Ids |-> IF s \in idle THEN "closed" ELSE sess[s]]
                                   /\ Goes(c, "enqueue", Returned(idle))
                                   /\ sameMs' = sameMs \cup idle
    BY <1>5 DEF CloseIdle
  <2>2. sess' \in [Ids -> {"none", "open", "closed"}] /\ Returned(idle) \in SUBSET Ids /\ sameMs' \subseteq Ids
    BY <1>t, <2>1 DEF Returned
  <2> QED
    BY <1>5, <1>g, <1>q, <1>t, <1>u, <2>1, <2>2 DEF CloseIdle
<1>6. ASSUME NEW c \in Clients, EnqueueExtract(c) PROVE TypeOK'
  <2>1. PICK s \in client[c].todo : /\ \/ job' = Enqueued(s) /\ UNCHANGED faults
                                       \/ Strike("enqueue") /\ UNCHANGED job
                                    /\ LET rest == client[c].todo \ {s}
                                       IN  Goes(c, IF rest = {} THEN "idle" ELSE "enqueue", rest)
    BY <1>6 DEF EnqueueExtract
  <2>2. s \in Ids /\ client[c].todo \ {s} \in SUBSET Ids
    BY <1>t DEF Commands
  <2>3. job' \in [Ids -> Jobs]
    <3>1. [job[s] EXCEPT !.status = "queued"] \in Jobs
      BY <1>t, <2>2 DEF Jobs
    <3> QED
      BY <1>j, <1>t, <2>1, <2>2, <3>1 DEF Enqueued
  <2>4. BoundsTyped
    BY <1>6, <1>t, <2>1 DEF EnqueueExtract, BoundsTyped
  <2>5. client' \in [Clients -> Commands]
    BY <1>g, <2>1, <2>2
  <2> QED
    BY <1>6, <1>q, <1>t, <1>u, <2>3, <2>4, <2>5 DEF EnqueueExtract
<1>7. ASSUME NEW c \in Clients, ClientCrash(c) PROVE TypeOK'
  BY <1>7, <1>g, <1>q, <1>t, <1>u DEF ClientCrash, BoundsTyped, db
<1>8. ASSUME Tick PROVE TypeOK'
  BY <1>8, <1>q, <1>t, <1>u DEF Tick, db
<1>9. ASSUME NEW w \in Workers, Claim(w) PROVE TypeOK'
  <2>1. PICK s \in Ids : /\ job[s].status = "queued"
                         /\ job' = [job EXCEPT ![s] = [status |-> "running", attempts |-> @.attempts + 1]]
                         /\ run' = [run EXCEPT ![w] = [IdleRun EXCEPT !.at = "claimed", !.s = s]]
    BY <1>9 DEF Claim
  <2>2. [status |-> "running", attempts |-> job[s].attempts + 1] \in Jobs
    <3>1. job[s].attempts \in Nat /\ job[s].attempts < MaxAttempts
      BY <1>t, <2>1 DEF SessionInv, Jobs
    <3> QED
      BY <1>t, <3>1 DEF Jobs
  <2>3. [IdleRun EXCEPT !.at = "claimed", !.s = s] \in Runs /\ [IdleRun EXCEPT !.at = "claimed", !.s = s].s = s
    <3>1. IdleRun \in Runs /\ s \in 0..MaxSessions
      BY <1>i, <1>t
    <3> QED
      BY <3>1 DEF Runs, Stages
  <2>4. job' \in [Ids -> Jobs]
    BY <1>j, <1>t, <2>1, <2>2
  <2>5. RunTyped
    BY <1>r, <2>1, <2>3
  <2> QED
    BY <1>9, <1>q, <1>t, <1>u, <2>4, <2>5 DEF Claim
<1>m. ASSUME NEW w \in Workers, NEW stage \in Stages, run[w].at # "idle", Moves(w, stage) PROVE RunTyped
  BY <1>m, <1>r, <1>t, ZenonT(30) DEF Moves, Runs
<1> USE DEF At
<1>10. ASSUME NEW w \in Workers, CheckBudget(w) PROVE TypeOK'
  BY <1>10, <1>m, <1>q, <1>t, <1>u DEF CheckBudget, Stages, db
<1>11. ASSUME NEW w \in Workers, ReadTurns(w) PROVE TypeOK'
  <2>1. run[w] \in Runs /\ run[w].s \in Ids /\ Len(turns[run[w].s]) \in 0..MaxTurns
    BY <1>11, <1>l, <1>t DEF ReadTurns
  <2>2. [run[w] EXCEPT !.at = "turns_read", !.n = Len(turns[run[w].s])] \in Runs
    BY <2>1 DEF Runs, Stages
  <2>3. run' = [run EXCEPT ![w] = [run[w] EXCEPT !.at = "turns_read", !.n = Len(turns[run[w].s])]]
    BY <1>11, <1>t DEF ReadTurns
  <2>4. RunTyped
    BY <1>r, <2>1, <2>2, <2>3 DEF Runs
  <2> QED
    BY <1>11, <1>q, <1>t, <1>u, <2>4 DEF ReadTurns, db
<1>12. ASSUME NEW w \in Workers, ReadUpto(w) PROVE TypeOK'
  <2>1. run[w] \in Runs /\ run[w].s \in Ids /\ upto[run[w].s] \in 0..MaxTurns /\ 0 \in 0..MaxTurns
    <3>1. run[w] \in Runs /\ run[w].s \in Ids
      BY <1>12, <1>t DEF ReadUpto
    <3>2. /\ upto[run[w].s] \in 0..Len(turns[run[w].s])
          /\ Len(turns[run[w].s]) \in Nat /\ Len(turns[run[w].s]) <= MaxTurns
      BY <1>l, <3>1
    <3> QED
      BY <1>t, <3>1, <3>2
  <2>2. PICK from \in {upto[run[w].s], 0} :
               /\ faults' \in 0..MaxFaults
               /\ run' = [run EXCEPT ![w].from = from,
                                     ![w].at = IF HasFresh(run[w].n, from) THEN "calling" ELSE "ok"]
    BY <1>12, <1>t DEF ReadUpto
  <2>3. from \in 0..MaxTurns
    BY <2>1
  <2>4. PICK stage \in {"calling", "ok"} :
               run' = [run EXCEPT ![w] = [run[w] EXCEPT !.from = from, !.at = stage]]
    BY <1>t, <2>2
  <2>5. [run[w] EXCEPT !.from = from, !.at = stage] \in Runs
    BY <2>1, <2>3 DEF Runs, Stages
  <2>6. RunTyped
    BY <1>r, <2>1, <2>4, <2>5 DEF Runs
  <2> QED
    BY <1>12, <1>q, <1>t, <1>u, <2>2, <2>6 DEF ReadUpto, BoundsTyped, db
<1>13. ASSUME NEW w \in Workers, Complete(w) PROVE TypeOK'
  <2> DEFINE s == run[w].s
  <2>1. run[w] \in Runs /\ s \in Ids /\ run[w].n = Len(turns[s])
    BY <1>13, <1>t DEF Complete, RunInv, RunOf
  <2>2. Prompt(s, run[w].from, run[w].n) \in SUBSET (1..MaxTurns)
    <3>1. /\ run[w].n \in Nat /\ run[w].from \in Nat /\ run[w].n <= MaxTurns
          /\ Window \in Nat /\ Window # 0
      BY <1>t, <2>1, Types DEF Runs
    <3> QED
      BY <1>t, <3>1 DEF Prompt
  <2>3. CASE Moves(w, "err") /\ UNCHANGED spend
    BY <1>13, <1>m, <1>q, <1>t, <1>u, <2>3 DEF Complete, Stages, db
  <2>4. ASSUME NEW cost \in 1..MaxCost, Paid(s, cost),
               Moves(w, "err"), UNCHANGED <<ledger, shown>>
        PROVE  TypeOK'
    <3>1. cost \in Nat
      BY <1>t
    <3>2. billed[s] + cost \in Nat
      <4>1. billed[s] \in Nat
        BY <1>t, <2>1
      <4> QED
        BY <3>1, <4>1
    <3>3. SpendTyped
      BY <1>t, <2>4, <3>2 DEF Paid, SpendTyped
    <3> QED
      BY <1>13, <1>m, <1>q, <1>t, <1>u, <2>4, <3>3 DEF Complete, Stages, db
  <2>5. ASSUME NEW cost \in 1..MaxCost, NEW k \in 0..MaxCandidates, Paid(s, cost),
               shown' = [shown EXCEPT ![s] = @ \cup Prompt(s, run[w].from, run[w].n)],
               run' = [run EXCEPT ![w].at = "answered", ![w].cost = cost, ![w].left = k],
               UNCHANGED ledger
        PROVE  TypeOK'
    <3>1. cost \in Nat /\ cost \in 0..MaxCost
      BY <1>t
    <3>2. SpendTyped
      <4>1. billed[s] + cost \in Nat
        <5>1. billed[s] \in Nat
          BY <1>t, <2>1
        <5> QED
          BY <3>1, <5>1
      <4>2. shown[s] \cup Prompt(s, run[w].from, run[w].n) \in SUBSET (1..MaxTurns)
        BY <1>t, <2>1, <2>2
      <4>3. billed' \in [Ids -> Nat]
        BY <1>t, <2>5, <4>1 DEF Paid
      <4>4. shown' \in [Ids -> SUBSET (1..MaxTurns)]
        BY <1>t, <2>5, <4>2
      <4> QED
        BY <1>t, <2>5, <4>3, <4>4 DEF SpendTyped
    <3>3. [run[w] EXCEPT !.at = "answered", !.cost = cost, !.left = k] \in Runs
      BY <2>1, <3>1 DEF Runs, Stages
    <3>4. run' = [run EXCEPT ![w] = [run[w] EXCEPT !.at = "answered", !.cost = cost, !.left = k]]
      BY <1>t, <2>5
    <3>5. RunTyped
      BY <1>r, <2>1, <3>3, <3>4 DEF Runs
    <3> QED
      BY <1>13, <1>q, <1>t, <1>u, <2>5, <3>2, <3>5 DEF Complete, db
  <2> QED
    BY <1>13, <2>3, <2>4, <2>5 DEF Complete
<1>14. ASSUME NEW w \in Workers, Record(w) PROVE TypeOK'
  <2>1. run[w] \in Runs /\ run[w].s \in Ids /\ run[w].cost \in Nat
    BY <1>14, <1>t DEF Record, Runs
  <2>2. [run[w] EXCEPT !.at = "persisting", !.cost = 0] \in Runs
    <3>1. 0 \in 0..MaxCost
      BY <1>t
    <3> QED
      BY <2>1, <3>1 DEF Runs, Stages
  <2>3. run' = [run EXCEPT ![w] = [run[w] EXCEPT !.at = "persisting", !.cost = 0]]
    BY <1>14, <1>t DEF Record
  <2>4. RunTyped
    BY <1>r, <2>1, <2>2, <2>3 DEF Runs
  <2>5. SpendTyped
    BY <1>14, <1>t, <2>1 DEF Record, Charged, SpendTyped
  <2>6. BoundsTyped
    BY <1>14, <1>t DEF Record, BoundsTyped
  <2> QED
    BY <1>14, <1>q, <1>t, <1>u, <2>4, <2>5, <2>6 DEF Record, db
<1>15. ASSUME NEW w \in Workers, Persist(w) PROVE TypeOK'
  <2>1. run[w] \in Runs /\ run[w].s \in Ids /\ run[w].left \in 0..MaxCandidates
    BY <1>15, <1>t DEF Persist, Runs
  <2>2. ASSUME run[w].left > 0, run' = [run EXCEPT ![w].left = @ - 1] PROVE RunTyped
    <3>1. run[w].left - 1 \in 0..MaxCandidates
      BY <1>t, <2>1, <2>2
    <3>2. [run[w] EXCEPT !.left = @ - 1] \in Runs
      BY <2>1, <3>1 DEF Runs
    <3> QED
      BY <1>r, <1>t, <2>1, <2>2, <3>2 DEF Runs
  <2> QED
    BY <1>15, <1>m, <1>q, <1>t, <1>u, <2>2 DEF Persist, Stages, db
<1>16. ASSUME NEW w \in Workers, Mark(w) PROVE TypeOK'
  <2> DEFINE s == run[w].s
  <2>1. s \in Ids /\ run[w].n = Len(turns[s]) /\ run[w].from < run[w].n
        /\ run[w].n \in Nat /\ run[w].from \in Nat
    BY <1>16, <1>t DEF Mark, RunInv, RunOf, Runs
  <2>2. UptoTyped
    <3>1. CASE UNCHANGED upto
      BY <1>16, <1>u, <3>1 DEF Mark
    <3>2. CASE upto' = [upto EXCEPT ![s] = LastSeq(run[w])]
      BY <1>16, <1>l, <2>1, <3>2 DEF Mark, LastSeq, UptoTyped, RoomInv
    <3> QED
      BY <1>16, <3>1, <3>2 DEF Mark
  <2>3. RunTyped /\ BoundsTyped
    BY <1>16, <1>m, <1>t DEF Mark, Stages, BoundsTyped
  <2> QED
    BY <1>16, <1>q, <1>t, <1>u, <2>2, <2>3 DEF Mark
<1>17. ASSUME NEW w \in Workers, Finish(w) PROVE TypeOK'
  <2>1. PICK status \in {"done", "queued", "dead"} : job' = [job EXCEPT ![run[w].s].status = status]
    BY <1>17 DEF Finish, FailedStatus
  <2>a. run[w].s \in Ids
    BY <1>17, <1>t DEF Finish, At
  <2>b. job[run[w].s] \in Jobs
    BY <1>t, <2>a
  <2>2. [job[run[w].s] EXCEPT !.status = status] \in Jobs /\ run[w].s \in Ids
    BY <2>a, <2>b DEF Jobs
  <2>3. job' \in [Ids -> Jobs]
    BY <1>j, <2>1, <2>2
  <2> QED
    BY <1>17, <1>i, <1>q, <1>r, <1>t, <1>u, <2>3 DEF Finish
<1>18. ASSUME NEW w \in Workers, WorkerCrash(w) PROVE TypeOK'
  BY <1>18, <1>i, <1>q, <1>r, <1>t, <1>u DEF WorkerCrash, BoundsTyped, db
<1>19. ASSUME NEW s \in Ids, RequeueDead(s) PROVE TypeOK'
  <2>1. [status |-> "queued", attempts |-> 0] \in Jobs
    BY <1>t DEF Jobs
  <2>2. job' \in [Ids -> Jobs]
    BY <1>19, <1>j, <2>1 DEF RequeueDead
  <2>3. BoundsTyped
    BY <1>19, <1>t DEF RequeueDead, BoundsTyped
  <2> QED
    BY <1>19, <1>q, <1>t, <1>u, <2>2, <2>3 DEF RequeueDead
<1>20. ASSUME UNCHANGED vars PROVE TypeOK'
  BY <1>20, <1>q, <1>t, <1>u DEF vars, spend, bounds
<1> QED
  BY <1>1, <1>2, <1>3, <1>4, <1>5, <1>6, <1>7, <1>8, <1>9, <1>10, <1>11, <1>12, <1>13, <1>14, <1>15,
     <1>16, <1>17, <1>18, <1>19, <1>20
  DEF Next, ClientStep, WorkerStep

\* A session under extraction is closed.
LEMMA ExtractedIsClosed ==
    ASSUME TypeOK, SessionInv, RunInv, NEW w \in Workers, run[w].at # "idle"
    PROVE  run[w].s \in Ids /\ job[run[w].s].status = "running" /\ sess[run[w].s] = "closed"
  BY Types DEF SessionInv, RunInv, RunOf

\* Nothing but a closed session is enqueued, extracted or paid for.
LEMMA SessionStep ==
    ASSUME TypeOK, RoomInv, SessionInv, RunInv, [Next]_vars
    PROVE  SessionInv'
<1>t. /\ sess \in [Ids -> {"none", "open", "closed"}]
      /\ job \in [Ids -> Jobs]
      /\ billed \in [Ids -> Nat] /\ DOMAIN shown = Ids /\ \A s \in Ids : upto[s] \in Nat
      /\ client \in [Clients -> Commands]
      /\ MaxAttempts \in Nat /\ MaxAttempts # 0 /\ sameMs \subseteq Ids
  <2>1. \A s \in Ids : upto[s] \in Nat
    BY DEF TypeOK
  <2> QED
    BY <2>1, Types
<1>x. \A w \in Workers : run[w].at # "idle" =>
          run[w].s \in Ids /\ job[run[w].s].status = "running" /\ sess[run[w].s] = "closed"
  BY ExtractedIsClosed
\* SessionInv in three parts.
<1> DEFINE Cmds == \A c \in Clients :
                      /\ client[c].op = "append" => \E s \in Ids : client[c].todo = {s}
                      /\ client[c].op = "enqueue" => \A s \in client[c].todo : sess[s] = "closed"
           Row(s) == /\ sess[s] # "closed" => /\ job[s].status = "none"
                                              /\ billed[s] = 0 /\ shown[s] = {} /\ upto[s] = 0
                     /\ job[s].status = "none" => job[s].attempts = 0
                     /\ job[s].status = "queued" => job[s].attempts < MaxAttempts
           Closed == \A s \in Ids : sess[s] = "closed" => sess'[s] = "closed"
<1>0. /\ Cmds /\ \A s \in sameMs : sess[s] = "closed"
      /\ \A s \in Ids : Row(s)
  BY DEF SessionInv
<1>q. ASSUME Cmds', \A s \in sameMs' : sess'[s] = "closed", \A s \in Ids : Row(s)' PROVE SessionInv'
  BY <1>q DEF SessionInv
<1>c. ASSUME NEW c \in Clients, NEW op \in {"idle", "append", "close", "enqueue"}, NEW todo \in SUBSET Ids,
             Goes(c, op, todo), Closed,
             op = "append" => \E s \in Ids : todo = {s},
             op = "enqueue" => \A s \in todo : sess'[s] = "closed"
      PROVE  Cmds'
  <2>1. \A d \in Clients : client'[d] = IF d = c THEN [op |-> op, todo |-> todo] ELSE client[d]
    BY <1>c, <1>t DEF Goes
  <2>2. \A d \in Clients : client[d].todo \subseteq Ids
    BY <1>t DEF Commands
  <2> QED
    BY <1>0, <1>c, <2>1, <2>2
<1>u. /\ UNCHANGED <<client, sess>> => Cmds'
      /\ UNCHANGED <<sess, job, billed, shown, upto>> => \A s \in Ids : Row(s)'
  BY <1>0
<1> HIDE DEF Cmds
<1>1. ASSUME NEW c \in Clients, OpenSession(c) PROVE SessionInv'
  <2>1. Closed
    BY <1>1, <1>t DEF OpenSession, Opened
  <2>2. Cmds'
    BY <1>0, <1>1, <1>t, <2>1 DEF OpenSession, Cmds, Commands
  <2>3. \A s \in Ids : Row(s)'
    BY <1>0, <1>1, <1>t DEF OpenSession, Opened, spend
  <2> QED
    BY <1>0, <1>1, <1>q, <1>t, <2>1, <2>2, <2>3 DEF OpenSession
<1>2. ASSUME NEW c \in Clients, NEW op \in {"append", "close"}, Resolve(c, op) PROVE SessionInv'
  <2>1. PICK s \in Ids : Goes(c, op, {s})
    BY <1>2 DEF Resolve
  <2>2. UNCHANGED <<sess, job, billed, shown, upto, sameMs>>
    BY <1>2 DEF Resolve, db, spend
  <2>3. Cmds'
    BY <1>c, <2>1, <2>2
  <2> QED
    BY <1>0, <1>q, <1>u, <2>2, <2>3
<1>3. ASSUME NEW c \in Clients, AppendTurn(c) PROVE SessionInv'
  BY <1>0, <1>3, <1>c, <1>q, <1>t, <1>u DEF AppendTurn, spend
<1>4. ASSUME NEW c \in Clients, CloseSession(c) PROVE SessionInv'
  <2>1. PICK s \in client[c].todo :
              \/ sess' = [sess EXCEPT ![s] = "closed"] /\ Goes(c, "enqueue", {s})
              \/ UNCHANGED sess /\ Goes(c, "idle", {})
    BY <1>4 DEF CloseSession
  <2>2. s \in Ids
    BY <1>t DEF Commands
  <2>3. Closed /\ Cmds'
    BY <1>c, <1>t, <2>1, <2>2
  <2>4. \A r \in Ids : Row(r)'
    BY <1>0, <1>4, <1>t, <2>1, <2>2 DEF CloseSession, spend
  <2> QED
    BY <1>0, <1>4, <1>q, <1>t, <2>3, <2>4 DEF CloseSession
<1>5. ASSUME NEW c \in Clients, CloseIdle(c) PROVE SessionInv'
  <2>1. PICK idle \in SUBSET Ids : /\ sess' = [s \in Ids |-> IF s \in idle THEN "closed" ELSE sess[s]]
                                   /\ Goes(c, "enqueue", Returned(idle))
                                   /\ sameMs' = sameMs \cup idle
    BY <1>5 DEF CloseIdle
  <2>2. Closed /\ (\A s \in sameMs' : sess'[s] = "closed") /\ Returned(idle) = sameMs'
    BY <1>0, <1>t, <2>1 DEF Returned
  <2>3. Cmds'
    BY <1>c, <1>t, <2>1, <2>2
  <2>4. \A r \in Ids : Row(r)'
    BY <1>0, <1>5, <1>t, <2>1 DEF CloseIdle, spend
  <2> QED
    BY <1>q, <2>2, <2>3, <2>4
<1>6. ASSUME NEW c \in Clients, EnqueueExtract(c) PROVE SessionInv'
  <2>1. PICK s \in client[c].todo : /\ job' \in {Enqueued(s), job}
                                    /\ LET rest == client[c].todo \ {s}
                                       IN  Goes(c, IF rest = {} THEN "idle" ELSE "enqueue", rest)
    BY <1>6 DEF EnqueueExtract
  <2>2. s \in Ids /\ client[c].todo \ {s} \in SUBSET Ids /\ client[c].op = "enqueue"
    BY <1>6, <1>t DEF Commands, EnqueueExtract
  <2>3. /\ \A r \in client[c].todo : sess[r] = "closed"
        /\ UNCHANGED <<sess, billed, shown, upto, sameMs>>
    BY <1>0, <1>6, <2>2 DEF Cmds, EnqueueExtract, spend
  <2>4. Cmds'
    BY <1>c, <2>1, <2>2, <2>3
  <2>5. \A r \in Ids : Row(r)'
    <3>1. job' = Enqueued(s) => \A r \in Ids : job'[r].attempts = job[r].attempts
                                               /\ (r # s => job'[r] = job[r])
      BY <1>t, <2>2 DEF Enqueued, Jobs
    <3>2. job' = Enqueued(s) => job'[s].status # "none"
                                /\ (job[s].status # "none" => job'[s] = job[s])
      BY <1>t, <2>2 DEF Enqueued, Jobs
    <3>3. CASE job' = Enqueued(s)
      <4>1. ASSUME NEW r \in Ids, r # s PROVE Row(r)'
        BY <1>0, <2>3, <3>1, <3>3, <4>1
      <4>2. Row(s)'
        BY <1>0, <1>t, <2>2, <2>3, <3>1, <3>2, <3>3
      <4> QED
        BY <4>1, <4>2
    <3> QED
      BY <1>u, <2>1, <2>3, <3>3
  <2> QED
    BY <1>0, <1>q, <2>3, <2>4, <2>5
<1>7. ASSUME NEW c \in Clients, ClientCrash(c) PROVE SessionInv'
  BY <1>0, <1>7, <1>c, <1>q, <1>t, <1>u DEF ClientCrash, db, spend
<1>8. ASSUME Tick PROVE SessionInv'
  BY <1>8, <1>q, <1>u DEF Tick, db, spend
<1>9. ASSUME NEW w \in Workers, Claim(w) PROVE SessionInv'
  <2>1. PICK s \in Ids : /\ job[s].status = "queued"
                         /\ job' = [job EXCEPT ![s] = [status |-> "running", attempts |-> @.attempts + 1]]
    BY <1>9 DEF Claim
  <2>2. \A r \in Ids : IF r = s THEN job'[r].status = "running" ELSE job'[r] = job[r]
    BY <1>t, <2>1
  <2>3. \A r \in Ids : Row(r)'
    BY <1>0, <1>9, <2>1, <2>2 DEF Claim, spend
  <2> QED
    BY <1>0, <1>9, <1>q, <1>u, <2>3 DEF Claim
<1> USE DEF At
<1>10. ASSUME NEW w \in Workers, Complete(w) PROVE SessionInv'
  <2>1. run[w].s \in Ids /\ sess[run[w].s] = "closed"
    BY <1>10, <1>x DEF Complete
  <2>2. \A r \in Ids : r # run[w].s => billed'[r] = billed[r] /\ shown'[r] = shown[r]
    BY <1>10, <1>t, <2>1 DEF Complete, Paid, spend
  <2>3. UNCHANGED <<sess, job, upto, sameMs, client>>
    BY <1>10 DEF Complete, db
  <2>4. \A r \in Ids : Row(r)'
    BY <1>0, <2>1, <2>2, <2>3
  <2> QED
    BY <1>0, <1>q, <1>u, <2>3, <2>4
<1>11. ASSUME NEW w \in Workers, Mark(w) PROVE SessionInv'
  <2>1. run[w].s \in Ids /\ sess[run[w].s] = "closed"
    BY <1>11, <1>x DEF Mark
  <2>2. \A r \in Ids : r # run[w].s => upto'[r] = upto[r]
    BY <1>11 DEF Mark, RoomInv
  <2>3. \A r \in Ids : Row(r)'
    BY <1>0, <1>11, <2>1, <2>2 DEF Mark, spend
  <2> QED
    BY <1>0, <1>11, <1>q, <1>u, <2>3 DEF Mark
<1>12. ASSUME NEW w \in Workers, Finish(w) PROVE SessionInv'
  <2>1. run[w].s \in Ids /\ sess[run[w].s] = "closed"
    BY <1>12, <1>x DEF Finish
  <2>2. PICK status \in {"done", "queued", "dead"} :
               /\ job' = [job EXCEPT ![run[w].s].status = status]
               /\ status = "queued" => job[run[w].s].attempts < MaxAttempts
    BY <1>12 DEF Finish, FailedStatus
  <2>3. \A r \in Ids : IF r = run[w].s THEN job'[r].status = status /\ job'[r].attempts = job[r].attempts
                                       ELSE job'[r] = job[r]
    BY <1>t, <2>1, <2>2 DEF Jobs
  <2>4. \A r \in Ids : Row(r)'
    BY <1>0, <1>12, <2>1, <2>2, <2>3 DEF Finish, spend
  <2> QED
    BY <1>0, <1>12, <1>q, <1>u, <2>4 DEF Finish
<1>13. ASSUME NEW s \in Ids, RequeueDead(s) PROVE SessionInv'
  <2>1. \A r \in Ids : IF r = s THEN job'[r].status = "queued" /\ job'[r].attempts = 0
                                ELSE job'[r] = job[r]
    BY <1>13, <1>t DEF RequeueDead
  <2>2. \A r \in Ids : Row(r)'
    BY <1>0, <1>13, <1>t, <2>1 DEF RequeueDead, spend
  <2> QED
    BY <1>0, <1>13, <1>q, <1>u, <2>2 DEF RequeueDead
<1>14. ASSUME UNCHANGED <<sess, client, job, billed, shown, upto, sameMs>> PROVE SessionInv'
  BY <1>0, <1>14, <1>q, <1>u
<1> QED
  BY <1>1, <1>2, <1>3, <1>4, <1>5, <1>6, <1>7, <1>8, <1>9, <1>10, <1>11, <1>12, <1>13, <1>14
  DEF Next, ClientStep, WorkerStep, CheckBudget, ReadTurns, ReadUpto, Record, Persist, WorkerCrash,
      db, spend, vars

\* The prompt of a session that fits has every turn after the watermark.
LEMMA ShortPrompt ==
    ASSUME TypeOK, NEW s \in Ids, Short(s), turns[s] \in Seq(Sizes),
           NEW from \in Nat, from < Len(turns[s])
    PROVE  Prompt(s, from, Len(turns[s])) = from + 1 .. Len(turns[s])
<1> DEFINE n == Len(turns[s])
           S == 1..n
<1>1. /\ Room \in Nat /\ Window \in Nat /\ Sizes \subseteq Nat \ {0}
      /\ n \in Nat /\ DOMAIN turns[s] = S /\ IsFiniteSet(S)
  <2>1. n \in Nat /\ DOMAIN turns[s] = S
    BY LenProperties
  <2>2. IsFiniteSet(S)
    BY <2>1, FS_Interval
  <2> QED
    BY <2>1, <2>2, Types
<1>2. n <= Window /\ Sum(turns[s], S) <= Room /\ \A q \in S : turns[s][q] \in Nat
  <2>1. \A q \in S : turns[s][q] \in Sizes
    BY <1>1, ElementOfSeq
  <2> QED
    BY <1>1, <2>1 DEF Short, SumFunction, Sum
<1>3. ASSUME NEW q \in from + 1 .. n PROVE SumFunctionOnSet(turns[s], from + 1 .. q) <= Room
  <2>1. from + 1 .. q \in SUBSET S
    BY <1>1, <1>3
  <2>2. Sum(turns[s], from + 1 .. q) <= Sum(turns[s], S)
    BY <1>1, <1>2, <2>1, SumMonotone
  <2>3. Sum(turns[s], from + 1 .. q) \in Nat /\ Sum(turns[s], S) \in Nat
    <3>1. IsFiniteSet(from + 1 .. q)
      BY <1>1, <2>1, FS_Subset
    <3> QED
      BY <1>1, <1>2, <2>1, <3>1, SumAny
  <2> QED
    BY <1>1, <1>2, <2>2, <2>3 DEF Sum
<1>4. ~(n > from + Window)
  BY <1>1, <1>2
<1> QED
  BY <1>3, <1>4 DEF Prompt

\* A step that no worker takes leaves the extractions and their bills alone.
LEMMA ClientStepKeeps ==
    ASSUME TypeOK, RoomInv, SessionInv, RunInv, LedgerInv, SeenInv, MarkInv,
           UNCHANGED <<run, spend, upto>>, faults' \in Nat, faults' >= faults,
           \A s \in Ids : sess[s] = "closed" => turns'[s] = turns[s],
           RoomInv',
           \A s \in Ids : job'[s].status # job[s].status =>
                job[s].status \notin {"running", "done"} /\ job'[s].status # "done"
    PROVE  RunInv' /\ LedgerInv' /\ SeenInv' /\ MarkInv'
<1>t. /\ faults \in Nat
      /\ \A w \in Workers : run[w].at # "idle" => /\ run[w].s \in Ids
                                                  /\ job[run[w].s].status = "running"
                                                  /\ turns'[run[w].s] = turns[run[w].s]
  BY Types, ExtractedIsClosed
<1>1. RunInv'
  BY <1>t DEF RunInv, RunOf
<1>2. LedgerInv'
  BY <1>t DEF LedgerInv, LedgerRow, LedgerOf, spend
<1>3. ASSUME NEW s \in Ids PROVE SeenRow(s)'
  <2>1. CASE turns'[s] = turns[s]
    BY <2>1 DEF SeenInv, SeenRow, Short, spend
  <2>2. CASE sess[s] # "closed"
    BY <2>2 DEF SessionInv, SeenRow, spend
  <2> QED
    BY <2>1, <2>2
<1>4. ASSUME NEW w \in Workers PROVE SeenOf(w)'
  BY <1>t DEF SeenInv, SeenOf, Short, spend
<1>5. ASSUME NEW s \in Ids PROVE MarkRow(s)'
  <2>1. CASE turns'[s] = turns[s]
    BY <1>t, <2>1 DEF MarkInv, MarkRow
  <2>2. CASE sess[s] # "closed"
    BY <2>2 DEF SessionInv, MarkRow
  <2> QED
    BY <2>1, <2>2
<1>6. ASSUME NEW w \in Workers PROVE MarkOf(w)'
  BY <1>t DEF MarkInv, MarkOf
<1> QED
  BY <1>1, <1>2, <1>3, <1>4, <1>5, <1>6 DEF SeenInv, MarkInv

\* A worker's step is about its own extraction and its session alone.
LEMMA WorkerStepKeeps ==
    ASSUME TypeOK, RunInv, LedgerInv, SeenInv, MarkInv, faults' \in Nat, faults' >= faults,
           UNCHANGED turns, NEW w \in Workers, NEW s \in Ids,
           \A v \in Workers : v # w => run'[v] = run[v] /\ ~(run[v].at # "idle" /\ run[v].s = s),
           run[w].at # "idle" => run[w].s = s,
           \A r \in Ids : r # s => /\ job'[r] = job[r] /\ upto'[r] = upto[r]
                                   /\ ledger'[r] = ledger[r] /\ billed'[r] = billed[r]
                                   /\ shown'[r] = shown[r],
           run'[w].at # "idle" => run'[w].s = s /\ job'[s].status = "running",
           run'[w].at # "answered" => run'[w].cost = 0,
           run'[w].at \in {"turns_read", "calling", "answered", "persisting", "marking"} =>
               run'[w].n = Len(turns[s]),
           run'[w].at \in {"calling", "answered", "persisting", "marking"} => run'[w].from < run'[w].n,
           LedgerRow(s)', LedgerOf(w)', SeenRow(s)', SeenOf(w)', MarkRow(s)', MarkOf(w)'
    PROVE  RunInv' /\ LedgerInv' /\ SeenInv' /\ MarkInv'
<1>t. /\ faults \in Nat
      /\ \A v \in Workers : run[v].at # "idle" => run[v].s \in Ids
  BY Types
<1>1. ASSUME NEW v \in Workers, v # w PROVE RunOf(v)' /\ LedgerOf(v)' /\ SeenOf(v)' /\ MarkOf(v)'
  <2> DEFINE r == run[v].s
  <2>1. run'[v] = run[v]
    BY <1>1
  <2>2. CASE run[v].at = "idle"
    BY <2>1, <2>2 DEF RunInv, RunOf, LedgerOf, SeenOf, MarkOf
  <2>3. CASE run[v].at # "idle"
    <3>1. /\ r \in Ids /\ r # s
          /\ job'[r] = job[r] /\ upto'[r] = upto[r]
          /\ ledger'[r] = ledger[r] /\ billed'[r] = billed[r]
          /\ shown'[r] = shown[r]
      BY <1>1, <1>t, <2>3
    <3>2. RunOf(v)'
      BY <1>1, <2>1, <2>3, <3>1 DEF RunInv, RunOf
    <3>3. LedgerOf(v)'
      BY <1>t, <2>1, <2>3, <3>1 DEF LedgerInv, LedgerOf
    <3>4. SeenOf(v)'
      BY <1>t, <2>1, <2>3, <3>1 DEF SeenInv, SeenOf, Short
    <3>5. MarkOf(v)'
      BY <1>t, <2>1, <2>3, <3>1 DEF MarkInv, MarkOf
    <3> QED
      BY <3>2, <3>3, <3>4, <3>5
  <2> QED
    BY <2>2, <2>3
<1>2. RunOf(w)'
  BY DEF RunOf
<1>3. ASSUME NEW r \in Ids, r # s PROVE LedgerRow(r)' /\ SeenRow(r)' /\ MarkRow(r)'
  <2>1. \A v \in Workers : run[v].at # "idle" /\ run[v].s = r => run'[v] = run[v]
    BY <1>3
  <2> QED
    BY <1>3, <1>t, <2>1 DEF LedgerInv, LedgerRow, SeenInv, SeenRow, MarkInv, MarkRow, Short
<1> QED
  BY <1>1, <1>2, <1>3 DEF RunInv, LedgerInv, SeenInv, MarkInv

\* An extraction is alone with its session, all of whose turns it has read; what
\* it spends is charged under the ceiling; what it takes for seen has been shown;
\* and it is sent again only after faults.
LEMMA ExtractionStep ==
    ASSUME TypeOK, TypeOK', RoomInv, RoomInv', SessionInv, RunInv, LedgerInv, SeenInv, MarkInv,
           [Next]_vars
    PROVE  RunInv' /\ LedgerInv' /\ SeenInv' /\ MarkInv'
<1>t. /\ faults \in Nat /\ faults' \in Nat
      /\ MaxCost \in Nat /\ Ceiling \in Nat /\ MaxCost # 0
      /\ job \in [Ids -> Jobs] /\ run \in [Workers -> Runs]
      /\ ledger \in [Ids -> Nat] /\ billed \in [Ids -> Nat]
      /\ shown \in [Ids -> SUBSET (1..MaxTurns)]
      /\ \A kind : Strike(kind) => faults' = faults + 1
      /\ \A c \in Clients : client[c].todo \subseteq Ids
  <2>1. faults' \in Nat
    BY Types DEF TypeOK
  <2> QED
    BY <2>1, Types DEF Commands
<1>l. \A s \in Ids : /\ turns[s] \in Seq(Sizes) /\ Len(turns[s]) \in Nat
                     /\ DOMAIN turns[s] = 1..Len(turns[s])
                     /\ upto[s] \in Nat /\ upto[s] <= Len(turns[s])
  BY LenProperties DEF TypeOK
<1>x. \A w \in Workers : run[w].at # "idle" =>
          run[w].s \in Ids /\ job[run[w].s].status = "running" /\ sess[run[w].s] = "closed"
  BY ExtractedIsClosed
\* Steps of the clients, the clock and the operator.
<1>1. ASSUME NEW c \in Clients,
             OpenSession(c) \/ CloseIdle(c) \/ ClientStep(c) \/ ClientCrash(c)
             \/ \E op \in {"append", "close"} : Resolve(c, op)
      PROVE  RunInv' /\ LedgerInv' /\ SeenInv' /\ MarkInv'
  <2>1. UNCHANGED <<run, spend, upto>>
    BY <1>1 DEF OpenSession, CloseIdle, ClientStep, AppendTurn, CloseSession, EnqueueExtract,
               ClientCrash, Resolve, db
  <2>2. faults' >= faults
    <3>1. faults' = faults \/ \E kind : Strike(kind)
      BY <1>1 DEF OpenSession, CloseIdle, ClientStep, AppendTurn, CloseSession, EnqueueExtract,
                 ClientCrash, Resolve, bounds
    <3> QED
      BY <1>t, <3>1
  <2>3. \A s \in Ids : sess[s] = "closed" => turns'[s] = turns[s]
    <3>1. CASE AppendTurn(c)
      BY <3>1 DEF AppendTurn, MayAppend, RoomInv
    <3> QED
      BY <1>1, <3>1 DEF OpenSession, CloseIdle, ClientStep, CloseSession, EnqueueExtract,
                       ClientCrash, Resolve, db
  <2>4. \A s \in Ids : job'[s].status # job[s].status =>
                job[s].status \notin {"running", "done"} /\ job'[s].status # "done"
    <3>1. CASE EnqueueExtract(c)
      <4>1. PICK s \in Ids : job' \in {Enqueued(s), job}
        BY <1>t, <3>1 DEF EnqueueExtract
      <4> QED
        BY <1>t, <4>1 DEF Enqueued, Jobs
    <3> QED
      BY <1>1, <3>1 DEF OpenSession, CloseIdle, ClientStep, CloseSession, AppendTurn,
                       ClientCrash, Resolve, db
  <2> QED
    BY <1>t, <2>1, <2>2, <2>3, <2>4, ClientStepKeeps
<1>2. ASSUME NEW s \in Ids, RequeueDead(s) PROVE RunInv' /\ LedgerInv' /\ SeenInv' /\ MarkInv'
  <2>1. \A r \in Ids : job'[r].status # job[r].status =>
                job[r].status \notin {"running", "done"} /\ job'[r].status # "done"
    BY <1>2, <1>t DEF RequeueDead
  <2> QED
    BY <1>2, <1>t, <2>1, ClientStepKeeps DEF RequeueDead
<1>3. ASSUME Tick \/ UNCHANGED vars PROVE RunInv' /\ LedgerInv' /\ SeenInv' /\ MarkInv'
  BY <1>3, <1>t, ClientStepKeeps DEF Tick, vars, db, bounds, spend
\* Steps of a worker.
<1> DEFINE Frame(w, s) ==
              /\ \A v \in Workers : v # w => run'[v] = run[v] /\ ~(run[v].at # "idle" /\ run[v].s = s)
              /\ \A r \in Ids : r # s => /\ job'[r] = job[r] /\ upto'[r] = upto[r]
                                       /\ ledger'[r] = ledger[r] /\ billed'[r] = billed[r]
                                       /\ shown'[r] = shown[r]
           Rows(s) == LedgerRow(s)' /\ SeenRow(s)' /\ MarkRow(s)'
           Own(w) == LedgerOf(w)' /\ SeenOf(w)' /\ MarkOf(w)'
           Goal == RunInv' /\ LedgerInv' /\ SeenInv' /\ MarkInv'
           Reading == {"turns_read", "calling", "answered", "persisting", "marking"}
           Going == {"calling", "answered", "persisting", "marking"}
<1>y. ASSUME NEW w \in Workers, run[w].at # "idle"
      PROVE  /\ \A v \in Workers : v # w => ~(run[v].at # "idle" /\ run[v].s = run[w].s)
             /\ run[w] \in Runs /\ run[w].s \in Ids
             /\ RunOf(w) /\ LedgerOf(w) /\ SeenOf(w) /\ MarkOf(w)
             /\ LedgerRow(run[w].s) /\ SeenRow(run[w].s) /\ MarkRow(run[w].s)
  BY <1>t, <1>x, <1>y DEF RunInv, RunOf, LedgerInv, SeenInv, MarkInv
<1>f. ASSUME NEW w \in Workers, NEW s \in Ids, Frame(w, s), Rows(s), Own(w),
             UNCHANGED turns, faults' >= faults,
             run[w].at # "idle" => run[w].s = s,
             run'[w].at # "idle" => run'[w].s = s /\ job'[s].status = "running",
             run'[w].at # "answered" => run'[w].cost = 0,
             run'[w].at \in Reading => run'[w].n = Len(turns[s]),
             run'[w].at \in Going => run'[w].from < run'[w].n
      PROVE  Goal
  <2>1. /\ \A v \in Workers : v # w => run'[v] = run[v] /\ ~(run[v].at # "idle" /\ run[v].s = s)
        /\ \A r \in Ids : r # s => /\ job'[r] = job[r] /\ upto'[r] = upto[r]
                                 /\ ledger'[r] = ledger[r] /\ billed'[r] = billed[r]
                                 /\ shown'[r] = shown[r]
    BY <1>f DEF Frame
  <2>2. LedgerRow(s)' /\ SeenRow(s)' /\ MarkRow(s)' /\ LedgerOf(w)' /\ SeenOf(w)' /\ MarkOf(w)'
    BY <1>f DEF Rows, Own
  <2> HIDE DEF Frame, Rows, Own
  <2> QED
    BY <1>f, <1>t, <2>1, <2>2, WorkerStepKeeps
\* A step that changes the extraction alone, in the job's running state.
<1>m. ASSUME NEW w \in Workers, \A v \in Workers : v # w => run'[v] = run[v],
             UNCHANGED <<db, spend>>, faults' >= faults,
             run[w].at \notin {"idle", "answered", "ok"}, run'[w].at \notin {"idle", "answered"},
             run'[w].s = run[w].s, run'[w].cost = 0,
             run'[w].at \in Reading => run'[w].n = Len(turns[run[w].s]),
             run'[w].at \in Going => run'[w].from < run'[w].n,
             Own(w)
      PROVE  Goal
  <2>0. PICK s \in Ids : s = run[w].s
    BY <1>m, <1>x
  <2>1. RunOf(w) /\ job[s].status = "running"
        /\ LedgerRow(s) /\ SeenRow(s) /\ MarkRow(s)
    BY <1>m, <1>x, <1>y, <2>0
  <2>2. Frame(w, s)
    BY <1>m, <1>t, <1>y, <2>0 DEF db, spend
  <2>3. LedgerRow(s)'
    <3>1. UNCHANGED <<ledger, billed>> /\ run[w].at # "answered"
      BY <1>m DEF spend
    <3>2. (\A v \in Workers : ~(run'[v].at = "answered" /\ run'[v].s = s)) =>
             (\A v \in Workers : ~(run[v].at = "answered" /\ run[v].s = s))
      BY <1>m, <3>1
    <3> QED
      BY <1>m, <1>t, <2>1, <3>1, <3>2 DEF LedgerRow
  <2>5. SeenRow(s)'
    BY <1>m, <2>1 DEF SeenRow, Short, db, spend
  <2>4. MarkRow(s)'
    <3>1. UNCHANGED <<upto, turns, job>> /\ run[w].at # "ok"
      BY <1>m DEF db
    <3>2. (\A v \in Workers : ~(run'[v].at = "ok" /\ run'[v].s = s)) =>
             (\A v \in Workers : ~(run[v].at = "ok" /\ run[v].s = s))
      BY <1>m, <3>1
    <3> QED
      BY <1>m, <1>t, <2>1, <3>1, <3>2 DEF MarkRow
  <2> HIDE DEF Frame, Own, Goal
  <2> QED
    BY <1>f, <1>m, <2>0, <2>1, <2>2, <2>3, <2>4, <2>5 DEF db, Rows
<1> HIDE DEF Frame, Rows, Own, Goal
<1>4. ASSUME NEW w \in Workers, Claim(w) PROVE Goal
  <2>1. PICK s \in Ids :
          /\ job[s].status = "queued"
          /\ job' = [job EXCEPT ![s] = [status |-> "running", attempts |-> @.attempts + 1]]
          /\ run' = [run EXCEPT ![w] = [IdleRun EXCEPT !.at = "claimed", !.s = s]]
    BY <1>4 DEF Claim
  <2>2. /\ run[w].at = "idle" /\ run'[w].at = "claimed" /\ run'[w].s = s /\ run'[w].cost = 0
        /\ job'[s].status = "running"
        /\ UNCHANGED <<turns, upto, spend, faults>>
    BY <1>4, <1>t, <2>1 DEF Claim, IdleRun, bounds
  <2>3. Frame(w, s)
    BY <1>t, <1>x, <2>1, <2>2 DEF Frame, spend
  <2>4. \A v \in Workers : ~(run[v].at = "ok" /\ run[v].s = s) /\ ~(run[v].at = "answered" /\ run[v].s = s)
    BY <1>x, <2>1
  <2>5. Rows(s)
    BY <2>1, <2>2, <2>4 DEF Rows, LedgerInv, LedgerRow, SeenInv, SeenRow, MarkInv, MarkRow,
       Short, spend
  <2>6. Own(w)
    BY <2>2 DEF Own, LedgerOf, SeenOf, MarkOf
  <2>7. faults' >= faults
    BY <1>t, <2>2
  <2> QED
    BY <1>f, <2>2, <2>3, <2>5, <2>6, <2>7
<1>5. ASSUME NEW w \in Workers, CheckBudget(w) PROVE Goal
  <2>1. PICK stage \in {"checked", "err"} :
             /\ run' = [run EXCEPT ![w] = [run[w] EXCEPT !.at = stage]]
             /\ stage = "checked" => ~OverBudget(run[w].s)
    BY <1>5, <1>t DEF CheckBudget, Moves
  <2>2. run[w].at = "claimed" /\ UNCHANGED <<db, spend, faults>>
    BY <1>5 DEF CheckBudget, At, bounds
  <2>3. run[w] \in Runs /\ RunOf(w) /\ run[w].s \in Ids
    BY <1>y, <2>2
  <2>4. /\ run'[w].at = stage /\ run'[w].s = run[w].s /\ run'[w].cost = 0
        /\ \A v \in Workers : v # w => run'[v] = run[v]
    BY <1>t, <2>1, <2>2, <2>3 DEF Runs, RunOf
  <2>5. Own(w)
    BY <1>t, <2>1, <2>2, <2>3, <2>4 DEF Own, LedgerOf, SeenOf, MarkOf, OverBudget, spend
  <2> QED
    <3>1. faults' >= faults /\ run'[w].at \notin Reading \cup Going \cup {"idle", "answered"}
      BY <1>t, <2>1, <2>2, <2>4
    <3> QED
      BY <1>m, <2>2, <2>4, <2>5, <3>1
<1>6. ASSUME NEW w \in Workers, ReadTurns(w) PROVE Goal
  <2>1. run' = [run EXCEPT ![w] = [run[w] EXCEPT !.at = "turns_read", !.n = Len(turns[run[w].s])]]
    BY <1>6, <1>t DEF ReadTurns
  <2>2. run[w].at = "checked" /\ UNCHANGED <<db, spend, faults>>
    BY <1>6 DEF ReadTurns, At, bounds
  <2>3. run[w] \in Runs /\ RunOf(w) /\ LedgerOf(w) /\ run[w].s \in Ids
    BY <1>y, <2>2
  <2>4. /\ run'[w].at = "turns_read" /\ run'[w].s = run[w].s /\ run'[w].cost = 0
        /\ run'[w].n = Len(turns[run[w].s]) /\ \A v \in Workers : v # w => run'[v] = run[v]
    BY <1>t, <2>1, <2>2, <2>3 DEF Runs, RunOf
  <2>5. Own(w)
    BY <2>2, <2>3, <2>4 DEF Own, LedgerOf, SeenOf, MarkOf, spend
  <2> QED
    <3>1. faults' >= faults /\ run'[w].at \notin Going \cup {"idle", "answered"}
      BY <1>t, <2>2, <2>4
    <3> QED
      BY <1>m, <2>2, <2>4, <2>5, <3>1
<1>7. ASSUME NEW w \in Workers, ReadUpto(w) PROVE Goal
  <2>0. run[w].at = "turns_read" /\ UNCHANGED <<db, spend>>
    BY <1>7 DEF ReadUpto, At
  <2>1. PICK s \in Ids : s = run[w].s
    BY <1>x, <2>0
  <2>2. PICK from \in {upto[s], 0} :
             /\ from # upto[s] => Strike("read")
             /\ from = upto[s] => UNCHANGED faults
             /\ run' = [run EXCEPT ![w].from = from,
                                   ![w].at = IF HasFresh(run[w].n, from) THEN "calling" ELSE "ok"]
    BY <1>7, <2>1 DEF ReadUpto
  <2>3. PICK stage : stage = IF run[w].n > from THEN "calling" ELSE "ok"
    OBVIOUS
  <2>4. run' = [run EXCEPT ![w] = [run[w] EXCEPT !.from = from, !.at = stage]]
    BY <1>t, <2>2, <2>3 DEF HasFresh
  <2>5. /\ run[w] \in Runs /\ run[w].n = Len(turns[s]) /\ run[w].cost = 0
        /\ LedgerOf(w) /\ SeenRow(s) /\ MarkRow(s)
        /\ \A v \in Workers : ~(run[v].at = "ok" /\ run[v].s = s)
        /\ job[s].status = "running"
    BY <1>x, <1>y, <2>0, <2>1 DEF RunOf
  <2>6. /\ run'[w].at = stage /\ run'[w].s = s /\ run'[w].from = from /\ run'[w].n = Len(turns[s])
        /\ run'[w].cost = 0 /\ \A v \in Workers : v # w => run'[v] = run[v]
    BY <1>t, <2>1, <2>4, <2>5 DEF Runs
  <2>7. /\ from \in Nat /\ upto[s] \in Nat /\ upto[s] <= Len(turns[s]) /\ Len(turns[s]) \in Nat
        /\ DOMAIN turns[s] = 1..Len(turns[s])
    BY <1>l, <2>2
  <2>8. faults' >= faults /\ (from # upto[s] => faults' = faults + 1)
    BY <1>t, <2>2
  <2>9. LedgerOf(w)'
    BY <2>0, <2>1, <2>3, <2>5, <2>6 DEF LedgerOf, spend
  <2>10. SeenOf(w)'
    <3>1. 1..from \subseteq 1..upto[s]
      BY <2>2, <2>7
    <3>2. stage = "ok" => DOMAIN turns[s] \subseteq 1..upto[s]
      BY <2>2, <2>3, <2>5, <2>7
    <3> QED
      BY <2>0, <2>3, <2>5, <2>6, <3>1, <3>2 DEF SeenOf, SeenRow, Short, db, spend
  <2>11. MarkOf(w)'
    <3>1. ASSUME stage = "calling", upto[s] = Len(turns[s]) PROVE faults' >= 2
      <4>1. from # upto[s] /\ upto[s] # 0
        BY <2>2, <2>3, <2>5, <2>7, <3>1
      <4>2. faults >= 1
        BY <2>5, <3>1, <4>1 DEF MarkRow
      <4> QED
        BY <1>t, <2>8, <4>1, <4>2
    <3> QED
      BY <2>0, <2>6, <3>1 DEF MarkOf, db
  <2>12. Own(w)
    BY <2>9, <2>10, <2>11 DEF Own
  <2> QED
    BY <1>m, <2>0, <2>1, <2>3, <2>5, <2>6, <2>7, <2>8, <2>12
<1>8. ASSUME NEW w \in Workers, Persist(w) PROVE Goal
  <2>0. run[w].at = "persisting" /\ UNCHANGED <<db, spend, faults>>
    BY <1>8 DEF Persist, At, bounds
  <2>1. run[w] \in Runs /\ RunOf(w) /\ SeenOf(w) /\ run[w].s \in Ids
    BY <1>y, <2>0
  <2>2. /\ run'[w].at \in {"persisting", "marking", "err"} /\ run'[w].s = run[w].s
        /\ run'[w].cost = run[w].cost /\ run'[w].n = run[w].n /\ run'[w].from = run[w].from
        /\ \A v \in Workers : v # w => run'[v] = run[v]
    <3>1. CASE Moves(w, "marking")
      BY <1>t, <2>1, <3>1 DEF Moves, Runs
    <3>2. CASE Moves(w, "err")
      BY <1>t, <2>1, <3>2 DEF Moves, Runs
    <3>3. CASE run' = [run EXCEPT ![w].left = @ - 1]
      BY <1>t, <2>0, <2>1, <3>3 DEF Runs
    <3> QED
      BY <1>8, <3>1, <3>2, <3>3 DEF Persist
  <2>3. /\ run[w].cost = 0 /\ run[w].n = Len(turns[run[w].s]) /\ run[w].from < run[w].n
    BY <2>0, <2>1 DEF RunOf
  <2>4. Own(w)
    BY <2>0, <2>1, <2>2 DEF Own, LedgerOf, SeenOf, MarkOf, Short, db, spend
  <2> QED
    <3>1. faults' >= faults
      BY <1>t, <2>0
    <3>2. run[w].at = "persisting" /\ UNCHANGED <<db, spend>>
      BY <2>0
    <3> QED
      BY <1>m, <2>2, <2>3, <2>4, <3>1, <3>2
<1>9. ASSUME NEW w \in Workers, Complete(w) PROVE Goal
  <2>0. run[w].at = "calling" /\ UNCHANGED <<db, faults>>
    BY <1>9 DEF Complete, At, bounds
  <2>1. PICK s \in Ids : s = run[w].s
    BY <1>x, <2>0
  <2>2. /\ run[w] \in Runs /\ run[w].n = Len(turns[s]) /\ run[w].from < run[w].n /\ run[w].cost = 0
        /\ LedgerOf(w) /\ SeenOf(w) /\ MarkOf(w) /\ LedgerRow(s) /\ SeenRow(s) /\ MarkRow(s)
        /\ job[s].status = "running"
        /\ \A v \in Workers : v # w => ~(run[v].at # "idle" /\ run[v].s = s)
    BY <1>x, <1>y, <2>0, <2>1 DEF RunOf
  <2>3. /\ ledger[s] \in Nat /\ billed[s] \in Nat
        /\ run[w].from \in Nat /\ Len(turns[s]) \in Nat /\ DOMAIN turns[s] = 1..Len(turns[s])
    BY <1>l, <1>t, <2>2 DEF Runs
  <2>4. CASE Moves(w, "err") /\ UNCHANGED spend
    <3>1. /\ run'[w].at = "err" /\ run'[w].s = s /\ run'[w].cost = 0
          /\ \A v \in Workers : v # w => run'[v] = run[v]
      BY <1>t, <2>1, <2>2, <2>4 DEF Moves, Runs
    <3>2. Own(w)
      BY <3>1 DEF Own, LedgerOf, SeenOf, MarkOf
    <3>3. faults' >= faults
      BY <1>t, <2>0
    <3> QED
      BY <1>m, <2>0, <2>1, <2>4, <3>1, <3>2, <3>3
  <2>5. ASSUME NEW cost \in 1..MaxCost, Paid(s, cost),
               Moves(w, "err"), UNCHANGED <<ledger, shown>>
        PROVE  Goal
    <3>1. /\ run'[w].at = "err" /\ run'[w].s = s /\ run'[w].cost = 0
          /\ \A v \in Workers : v # w => run'[v] = run[v]
      BY <1>t, <2>1, <2>2, <2>5 DEF Moves, Runs
    <3>2. /\ cost \in Nat /\ billed'[s] = billed[s] + cost
          /\ \A r \in Ids : r # s => billed'[r] = billed[r]
      BY <1>t, <2>5 DEF Paid
    <3>3. Frame(w, s)
      BY <2>0, <2>2, <2>5, <3>1, <3>2 DEF Frame, db
    <3>4. Own(w)
      BY <3>1 DEF Own, LedgerOf, SeenOf, MarkOf
    <3>5. (\A v \in Workers : ~(run[v].at = "answered" /\ run[v].s = s))
          /\ (\A v \in Workers : ~(run[v].at = "ok" /\ run[v].s = s))
      BY <2>0, <2>2
    <3>6. LedgerRow(s)'
      BY <2>0, <2>2, <2>3, <2>5, <3>2, <3>5 DEF LedgerRow
    <3>7. SeenRow(s)'
      BY <2>0, <2>2, <2>5 DEF SeenRow, Short, db
    <3>8. MarkRow(s)'
      BY <2>0, <2>2, <3>5 DEF MarkRow, db
    <3>9. faults' >= faults /\ job'[s].status = "running" /\ UNCHANGED turns
      BY <1>t, <2>0, <2>2 DEF db
    <3> QED
      BY <1>f, <2>1, <3>1, <3>3, <3>4, <3>6, <3>7, <3>8, <3>9 DEF Rows
  <2>6. ASSUME NEW cost \in 1..MaxCost, NEW k \in 0..MaxCandidates, Paid(s, cost),
               shown' = [shown EXCEPT ![s] = @ \cup Prompt(s, run[w].from, run[w].n)],
               run' = [run EXCEPT ![w].at = "answered", ![w].cost = cost, ![w].left = k],
               UNCHANGED ledger
        PROVE  Goal
    <3>1. /\ run'[w].at = "answered" /\ run'[w].s = s /\ run'[w].cost = cost
          /\ run'[w].n = run[w].n /\ run'[w].from = run[w].from
          /\ \A v \in Workers : v # w => run'[v] = run[v]
      BY <1>t, <2>1, <2>2, <2>6 DEF Runs
    <3>2. /\ cost \in Nat /\ cost <= MaxCost /\ billed'[s] = billed[s] + cost
          /\ shown'[s] = shown[s] \cup Prompt(s, run[w].from, run[w].n)
          /\ \A r \in Ids : r # s => billed'[r] = billed[r] /\ shown'[r] = shown[r]
      BY <1>t, <2>6 DEF Paid
    <3>3. Frame(w, s)
      BY <2>0, <2>2, <2>6, <3>1, <3>2 DEF Frame, db
    <3>4. (\A v \in Workers : ~(run[v].at = "answered" /\ run[v].s = s))
          /\ (\A v \in Workers : ~(run[v].at = "ok" /\ run[v].s = s))
      BY <2>0, <2>2
    <3>5. /\ Prompt(s, run[w].from, run[w].n) \subseteq DOMAIN turns[s]
          /\ Short(s) => Prompt(s, run[w].from, run[w].n) = run[w].from + 1 .. run[w].n
      <4>1. Window \in Nat
        BY Types
      <4>2. Short(s) => Prompt(s, run[w].from, run[w].n) = run[w].from + 1 .. run[w].n
        BY <1>l, <2>2, <2>3, ShortPrompt
      <4> QED
        BY <2>2, <2>3, <4>1, <4>2 DEF Prompt
    <3>6. LedgerRow(s)'
      <4>1. ledger[s] <= billed'[s]
        BY <2>2, <2>3, <3>2 DEF LedgerRow
      <4>3. Ceiling # 0 => ledger[s] < Ceiling + MaxCost
        BY <2>2 DEF LedgerRow
      <4> QED
        BY <2>6, <4>1, <4>3 DEF LedgerRow
    <3>7. LedgerOf(w)'
      BY <1>t, <2>0, <2>1, <2>2, <2>3, <2>6, <3>1, <3>2, <3>4, SMTT(30) DEF LedgerOf, LedgerRow
    <3>8. SeenRow(s)'
      BY <2>0, <2>2, <3>2, <3>5 DEF SeenRow, Short, db
    <3>9. SeenOf(w)'
      <4>1. Short(s) => 1..run[w].from \subseteq shown[s]
        BY <2>0, <2>1, <2>2 DEF SeenOf
      <4>2. Short(s) => 1..Len(turns[s]) \subseteq shown'[s]
        BY <2>2, <2>3, <3>2, <3>5, <4>1
      <4> QED
        BY <2>0, <2>3, <3>1, <4>2 DEF SeenOf, Short, db
    <3>10. MarkRow(s)' /\ MarkOf(w)'
      BY <2>0, <2>2, <3>1, <3>4 DEF MarkRow, MarkOf, db
    <3>11. faults' >= faults /\ job'[s].status = "running" /\ UNCHANGED turns
      BY <1>t, <2>0, <2>2 DEF db
    <3> QED
      BY <1>f, <2>1, <2>2, <3>1, <3>3, <3>6, <3>7, <3>8, <3>9, <3>10, <3>11 DEF Rows, Own
  <2> QED
    BY <1>9, <2>1, <2>4, <2>5, <2>6 DEF Complete
<1>10. ASSUME NEW w \in Workers, Record(w) PROVE Goal
  <2>0. run[w].at = "answered" /\ UNCHANGED <<db, billed, shown>>
    BY <1>10 DEF Record, At
  <2>1. PICK s \in Ids : s = run[w].s
    BY <1>x, <2>0
  <2>2. /\ run[w] \in Runs /\ run[w].n = Len(turns[s]) /\ run[w].from < run[w].n
        /\ LedgerOf(w) /\ SeenOf(w) /\ LedgerRow(s) /\ SeenRow(s) /\ MarkRow(s)
        /\ job[s].status = "running"
        /\ \A v \in Workers : v # w => ~(run[v].at # "idle" /\ run[v].s = s)
    BY <1>x, <1>y, <2>0, <2>1 DEF RunOf
  <2>3. /\ ledger[s] \in Nat /\ billed[s] \in Nat /\ run[w].cost \in Nat
    BY <1>t, <2>2 DEF Runs
  <2>4. /\ run'[w].at = "persisting" /\ run'[w].s = s /\ run'[w].cost = 0
        /\ run'[w].n = run[w].n /\ run'[w].from = run[w].from
        /\ \A v \in Workers : v # w => run'[v] = run[v]
    BY <1>10, <1>t, <2>1, <2>2 DEF Record, Runs
  <2>5. \/ UNCHANGED faults /\ ledger'[s] = ledger[s] + run[w].cost
        \/ faults' = faults + 1 /\ ledger'[s] = ledger[s]
    BY <1>10, <1>t, <2>1 DEF Record, Charged
  <2>6. faults' >= faults /\ \A r \in Ids : r # s => ledger'[r] = ledger[r]
    BY <1>10, <1>t, <2>1, <2>5 DEF Record, Charged
  <2>7. Frame(w, s)
    BY <2>0, <2>2, <2>4, <2>6 DEF Frame, db
  <2>8. LedgerRow(s)'
    <3>1. ledger'[s] <= billed[s]
      BY <2>0, <2>1, <2>2, <2>3, <2>5 DEF LedgerOf, LedgerRow
    <3>3. Ceiling # 0 => ledger'[s] < Ceiling + MaxCost
      BY <2>0, <2>1, <2>2, <2>3, <2>5 DEF LedgerOf, LedgerRow
    <3> QED
      BY <2>0, <3>1, <3>3 DEF LedgerRow
  <2>9. SeenRow(s)'
    BY <2>0, <2>2 DEF SeenRow, Short, db
  <2>10. MarkRow(s)'
    <3>1. faults' >= 1 <=> (faults >= 1 \/ faults' = faults + 1)
      BY <1>t, <2>5
    <3>2. \A v \in Workers : ~(run[v].at = "ok" /\ run[v].s = s)
      BY <2>0, <2>2
    <3> QED
      BY <2>0, <2>2, <3>1, <3>2, <2>6 DEF MarkRow, db
  <2>11. Own(w)
    BY <2>0, <2>1, <2>2, <2>4 DEF Own, LedgerOf, SeenOf, MarkOf, Short, db
  <2>12. job'[s].status = "running" /\ UNCHANGED turns
    BY <2>0, <2>2 DEF db
  <2> QED
    BY <1>f, <2>1, <2>2, <2>4, <2>6, <2>7, <2>8, <2>9, <2>10, <2>11, <2>12 DEF Rows
<1>11. ASSUME NEW w \in Workers, Mark(w) PROVE Goal
  <2>0. run[w].at = "marking" /\ UNCHANGED <<sess, turns, job, spend>>
    BY <1>11 DEF Mark, At
  <2>1. PICK s \in Ids : s = run[w].s
    BY <1>x, <2>0
  <2>2. /\ run[w] \in Runs /\ run[w].n = Len(turns[s]) /\ run[w].from < run[w].n /\ run[w].cost = 0
        /\ SeenOf(w) /\ LedgerRow(s) /\ SeenRow(s) /\ MarkRow(s)
        /\ job[s].status = "running"
        /\ \A v \in Workers : v # w => ~(run[v].at # "idle" /\ run[v].s = s)
    BY <1>x, <1>y, <2>0, <2>1 DEF RunOf
  <2>3. PICK stage \in {"ok", "err"} :
             /\ Moves(w, stage) /\ (stage = "err" => faults' = faults + 1)
             /\ faults' >= faults
             /\ \/ upto' = [upto EXCEPT ![s] = LastSeq(run[w])]
                \/ UNCHANGED upto /\ stage = "err"
    BY <1>11, <1>t, <2>1 DEF Mark
  <2>4. /\ run'[w].at = stage /\ run'[w].s = s /\ run'[w].cost = 0
        /\ \A v \in Workers : v # w => run'[v] = run[v]
    BY <1>t, <2>1, <2>2, <2>3 DEF Moves, Runs
  <2>5. /\ \A r \in Ids : r # s => upto'[r] = upto[r]
        /\ upto'[s] \in {upto[s], Len(turns[s])}
    BY <2>2, <2>3 DEF LastSeq, RoomInv
  <2>6. Frame(w, s)
    BY <2>0, <2>2, <2>4, <2>5 DEF Frame, spend
  <2>7. Short(s) => DOMAIN turns[s] \subseteq shown[s]
    BY <2>0, <2>1, <2>2 DEF SeenOf
  <2>8. LedgerRow(s)'
    <3>1. \A v \in Workers : ~(run[v].at = "answered" /\ run[v].s = s)
      BY <2>0, <2>2
    <3>2. faults' = 0 => faults = 0
      BY <1>t, <2>3
    <3> QED
      BY <2>0, <2>2, <3>1, <3>2 DEF LedgerRow, spend
  <2>9. SeenRow(s)'
    BY <1>l, <2>0, <2>2, <2>5, <2>7 DEF SeenRow, Short, spend
  <2>10. MarkRow(s)'
    <3>1. stage = "err" => faults' >= 1
      BY <1>t, <2>3
    <3> QED
      BY <2>3, <2>4, <3>1 DEF MarkRow
  <2>11. Own(w)
    BY <2>0, <2>3, <2>4, <2>7 DEF Own, LedgerOf, SeenOf, MarkOf, Short, spend
  <2>12. run'[w].at \notin Reading \cup Going \cup {"idle", "answered"} /\ faults' >= faults
    BY <2>3, <2>4
  <2> QED
    BY <1>f, <2>0, <2>1, <2>2, <2>4, <2>6, <2>8, <2>9, <2>10, <2>11, <2>12 DEF Rows
<1>12. ASSUME NEW w \in Workers, Finish(w) \/ WorkerCrash(w) PROVE Goal
  <2>0. run[w].at # "idle" /\ UNCHANGED <<turns, upto, spend>>
    BY <1>12 DEF Finish, WorkerCrash, At, db
  <2>1. PICK s \in Ids : s = run[w].s
    BY <1>x, <2>0
  <2>2. /\ run[w] \in Runs /\ SeenOf(w) /\ LedgerRow(s) /\ SeenRow(s) /\ MarkRow(s)
        /\ job[s].status = "running"
        /\ \A v \in Workers : v # w => ~(run[v].at # "idle" /\ run[v].s = s)
    BY <1>x, <1>y, <2>0, <2>1 DEF RunOf
  <2>3. /\ run'[w].at = "idle" /\ run'[w].cost = 0
        /\ \A v \in Workers : v # w => run'[v] = run[v]
    BY <1>12, <1>t DEF Finish, WorkerCrash, IdleRun
  <2>4. \/ /\ run[w].at = "ok" /\ UNCHANGED faults
           /\ job' = [job EXCEPT ![s].status = "done"]
        \/ /\ run[w].at = "err" /\ UNCHANGED faults
           /\ job' = [job EXCEPT ![s].status = FailedStatus(s)]
        \/ faults' = faults + 1 /\ UNCHANGED job
    BY <1>12, <1>t, <2>1 DEF Finish, WorkerCrash, At, bounds, db
  <2>5. /\ faults' >= faults /\ (run[w].at = "answered" => faults' # 0)
        /\ faults' = faults + 1 => faults' >= 1
    BY <1>t, <2>4
  <2>6. Frame(w, s)
    BY <1>t, <2>0, <2>2, <2>3, <2>4 DEF Frame, spend
  <2>7. LedgerRow(s)'
    <3>1. (\A v \in Workers : ~(run[v].at = "answered" /\ run[v].s = s)) \/ faults' # 0
      BY <2>2, <2>5
    <3>2. faults' = 0 => faults = 0
      BY <1>t, <2>5
    <3> QED
      BY <2>0, <2>2, <3>1, <3>2 DEF LedgerRow, spend
  <2>8. SeenRow(s)'
    <3>1. job'[s].status = "done" => run[w].at = "ok"
      BY <1>t, <2>2, <2>4 DEF FailedStatus, Jobs
    <3> QED
      BY <2>0, <2>1, <2>2, <3>1 DEF SeenRow, SeenOf, Short, spend
  <2>9. MarkRow(s)'
    <3>1. CASE faults' = faults + 1
      BY <2>5, <3>1 DEF MarkRow
    <3>2. CASE run[w].at = "ok" /\ job' = [job EXCEPT ![s].status = "done"]
      BY <1>t, <3>2 DEF MarkRow, Jobs
    <3>3. CASE run[w].at = "err" /\ UNCHANGED faults
      <4>1. \A v \in Workers : ~(run[v].at = "ok" /\ run[v].s = s)
        BY <2>2, <3>3
      <4> QED
        BY <2>0, <2>2, <3>3, <4>1 DEF MarkRow
    <3> QED
      BY <2>4, <3>1, <3>2, <3>3
  <2>10. Own(w)
    BY <2>3 DEF Own, LedgerOf, SeenOf, MarkOf
  <2> QED
    BY <1>f, <2>0, <2>1, <2>3, <2>5, <2>6, <2>7, <2>8, <2>9, <2>10 DEF Rows
<1> QED
  BY <1>1, <1>2, <1>3, <1>4, <1>5, <1>6, <1>7, <1>8, <1>9, <1>10, <1>11, <1>12
  DEF Next, WorkerStep, Goal
-----------------------------------------------------------------------------
\* A claim adds the price of a call to what is allowed, a requeue at least what it
\* takes away.
LEMMA Allowance ==
    ASSUME NEW c \in Nat, NEW m \in Nat, NEW q \in Nat, NEW a \in 0..m
    PROVE  /\ c * (m * q + a) \in Nat
           /\ c * (m * q + (a + 1)) = c * (m * q + a) + c
           /\ c * (m * q + a) <= c * (m * (q + 1))
           /\ c * (m * q + a) <= c * (m * (q + 1) + a)
<1>1. ASSUME NEW x \in Nat, NEW y \in Nat, x <= y PROVE c * x \in Nat /\ c * y \in Nat /\ c * x <= c * y
  <2>1. c * y = c * x + c * (y - x) /\ y - x \in Nat
    BY <1>1, SMT
  <2>2. c * (y - x) \in Nat /\ c * x \in Nat /\ c * y \in Nat
    BY <1>1, <2>1, SMT
  <2> QED
    BY <2>1, <2>2
<1>2. m * (q + 1) = m * q + m /\ m * q \in Nat /\ a \in Nat /\ a <= m
  BY SMT
<1> DEFINE p == m * q
<1> HIDE DEF p
<1>3. p \in Nat /\ a \in Nat /\ m * (q + 1) = p + m /\ a <= m
  BY <1>2 DEF p
<1>4. c * (p + (a + 1)) = c * (p + a) + c
  BY <1>3, SMT
<1>5. c * (p + a) \in Nat /\ c * (p + a) <= c * (p + m)
  <2>1. p + a \in Nat /\ p + m \in Nat /\ p + a <= p + m
    BY <1>3
  <2> QED
    BY <1>1, <2>1
<1>6. c * (p + a) <= c * (p + m + a)
  <2>1. p + a \in Nat /\ p + m + a \in Nat /\ p + a <= p + m + a
    BY <1>3
  <2> QED
    BY <1>1, <2>1
<1> QED
  BY <1>3, <1>4, <1>5, <1>6 DEF p

\* Every call is one the job's attempts allow.
LEMMA SpendStep ==
    ASSUME TypeOK, TypeOK', SessionInv, RunInv, SpendInv, [Next]_vars
    PROVE  SpendInv'
<1>t. /\ MaxCost \in Nat /\ MaxAttempts \in Nat /\ requeues \in Nat
      /\ job \in [Ids -> Jobs] /\ run \in [Workers -> Runs] /\ billed \in [Ids -> Nat]
      /\ \A s \in Ids : billed[s] \in Nat /\ job[s].attempts \in 0..MaxAttempts
      /\ \A w \in Workers : run[w].at # "idle" => run[w].s \in Ids
  <2>1. \A s \in Ids : job[s].attempts \in 0..MaxAttempts
    BY DEF TypeOK
  <2>2. requeues \in Nat
    BY Types DEF TypeOK
  <2> QED
    BY <2>1, <2>2, Types
<1>a. \A s \in Ids : Allowed(s) \in Nat
  BY <1>t, Allowance DEF Allowed
<1> DEFINE Early == {"claimed", "checked", "turns_read", "calling"}
\* Nothing is billed and no session allowed less; an extraction about to call was
\* about to call before.
<1>u. ASSUME \A s \in Ids : billed'[s] = billed[s] /\ Allowed(s)' \in Nat /\ Allowed(s)' >= Allowed(s),
             \A w \in Workers : run'[w].at \in Early => run[w].at \in Early /\ run'[w].s = run[w].s
      PROVE  SpendInv'
  <2>1. \A s \in Ids : billed'[s] <= Allowed(s)'
    BY <1>u, <1>t, <1>a DEF SpendInv
  <2>2. ASSUME NEW w \in Workers, NEW s \in Ids, run'[w].s = s, run'[w].at \in Early
        PROVE  billed'[s] + MaxCost <= Allowed(s)'
    <3>1. run[w].s = s /\ run[w].at \in Early
      BY <1>u, <2>2
    <3>2. billed[s] + MaxCost <= Allowed(s)
      BY <3>1 DEF SpendInv
    <3> QED
      BY <1>u, <1>t, <1>a, <3>2
  <2> QED
    BY <2>1, <2>2 DEF SpendInv
<1>v. ASSUME billed' = billed, requeues' = requeues,
             \A s \in Ids : job'[s].attempts = job[s].attempts,
             \A w \in Workers : run'[w].at \in Early => run[w].at \in Early /\ run'[w].s = run[w].s
      PROVE  SpendInv'
  <2>1. \A s \in Ids : Allowed(s)' = Allowed(s)
    BY <1>v DEF Allowed
  <2>2. \A s \in Ids : Allowed(s) >= Allowed(s)
    BY <1>a
  <2> HIDE DEF Early
  <2> QED
    BY <1>a, <1>u, <1>v, <2>1, <2>2
<1>1. ASSUME NEW c \in Clients,
             OpenSession(c) \/ CloseIdle(c) \/ ClientStep(c) \/ ClientCrash(c)
             \/ \E op \in {"append", "close"} : Resolve(c, op)
      PROVE  SpendInv'
  <2>1. UNCHANGED <<run, billed, requeues>>
    BY <1>1 DEF OpenSession, CloseIdle, ClientStep, AppendTurn, CloseSession, EnqueueExtract,
               ClientCrash, Resolve, db, spend, bounds
  <2>2. job' = job \/ \E s \in Ids : job' = Enqueued(s)
    <3>1. CASE EnqueueExtract(c)
      BY <3>1, Types DEF EnqueueExtract, Commands
    <3> QED
      BY <1>1, <3>1 DEF OpenSession, CloseIdle, ClientStep, CloseSession, AppendTurn,
                       ClientCrash, Resolve, db
  <2>3. \A s \in Ids : job'[s].attempts = job[s].attempts
    BY <1>t, <2>2 DEF Enqueued, Jobs
  <2> QED
    BY <1>v, <2>1, <2>3
<1>2. ASSUME NEW s \in Ids, RequeueDead(s) PROVE SpendInv'
  <2>1. /\ requeues' = requeues + 1 /\ UNCHANGED <<run, billed>>
        /\ job' = [job EXCEPT ![s] = [status |-> "queued", attempts |-> 0]]
    BY <1>2 DEF RequeueDead, spend
  <2>2. ASSUME NEW r \in Ids PROVE Allowed(r)' \in Nat /\ Allowed(r)' >= Allowed(r)
    <3> DEFINE a == job[r].attempts
    <3>1. /\ MaxCost * (MaxAttempts * requeues + a) <= MaxCost * (MaxAttempts * (requeues + 1))
          /\ MaxCost * (MaxAttempts * requeues + a) <= MaxCost * (MaxAttempts * (requeues + 1) + a)
      BY <1>t, Allowance
    <3>2. job'[r].attempts \in {0, a} /\ a \in 0..MaxAttempts /\ requeues + 1 \in Nat
      BY <1>t, <2>1
    <3>3. /\ MaxCost * (MaxAttempts * (requeues + 1) + a) \in Nat
          /\ MaxCost * (MaxAttempts * (requeues + 1) + 0) \in Nat
      <4>1. 0 \in 0..MaxAttempts
        BY <1>t
      <4> QED
        BY <1>t, <3>2, <4>1, Allowance
    <3>4. MaxAttempts * (requeues + 1) + 0 = MaxAttempts * (requeues + 1)
      BY <1>t
    <3> QED
      BY <2>1, <3>1, <3>2, <3>3, <3>4 DEF Allowed
  <2> HIDE DEF Early
  <2> QED
    BY <1>u, <2>1, <2>2
<1>3. ASSUME Tick \/ UNCHANGED vars PROVE SpendInv'
  BY <1>3, <1>v DEF Tick, vars, db, spend, bounds
<1>4. ASSUME NEW w \in Workers, Claim(w) PROVE SpendInv'
  <2>1. PICK s \in Ids :
          /\ job[s].status = "queued"
          /\ job' = [job EXCEPT ![s] = [status |-> "running", attempts |-> @.attempts + 1]]
          /\ run' = [run EXCEPT ![w] = [IdleRun EXCEPT !.at = "claimed", !.s = s]]
    BY <1>4 DEF Claim
  <2>2. UNCHANGED <<billed, requeues>>
    BY <1>4 DEF Claim, spend, bounds
  <2>3. Allowed(s)' = Allowed(s) + MaxCost
    <3>1. job'[s].attempts = job[s].attempts + 1
      BY <1>t, <2>1
    <3> QED
      BY <1>t, <2>2, <3>1, Allowance DEF Allowed
  <2>4. \A r \in Ids : r # s => Allowed(r)' = Allowed(r)
    BY <1>t, <2>1, <2>2 DEF Allowed
  <2>5. /\ run'[w].s = s
        /\ \A v \in Workers : v # w => run'[v] = run[v] /\ (run[v].at \in Early => run[v].s # s)
    BY <1>t, <2>1 DEF IdleRun, RunInv, RunOf
  <2>6. \A r \in Ids : billed'[r] <= Allowed(r)'
    BY <1>t, <1>a, <2>2, <2>3, <2>4 DEF SpendInv
  <2>7. billed'[s] + MaxCost <= Allowed(s)'
    BY <1>t, <1>a, <2>2, <2>3 DEF SpendInv
  <2>8. ASSUME NEW v \in Workers, NEW r \in Ids, v # w, run'[v].s = r, run'[v].at \in Early
        PROVE  billed'[r] + MaxCost <= Allowed(r)'
    <3>1. run[v].s = r /\ run[v].at \in Early /\ r # s
      BY <2>5, <2>8
    <3>2. billed[r] + MaxCost <= Allowed(r)
      BY <3>1 DEF SpendInv
    <3>3. billed'[r] = billed[r] /\ Allowed(r)' = Allowed(r)
      BY <2>2, <2>4, <3>1
    <3> QED
      BY <3>2, <3>3
  <2> QED
    BY <2>5, <2>6, <2>7, <2>8 DEF SpendInv
<1>5. ASSUME NEW w \in Workers, Complete(w) PROVE SpendInv'
  <2>0. /\ run[w].at = "calling" /\ UNCHANGED <<job, requeues>>
        /\ \/ billed' = billed
           \/ \E cost \in 1..MaxCost : billed' = [billed EXCEPT ![run[w].s] = @ + cost]
        /\ \/ run' = [run EXCEPT ![w].at = "err"]
           \/ \E cost, k : run' = [run EXCEPT ![w].at = "answered", ![w].cost = cost, ![w].left = k]
    BY <1>5 DEF Complete, At, Moves, Paid, db, spend, bounds
  <2>1. PICK s \in Ids : s = run[w].s
    BY <1>t, <2>0
  <2>2. /\ run'[w].at \in {"err", "answered"}
        /\ \A v \in Workers : v # w => run'[v] = run[v] /\ (run[v].at \in Early => run[v].s # s)
    <3>1. run \in [Workers -> Runs]
      BY <1>t
    <3>2. run'[w].at \in {"err", "answered"} /\ \A v \in Workers : v # w => run'[v] = run[v]
      <4>1. CASE run' = [run EXCEPT ![w].at = "err"]
        BY <3>1, <4>1 DEF Runs
      <4>2. ASSUME NEW cost, NEW k,
                   run' = [run EXCEPT ![w].at = "answered", ![w].cost = cost, ![w].left = k]
            PROVE  run'[w].at \in {"err", "answered"} /\ \A v \in Workers : v # w => run'[v] = run[v]
        BY <3>1, <4>2 DEF Runs
      <4> QED
        BY <2>0, <4>1, <4>2
    <3>3. \A v \in Workers : v # w /\ run[v].at \in Early => run[v].s # s
      BY <2>0, <2>1 DEF RunInv, RunOf
    <3> QED
      BY <3>2, <3>3
  <2>3. /\ \A r \in Ids : r # s => billed'[r] = billed[r]
        /\ billed'[s] \in Nat /\ billed'[s] <= billed[s] + MaxCost
    <3>1. billed \in [Ids -> Nat] /\ MaxCost \in Nat
      BY <1>t
    <3>2. CASE billed' = billed
      BY <1>t, <3>2
    <3>3. ASSUME NEW cost \in 1..MaxCost, billed' = [billed EXCEPT ![s] = @ + cost]
          PROVE  <2>3!1 /\ <2>3!2
      BY <3>1, <3>3
    <3> QED
      BY <2>0, <2>1, <3>2, <3>3
  <2>4. \A r \in Ids : Allowed(r)' = Allowed(r)
    BY <2>0 DEF Allowed
  <2>5. billed[s] + MaxCost <= Allowed(s)
    BY <2>0, <2>1 DEF SpendInv
  <2>6. \A r \in Ids : billed'[r] <= Allowed(r)'
    <3>1. billed'[s] <= Allowed(s)
      BY <1>a, <1>t, <2>3, <2>5
    <3> QED
      BY <2>3, <2>4, <3>1 DEF SpendInv
  <2>7. ASSUME NEW v \in Workers, NEW r \in Ids, run'[v].s = r, run'[v].at \in Early
        PROVE  billed'[r] + MaxCost <= Allowed(r)'
    <3>1. v # w
      BY <2>2, <2>7
    <3>2. run[v].s = r /\ run[v].at \in Early /\ r # s
      BY <2>2, <2>7, <3>1
    <3>3. billed[r] + MaxCost <= Allowed(r)
      BY <3>2 DEF SpendInv
    <3>4. billed'[r] = billed[r] /\ Allowed(r)' = Allowed(r)
      BY <2>3, <2>4, <3>2
    <3> QED
      BY <3>3, <3>4
  <2> QED
    BY <2>6, <2>7 DEF SpendInv
\* A worker's other steps bill nothing and never go back to a call.
<1>6. ASSUME NEW w \in Workers,
             CheckBudget(w) \/ ReadTurns(w) \/ ReadUpto(w) \/ Record(w) \/ Persist(w)
             \/ Mark(w) \/ Finish(w) \/ WorkerCrash(w)
      PROVE  SpendInv'
  <2>1. billed' = billed /\ requeues' = requeues
    BY <1>6 DEF CheckBudget, ReadTurns, ReadUpto, Record, Persist, Mark, Finish, WorkerCrash,
               spend, bounds
  <2>2. \A s \in Ids : job'[s].attempts = job[s].attempts
    <3>1. CASE Finish(w)
      <4>1. \E status : job' = [job EXCEPT ![run[w].s].status = status]
        BY <3>1 DEF Finish
      <4> QED
        BY <1>t, <4>1 DEF Jobs
    <3> QED
      BY <1>6, <3>1 DEF CheckBudget, ReadTurns, ReadUpto, Record, Persist, Mark, WorkerCrash, db
  <2>3. ASSUME NEW v \in Workers, run'[v].at \in Early
        PROVE  run[v].at \in Early /\ run'[v].s = run[v].s
    <3>1. CASE v # w
      <4>1. run'[v] = run[v]
        BY <1>6, <1>t, <3>1 DEF CheckBudget, ReadTurns, ReadUpto, Record, Persist, Mark, Finish,
           WorkerCrash, Moves
      <4> QED
        BY <2>3, <4>1
    <3>2. CASE v = w /\ CheckBudget(w)
      BY <1>t, <2>3, <3>2 DEF CheckBudget, Moves, At, Runs
    <3>3. CASE v = w /\ ReadTurns(w)
      BY <1>t, <2>3, <3>3 DEF ReadTurns, At, Runs
    <3>4. CASE v = w /\ ReadUpto(w)
      BY <1>t, <2>3, <3>4 DEF ReadUpto, At, Runs
    <3>5. CASE v = w /\ (Record(w) \/ Persist(w) \/ Mark(w))
      <4>1. run'[w].at \in {"persisting", "marking", "ok", "err"}
        BY <1>t, <3>5 DEF Record, Persist, Mark, Moves, At, Runs
      <4> QED
        BY <2>3, <3>5, <4>1
    <3>6. CASE v = w /\ (Finish(w) \/ WorkerCrash(w))
      BY <1>t, <2>3, <3>6 DEF Finish, WorkerCrash, IdleRun
    <3> QED
      BY <1>6, <3>1, <3>2, <3>3, <3>4, <3>5, <3>6
  <2> HIDE DEF Early
  <2> QED
    BY <1>v, <2>1, <2>2, <2>3
<1> QED
  BY <1>1, <1>2, <1>3, <1>4, <1>5, <1>6 DEF Next, WorkerStep
-----------------------------------------------------------------------------
LEMMA Invariance == Spec => []IInv
<1>1. Init => IInv
  <2> SUFFICES ASSUME Init PROVE IInv
    OBVIOUS
  <2>c. /\ MaxAttempts \in Nat /\ MaxSessions \in Nat /\ MaxTurns \in Nat /\ MaxCost \in Nat
        /\ MaxCandidates \in Nat /\ MaxFaults \in Nat /\ MaxRequeues \in Nat /\ Ceiling \in Nat
        /\ MaxCost # 0 /\ MaxAttempts # 0
    BY ExtractionAssumption DEF ExtractionAssumption
  <2>s. <<>> \in Seq(Sizes) /\ Len(<<>>) = 0 /\ DOMAIN <<>> = {}
    BY EmptySeq, LenProperties
  <2>1. TypeOK
    BY <2>c, <2>s DEF Init, TypeOK, Ids, Stages, IdleRun, IdleClient
  <2>2. RoomInv
    <3>1. \A s \in Ids : Appending(s) = {} /\ turns[s] = <<>>
      BY DEF Init, Appending, IdleClient
    <3>2. IsFiniteSet({}) /\ Cardinality({}) = 0
      BY FS_EmptySet
    <3>3. \A s \in Ids : IsFiniteSet(Appending(s)) /\ Len(turns[s]) + Appends(s) <= MaxTurns
      <4> HIDE DEF Appending
      <4>1. \A s \in Ids : Appends(s) = 0
        BY <3>1, <3>2 DEF Appends, Appending
      <4>2. 0 + 0 <= MaxTurns
        BY <2>c
      <4>3. \A s \in Ids : IsFiniteSet(Appending(s)) /\ Len(turns[s]) = 0
        BY <2>s, <3>1, <3>2
      <4> QED
        BY <4>1, <4>2, <4>3
    <3>4. turns \in [Ids -> Seq(Sizes)] /\ upto \in [Ids -> Nat]
      BY <2>s DEF Init
    <3> QED
      BY <3>3, <3>4 DEF RoomInv
  <2>3. SessionInv /\ RunInv
    BY <2>c DEF Init, SessionInv, RunInv, RunOf, IdleRun, IdleClient
  <2>4. LedgerInv
    BY <2>c DEF Init, LedgerInv, LedgerRow, LedgerOf, IdleRun
  <2>6. SpendInv
    <3>1. \A s \in Ids : billed[s] = 0 /\ job[s].attempts = 0 /\ requeues = 0
      BY DEF Init
    <3>2. MaxCost * (MaxAttempts * 0 + 0) \in Nat
      <4>1. 0 \in 0..MaxAttempts
        BY <2>c
      <4> QED
        BY <2>c, <4>1, Allowance
    <3> QED
      BY <3>1, <3>2 DEF Init, SpendInv, Allowed, IdleRun
  <2>5. SeenInv /\ MarkInv
    BY <2>s DEF Init, SeenInv, SeenRow, SeenOf, MarkInv, MarkRow, MarkOf, IdleRun
  <2> QED
    BY <2>1, <2>2, <2>3, <2>4, <2>5, <2>6 DEF IInv
<1>2. IInv /\ [Next]_vars => IInv'
  <2> SUFFICES ASSUME IInv, [Next]_vars PROVE IInv'
    OBVIOUS
  <2>1. RoomInv' /\ SessionInv'
    BY RoomStep, SessionStep DEF IInv
  <2>2. TypeOK'
    BY <2>1, TypeStep DEF IInv
  <2>3. RunInv' /\ LedgerInv' /\ SeenInv' /\ MarkInv'
    BY <2>1, <2>2, ExtractionStep DEF IInv
  <2>4. SpendInv'
    BY <2>2, SpendStep DEF IInv
  <2> QED
    BY <2>1, <2>2, <2>3, <2>4 DEF IInv
<1> QED
  BY <1>1, <1>2, PTL DEF Spec

\* No two workers extract a session at once (lease and idempotency key of the
\* job are all that keeps them apart); the types of the model are kept.
THEOREM ExtractionOneExtraction == Spec => []OneExtraction
<1>1. ASSUME IInv, NEW s \in Ids PROVE Cardinality(Extracting(s)) <= 1
  <2>1. \A v, w \in Extracting(s) : v = w
    BY <1>1 DEF IInv, RunInv, RunOf, Extracting
  <2>2. CASE Extracting(s) = {}
    BY <2>2, FS_EmptySet
  <2>3. CASE Extracting(s) # {}
    <3>1. PICK w : w \in Extracting(s)
      BY <2>3
    <3>2. Extracting(s) = {w}
      BY <2>1, <3>1
    <3> QED
      BY <3>2, FS_Singleton
  <2> QED
    BY <2>2, <2>3
<1>2. IInv => OneExtraction
  BY <1>1 DEF OneExtraction, IInv
<1> QED
  BY <1>2, Invariance, PTL

\* A session that fits in a prompt and whose extraction is done has been shown to
\* the model to its last turn.
THEOREM ExtractionShortSessionsAreSeen == Spec => []ShortSessionsAreSeen
<1>1. IInv => ShortSessionsAreSeen
  BY DEF IInv, SeenInv, SeenRow, ShortSessionsAreSeen
<1> QED
  BY <1>1, Invariance, PTL

\* What is in flight of a session is the cost of the answer in one worker's hand.
LEMMA InFlightIs ==
    ASSUME IInv, NEW s \in Ids
    PROVE  \/ InFlight(s) = 0 /\ \A w \in Workers : ~(run[w].at = "answered" /\ run[w].s = s)
           \/ \E w \in Workers : run[w].at = "answered" /\ run[w].s = s /\ InFlight(s) = run[w].cost
<1> DEFINE cost == [w \in Workers |-> run[w].cost]
<1>t. TypeOK /\ RunInv /\ (\A w \in Workers : run[w].cost \in Nat)
  BY Types DEF IInv, Runs
<1>1. InFlight(s) = Sum(cost, Extracting(s))
  BY DEF InFlight, Sum
<1>2. CASE Extracting(s) = {}
  BY <1>1, <1>2, SumEmpty DEF Extracting
<1>3. ASSUME NEW w \in Extracting(s)
      PROVE  \/ InFlight(s) = 0 /\ \A v \in Workers : ~(run[v].at = "answered" /\ run[v].s = s)
             \/ run[w].at = "answered" /\ run[w].s = s /\ InFlight(s) = run[w].cost
  <2>1. w \in Workers /\ run[w].s = s /\ Extracting(s) = {w}
    BY <1>3, <1>t DEF RunInv, RunOf, Extracting
  <2>2. cost[w] = run[w].cost /\ cost[w] \in Nat
    BY <1>t, <2>1
  <2>3. InFlight(s) = run[w].cost
    <3> HIDE DEF cost
    <3> QED
      BY <1>1, <2>1, <2>2, SumSingleton
  <2> QED
    BY <1>t, <2>1, <2>3 DEF RunInv, RunOf, Extracting
<1> QED
  BY <1>2, <1>3 DEF Extracting

\* What the provider bills for a session, recorded or not: at least what the
\* ledger says and at most one call for each attempt of its job, through every
\* fault, retry and requeue.
THEOREM ExtractionSpendingIsBounded == Spec => []SpendingIsBounded
<1>1. ASSUME IInv, NEW s \in Ids PROVE ledger[s] + InFlight(s) <= billed[s]
  <2>1. ledger[s] \in Nat
    BY <1>1, Types DEF IInv
  <2>2. LedgerRow(s) /\ \A w \in Workers : LedgerOf(w)
    BY <1>1 DEF IInv, LedgerInv
  <2>3. CASE InFlight(s) = 0
    BY <2>1, <2>2, <2>3 DEF LedgerRow
  <2>4. ASSUME NEW w \in Workers,
               run[w].at = "answered" /\ run[w].s = s /\ InFlight(s) = run[w].cost
        PROVE  ledger[s] + InFlight(s) <= billed[s]
    BY <2>2, <2>4 DEF LedgerOf
  <2> QED
    BY <1>1, <2>3, <2>4, InFlightIs
<1>2. ASSUME IInv, NEW s \in Ids PROVE billed[s] <= MaxCost * (MaxAttempts * (requeues + 1))
  <2>1. /\ MaxCost \in Nat /\ MaxAttempts \in Nat /\ requeues \in Nat /\ billed[s] \in Nat
        /\ job[s].attempts \in 0..MaxAttempts
    BY <1>2, Types DEF IInv, TypeOK
  <2>2. billed[s] <= Allowed(s)
    BY <1>2 DEF IInv, SpendInv
  <2>3. Allowed(s) \in Nat /\ Allowed(s) <= MaxCost * (MaxAttempts * (requeues + 1))
    BY <2>1, Allowance DEF Allowed
  <2>4. MaxCost * (MaxAttempts * (requeues + 1)) \in Nat
    <3>1. /\ requeues + 1 \in Nat /\ 0 \in 0..MaxAttempts
          /\ MaxAttempts * (requeues + 1) + 0 = MaxAttempts * (requeues + 1)
      BY <2>1
    <3>2. MaxCost * (MaxAttempts * (requeues + 1) + 0) \in Nat
      BY <2>1, <3>1, Allowance
    <3> QED
      BY <3>1, <3>2
  <2> QED
    BY <2>1, <2>2, <2>3, <2>4
<1>3. IInv => SpendingIsBounded
  BY <1>1, <1>2 DEF SpendingIsBounded
<1> QED
  BY <1>3, Invariance, PTL

\* The ledger of a session, with the row of the call under way, ends less than one
\* call above the ceiling, no call is begun once it is there, and an open session
\* has spent nothing.  (Answers that are never recorded are bounded by
\* ExtractionSpendingIsBounded alone.)
THEOREM ExtractionRecordedSpendingIsCapped == Spec => []RecordedSpendingIsCapped
<1>1. ASSUME IInv, NEW s \in Ids, Ceiling # 0 PROVE ledger[s] + InFlight(s) < Ceiling + MaxCost
  <2>1. ledger[s] \in Nat
    BY <1>1, Types DEF IInv
  <2>2. LedgerRow(s) /\ \A w \in Workers : LedgerOf(w)
    BY <1>1 DEF IInv, LedgerInv
  <2>3. CASE InFlight(s) = 0
    BY <1>1, <2>1, <2>2, <2>3 DEF LedgerRow
  <2>4. ASSUME NEW w \in Workers,
               run[w].at = "answered" /\ run[w].s = s /\ InFlight(s) = run[w].cost
        PROVE  ledger[s] + InFlight(s) < Ceiling + MaxCost
    BY <1>1, <2>2, <2>4 DEF LedgerOf
  <2> QED
    BY <1>1, <2>3, <2>4, InFlightIs
<1>2. IInv => OpenIsUncharged
  BY DEF IInv, SessionInv, OpenIsUncharged
<1>3. ASSUME IInv, NEW w \in Workers, Ceiling # 0, At(w, "calling")
      PROVE  ledger[run[w].s] < Ceiling
  BY <1>3 DEF IInv, LedgerInv, LedgerOf, At
<1>4. IInv => RecordedSpendingIsCapped
  BY <1>1, <1>2, <1>3 DEF RecordedSpendingIsCapped
<1> QED
  BY <1>4, Invariance, PTL

\* A session whose watermark is at its last turn is paid for again only after a
\* watermark write and a watermark read that failed.
THEOREM ExtractionExtractedOnce == Spec => ExtractedOnce
<1> DEFINE Once == \A s \in Ids : upto[s] = Len(turns[s]) /\ billed'[s] # billed[s] => faults >= 2
<1>1. ASSUME IInv, Next PROVE Once
  <2>t. billed \in [Ids -> Nat] /\ TypeOK /\ SessionInv /\ RunInv /\ MarkInv
    BY <1>1, Types DEF IInv
  <2>1. ASSUME NEW s \in Ids, billed'[s] # billed[s]
        PROVE  \E w \in Workers : run[w].at = "calling" /\ run[w].s = s
    <3>1. ~ UNCHANGED spend
      BY <2>1 DEF spend
    <3>2. PICK w \in Workers : Complete(w)
      BY <1>1, <2>1, <3>1
      DEF Next, ClientStep, OpenSession, CloseIdle, AppendTurn, CloseSession, EnqueueExtract,
          ClientCrash, Resolve, Tick, RequeueDead, WorkerStep, Claim, CheckBudget, ReadTurns,
          ReadUpto, Record, Persist, Mark, Finish, WorkerCrash
    <3>3. run[w].at = "calling"
      BY <3>2 DEF Complete, At
    <3>4. run[w].s \in Ids
      BY <2>t, <3>3, ExtractedIsClosed
    <3>5. run[w].s = s
      BY <2>1, <2>t, <3>1, <3>2, <3>4 DEF Complete, Paid
    <3> QED
      BY <3>3, <3>5
  <2> QED
    BY <2>1, <2>t DEF MarkInv, MarkOf
<1>2. ASSUME IInv, [Next]_vars PROVE [Once]_vars
  BY <1>1, <1>2
<1> QED
  BY <1>2, Invariance, PTL DEF Spec, ExtractedOnce
=============================================================================
