------------------------- MODULE DESchedulerProofs -------------------------
(***************************************************************************)
(* Theorems about the run-time schedulers of the discrete-event domain:    *)
(* DEScheduler and CQScheduler as DEScheduler specifies them, either one   *)
(* over any galaxy that its CasesAssumption admits, in any order of the    *)
(* stars in memory and for any way of running and halting the program.     *)
(*                                                                         *)
(* The lemmas come in this order: the depths of the inputs of a galaxy;    *)
(* what the go() of every star may do; the queue; the round of run() with  *)
(* a firing; the times of the events; the events of one arc, which of them *)
(* a firing takes and which it sends; and a step seen from one star.       *)
(***************************************************************************)
EXTENDS DEScheduler, SequenceLemmas, FiniteSetTheorems

-----------------------------------------------------------------------------
(* Recursion along an acyclic relation *)

\* The steps depend on the values at the successors only.
StepsAlong(N, V, succ, step) ==
    /\ \A n \in N : succ[n] \subseteq N
    /\ step \in [N -> [[N -> V] -> V]]
    /\ \A n \in N : \A f, g \in [N -> V] :
          (\A m \in succ[n] : f[m] = g[m]) => step[n][f] = step[n][g]
Solution(N, V, step, f) == f \in [N -> V] /\ \A n \in N : f[n] = step[n][f]

\* A function whose value at n is a step from its values at the successors of n
\* exists, where no path along the successors leads back to its start.
LEMMA DagRecursion ==
  ASSUME NEW N, NEW V, NEW c \in V, NEW succ, NEW step, StepsAlong(N, V, succ, step),
         ~HasCycle(N, succ)
  PROVE  \E f : Solution(N, V, step, f)
<1>1. /\ \A n \in N : succ[n] \subseteq N
      /\ step \in [N -> [[N -> V] -> V]]
      /\ \A n \in N : \A f, g \in [N -> V] :
            (\A m \in succ[n] : f[m] = g[m]) => step[n][f] = step[n][g]
  BY DEF StepsAlong
<1>2. \A C \in SUBSET N : C # {} => \E n \in C : succ[n] \cap C = {}
  BY DEF HasCycle
<1> DEFINE Solves(D, f) == /\ D \subseteq N /\ f \in [N -> V]
                           /\ \A n \in D : succ[n] \subseteq D /\ f[n] = step[n][f]
<1>3. ASSUME NEW D, NEW f, NEW E, NEW g, Solves(D, f), Solves(E, g)
      PROVE  \A n \in D \cap E : f[n] = g[n]
  <2> DEFINE C == {n \in D \cap E : f[n] # g[n]}
  <2>1. SUFFICES ASSUME C # {} PROVE FALSE
    OBVIOUS
  <2>2. PICK n \in C : succ[n] \cap C = {}
    <3>1. C \in SUBSET N
      BY <1>3
    <3> HIDE DEF C
    <3> QED
      BY <1>2, <2>1, <3>1
  <2>3. \A m \in succ[n] : f[m] = g[m]
    <3>1. succ[n] \subseteq D \cap E
      BY <1>3, <2>2
    <3> QED
      BY <2>2, <3>1
  <2>4. n \in N /\ f \in [N -> V] /\ g \in [N -> V] /\ f[n] = step[n][f] /\ g[n] = step[n][g]
    BY <1>3, <2>2
  <2>5. f[n] = g[n]
    BY <1>1, <2>3, <2>4
  <2> QED
    BY <2>2, <2>5
<1> DEFINE U == {n \in N : \E D, f : Solves(D, f) /\ n \in D}
           At(n) == CHOOSE v : \E D, f : Solves(D, f) /\ n \in D /\ f[n] = v
           F == [n \in N |-> IF n \in U THEN At(n) ELSE c]
<1> HIDE DEF Solves
<1>4. \A n : n \in U <=> n \in N /\ \E D, f : Solves(D, f) /\ n \in D
  OBVIOUS
<1>5. \A n \in N : F[n] = IF n \in U THEN At(n) ELSE c
  OBVIOUS
<1>6. \A n \in U : \E D, f : Solves(D, f) /\ n \in D /\ f[n] = At(n)
  <2>1. SUFFICES ASSUME NEW n \in U PROVE \E D, f : Solves(D, f) /\ n \in D /\ f[n] = At(n)
    OBVIOUS
  <2>2. \E v : \E D, f : Solves(D, f) /\ n \in D /\ f[n] = v
    BY <1>4
  <2> QED
    BY <2>2
<1>7. F = [n \in N |-> F[n]]
  OBVIOUS
<1> HIDE DEF F, U, At
<1>8. ASSUME NEW D, NEW f, NEW n \in D, Solves(D, f) PROVE n \in U /\ F[n] = f[n]
  <2>1. n \in U /\ n \in N
    BY <1>8, <1>4 DEF Solves
  <2>2. PICK E, g : Solves(E, g) /\ n \in E /\ g[n] = At(n)
    BY <1>6, <2>1
  <2>3. At(n) = f[n]
    BY <1>3, <1>8, <2>2
  <2> QED
    BY <1>5, <2>1, <2>3
<1>9. F \in [N -> V]
  <2>1. ASSUME NEW n \in N PROVE F[n] \in V
    <3>1. CASE n \in U
      <4>1. PICK D, f : Solves(D, f) /\ n \in D
        BY <1>4, <3>1
      <4>2. F[n] = f[n] /\ f[n] \in V
        BY <1>8, <4>1 DEF Solves
      <4> QED
        BY <4>2
    <3>2. CASE n \notin U
      BY <1>5, <3>2
    <3> QED
      BY <3>1, <3>2
  <2> QED
    BY <1>7, <2>1
<1>10. ASSUME NEW n \in U PROVE succ[n] \subseteq U /\ F[n] = step[n][F]
  <2>1. PICK D, f : Solves(D, f) /\ n \in D
    BY <1>10, <1>4
  <2>2. D \subseteq U /\ \A m \in D : F[m] = f[m]
    BY <1>8, <2>1
  <2>3. succ[n] \subseteq D /\ f[n] = step[n][f] /\ f \in [N -> V] /\ n \in N
    BY <2>1 DEF Solves
  <2>4. step[n][F] = step[n][f]
    BY <1>9, <1>1, <2>2, <2>3
  <2> QED
    BY <2>1, <2>2, <2>3, <2>4
<1>11. U = N
  <2>1. SUFFICES ASSUME N \ U # {} PROVE FALSE
    BY <1>4
  <2>2. PICK n \in N \ U : succ[n] \cap (N \ U) = {}
    BY <1>2, <2>1
  <2>3. succ[n] \subseteq U
    BY <1>1, <2>2
  <2> DEFINE G == [F EXCEPT ![n] = step[n][F]]
  <2>4. G \in [N -> V] /\ G[n] = step[n][F] /\ \A m \in N : m # n => G[m] = F[m]
    BY <1>9, <1>1, <2>2
  <2>5. \A m \in U : m \in N /\ m # n
    BY <1>4, <2>2
  <2> HIDE DEF G
  <2>6. \A m \in U : G[m] = step[m][G]
    <3>1. ASSUME NEW m \in U PROVE step[m][G] = step[m][F]
      <4>1. \A k \in succ[m] : G[k] = F[k]
        BY <1>10, <2>4, <2>5
      <4> QED
        BY <1>9, <1>1, <2>4, <2>5, <4>1
    <3> QED
      BY <1>10, <2>4, <2>5, <3>1
  <2>7. G[n] = step[n][G]
    <3>1. step[n][G] = step[n][F]
      <4>1. \A k \in succ[n] : G[k] = F[k]
        BY <2>3, <2>4, <2>5
      <4> QED
        BY <1>9, <1>1, <2>2, <2>4, <4>1, ZenonT(40)
    <3> QED
      BY <2>4, <3>1
  <2>8. Solves(U \cup {n}, G)
    BY <1>10, <2>2, <2>3, <2>4, <2>5, <2>6, <2>7 DEF Solves
  <2>9. n \in U
    BY <1>8, <2>8
  <2> QED
    BY <2>2, <2>9
<1>12. Solution(N, V, step, F)
  BY <1>9, <1>10, <1>11 DEF Solution
<1> QED
  BY <1>12

-----------------------------------------------------------------------------
(* Galaxies *)

SourceOf(gal, p) == CHOOSE s \in Stars(gal) : p \in ToSet(gal.out[s])

\* The ports of a galaxy.
LEMMA Galaxy ==
  ASSUME NEW gal, IsGalaxy(gal)
  PROVE  /\ Arcs(gal) \subseteq Nat \ {0}
         /\ Stars(gal) = 1..Len(gal.kind) /\ Len(gal.kind) \in Nat
         /\ \A s \in Stars(gal) : /\ gal.in[s] \in Seq(Arcs(gal)) /\ gal.out[s] \in Seq(Arcs(gal))
                                  /\ IsStar(gal.kind[s], gal.param[s], gal.in[s], gal.out[s])
         /\ \A s \in Stars(gal) : \A i \in 1..Len(gal.in[s]) :
               /\ gal.in[s][i] \in Arcs(gal)
               /\ DestOf(gal, gal.in[s][i]) = s /\ IndexOf(gal, gal.in[s][i]) = i
         /\ \A s \in Stars(gal) : \A i \in 1..Len(gal.out[s]) :
               gal.out[s][i] \in Arcs(gal) /\ SourceOf(gal, gal.out[s][i]) = s
         /\ \A s, u \in Stars(gal) : \A i \in 1..Len(gal.out[s]), j \in 1..Len(gal.out[u]) :
               gal.out[s][i] = gal.out[u][j] => s = u /\ i = j
         /\ \A p \in Arcs(gal) : /\ DestOf(gal, p) \in Stars(gal) /\ SourceOf(gal, p) \in Stars(gal)
                                 /\ IndexOf(gal, p) \in 1..Len(gal.in[DestOf(gal, p)])
                                 /\ gal.in[DestOf(gal, p)][IndexOf(gal, p)] = p
                                 /\ \E o \in 1..Len(gal.out[SourceOf(gal, p)]) :
                                       gal.out[SourceOf(gal, p)][o] = p
<1> DEFINE joins(ports) ==
            /\ DOMAIN ports = Stars(gal) /\ ports \in Seq(Seq(Arcs(gal)))
            /\ \A p \in Arcs(gal) : \E s \in Stars(gal) : p \in ToSet(ports[s])
            /\ \A s, u \in Stars(gal) : \A i \in DOMAIN ports[s], j \in DOMAIN ports[u] :
                  ports[s][i] = ports[u][j] => s = u /\ i = j
<1>1. joins(gal.in) /\ joins(gal.out)
  BY DEF IsGalaxy
<1>2. gal.kind \in Seq(STRING) /\ Arcs(gal) \subseteq Nat \ {0}
      /\ \A s \in Stars(gal) : IsStar(gal.kind[s], gal.param[s], gal.in[s], gal.out[s])
  BY DEF IsGalaxy
<1>3. Stars(gal) = 1..Len(gal.kind) /\ Len(gal.kind) \in Nat
  BY <1>2 DEF Stars
<1>4. \A s \in Stars(gal) : gal.in[s] \in Seq(Arcs(gal)) /\ gal.out[s] \in Seq(Arcs(gal))
  <2>1. ASSUME NEW ports, joins(ports), NEW s \in Stars(gal) PROVE ports[s] \in Seq(Arcs(gal))
    <3>1. ports \in Seq(Seq(Arcs(gal))) /\ s \in DOMAIN ports
      BY <2>1
    <3> QED
      BY <3>1
  <2> HIDE DEF joins
  <2> QED
    BY <1>1, <2>1
<1>5. \A s \in Stars(gal) : DOMAIN gal.in[s] = 1..Len(gal.in[s]) /\ DOMAIN gal.out[s] = 1..Len(gal.out[s])
  BY <1>4
<1>6. \A s \in Stars(gal) : /\ \A i \in 1..Len(gal.in[s]) : gal.in[s][i] \in Arcs(gal)
                            /\ \A i \in 1..Len(gal.out[s]) : gal.out[s][i] \in Arcs(gal)
  BY <1>4
<1>7. \A s \in Stars(gal) : \A p : /\ p \in ToSet(gal.in[s]) <=> \E i \in 1..Len(gal.in[s]) : gal.in[s][i] = p
                                   /\ p \in ToSet(gal.out[s]) <=> \E i \in 1..Len(gal.out[s]) : gal.out[s][i] = p
  BY <1>5 DEF ToSet
<1>8. /\ \A s, u \in Stars(gal) : \A i \in 1..Len(gal.in[s]), j \in 1..Len(gal.in[u]) :
            gal.in[s][i] = gal.in[u][j] => s = u /\ i = j
      /\ \A s, u \in Stars(gal) : \A i \in 1..Len(gal.out[s]), j \in 1..Len(gal.out[u]) :
            gal.out[s][i] = gal.out[u][j] => s = u /\ i = j
  <2>1. ASSUME NEW ports, joins(ports),
               \A s \in Stars(gal) : DOMAIN ports[s] = 1..Len(ports[s])
        PROVE  \A s, u \in Stars(gal) : \A i \in 1..Len(ports[s]), j \in 1..Len(ports[u]) :
                  ports[s][i] = ports[u][j] => s = u /\ i = j
    <3>1. SUFFICES ASSUME NEW s \in Stars(gal), NEW u \in Stars(gal), NEW i \in 1..Len(ports[s]),
                          NEW j \in 1..Len(ports[u]), ports[s][i] = ports[u][j]
                   PROVE  s = u /\ i = j
      OBVIOUS
    <3>2. i \in DOMAIN ports[s] /\ j \in DOMAIN ports[u]
      BY <2>1
    <3> QED
      BY <2>1, <3>1, <3>2
  <2> HIDE DEF joins
  <2> QED
    BY <1>1, <1>5, <2>1
<1>9. \A p \in Arcs(gal) : /\ \E s \in Stars(gal) : p \in ToSet(gal.in[s])
                           /\ \E s \in Stars(gal) : p \in ToSet(gal.out[s])
  BY <1>1
<1> HIDE DEF joins
<1>10. ASSUME NEW s \in Stars(gal), NEW i \in 1..Len(gal.in[s])
       PROVE  DestOf(gal, gal.in[s][i]) = s /\ IndexOf(gal, gal.in[s][i]) = i
  <2> DEFINE p == gal.in[s][i]
  <2>1. p \in ToSet(gal.in[s]) /\ \A u \in Stars(gal) : p \in ToSet(gal.in[u]) => u = s
    <3>1. p \in ToSet(gal.in[s])
      BY <1>7
    <3>2. ASSUME NEW u \in Stars(gal), p \in ToSet(gal.in[u]) PROVE u = s
      <4>1. PICK j \in 1..Len(gal.in[u]) : gal.in[u][j] = p
        BY <1>7, <3>2
      <4> QED
        BY <1>8, <4>1
    <3> QED
      BY <3>1, <3>2
  <2>2. DestOf(gal, p) = s
    BY <2>1 DEF DestOf
  <2>3. IndexOf(gal, p) = CHOOSE j \in 1..Len(gal.in[s]) : gal.in[s][j] = p
    BY <1>5, <2>2 DEF IndexOf
  <2>4. \A j \in 1..Len(gal.in[s]) : gal.in[s][j] = p => j = i
    BY <1>8
  <2> QED
    BY <2>2, <2>3, <2>4
<1>11. ASSUME NEW s \in Stars(gal), NEW i \in 1..Len(gal.out[s])
       PROVE  SourceOf(gal, gal.out[s][i]) = s
  <2> DEFINE p == gal.out[s][i]
  <2>1. p \in ToSet(gal.out[s]) /\ \A u \in Stars(gal) : p \in ToSet(gal.out[u]) => u = s
    <3>1. p \in ToSet(gal.out[s])
      BY <1>7
    <3>2. ASSUME NEW u \in Stars(gal), p \in ToSet(gal.out[u]) PROVE u = s
      <4>1. PICK j \in 1..Len(gal.out[u]) : gal.out[u][j] = p
        BY <1>7, <3>2
      <4> QED
        BY <1>8, <4>1
    <3> QED
      BY <3>1, <3>2
  <2> QED
    BY <2>1 DEF SourceOf
<1>12. ASSUME NEW p \in Arcs(gal)
       PROVE  /\ DestOf(gal, p) \in Stars(gal) /\ SourceOf(gal, p) \in Stars(gal)
              /\ IndexOf(gal, p) \in 1..Len(gal.in[DestOf(gal, p)])
              /\ gal.in[DestOf(gal, p)][IndexOf(gal, p)] = p
              /\ \E o \in 1..Len(gal.out[SourceOf(gal, p)]) : gal.out[SourceOf(gal, p)][o] = p
  <2>1. PICK s \in Stars(gal) : \E i \in 1..Len(gal.in[s]) : gal.in[s][i] = p
    BY <1>7, <1>9
  <2>2. PICK u \in Stars(gal) : \E o \in 1..Len(gal.out[u]) : gal.out[u][o] = p
    BY <1>7, <1>9
  <2>3. PICK i \in 1..Len(gal.in[s]) : gal.in[s][i] = p
    BY <2>1
  <2>4. DestOf(gal, p) = s /\ IndexOf(gal, p) = i
    BY <1>10, <2>3
  <2>5. SourceOf(gal, p) = u
    BY <1>11, <2>2
  <2> QED
    BY <2>2, <2>4, <2>5, <2>3
<1> QED
  BY <1>2, <1>3, <1>4, <1>6, <1>8, <1>10, <1>11, <1>12

LEMMA BeforeIs ==
  ASSUME NEW gal, IsGalaxy(gal), NEW s \in Stars(gal), NEW i \in 1..Len(gal.in[s]),
         Before(gal.kind[s], i) # 0
  PROVE  Before(gal.kind[s], i) \in 1..Len(gal.in[s])
<1>1. IsStar(gal.kind[s], gal.param[s], gal.in[s], gal.out[s])
  BY Galaxy
<1>2. i \in Nat
  OBVIOUS
<1>3. CASE gal.kind[s] = "Sampler"
  BY <1>1, <1>3, SMTT(30) DEF IsStar, Before
<1>4. CASE gal.kind[s] = "UDCounter"
  <2>1. Len(gal.in[s]) = 4
    BY <1>1, <1>4 DEF IsStar
  <2>2. Before(gal.kind[s], i) = 4
    BY <1>4 DEF Before
  <2> QED
    BY <2>1, <2>2
<1>5. CASE gal.kind[s] = "FIFOQueue"
  BY <1>1, <1>5 DEF IsStar, Before
<1>6. CASE gal.kind[s] \notin {"Sampler", "UDCounter", "FIFOQueue"}
  BY <1>1, <1>6 DEF IsStar, Before
<1> QED
  BY <1>3, <1>4, <1>5, <1>6

\* What an input reaches without a delay, and the input it is to be before.
LEMMA ReachesIs ==
  ASSUME NEW gal, IsGalaxy(gal), NEW s \in Stars(gal), NEW i \in 1..Len(gal.in[s])
  PROVE  /\ Reaches(gal, gal.in[s][i]) \subseteq Arcs(gal)
         /\ IsFiniteSet(Reaches(gal, gal.in[s][i]))
         /\ DelayType(gal, s) => Reaches(gal, gal.in[s][i]) = {}
         /\ Triggered(gal.kind[s], i, 1..Len(gal.out[s])) = {} => Reaches(gal, gal.in[s][i]) = {}
         /\ \A o \in 1..Len(gal.out[s]) :
               /\ o \in Triggered(gal.kind[s], i, 1..Len(gal.out[s]))
               /\ ~DelayType(gal, s) /\ gal.out[s][o] \notin gal.tokens
               => gal.out[s][o] \in Reaches(gal, gal.in[s][i])
         /\ BeforeInput(gal, gal.in[s][i]) \subseteq Arcs(gal)
         /\ IsFiniteSet(BeforeInput(gal, gal.in[s][i]))
         /\ Before(gal.kind[s], i) # 0 /\ ~DelayType(gal, s)
            => BeforeInput(gal, gal.in[s][i]) = {gal.in[s][Before(gal.kind[s], i)]}
         /\ Before(gal.kind[s], i) = 0 => BeforeInput(gal, gal.in[s][i]) = {}
<1> DEFINE p == gal.in[s][i]
           t == Triggered(gal.kind[s], i, 1..Len(gal.out[s]))
           a == AffectedBy(gal, p)
<1>1. p \in Arcs(gal) /\ DestOf(gal, p) = s /\ IndexOf(gal, p) = i /\ gal.out[s] \in Seq(Arcs(gal))
  BY Galaxy
<1>2. a = Kept(gal.out[s], t)
  <2>1. DOMAIN gal.out[s] = 1..Len(gal.out[s])
    BY <1>1
  <2> QED
    BY <1>1, <2>1 DEF AffectedBy
<1> HIDE DEF t, a
<1>3. PICK o : KeptAlong(Arcs(gal), gal.out[s], t, o)
  BY <1>1, KeptIs
<1>4. /\ Enumerates(o, t \cap (1..Len(gal.out[s])))
      /\ a \in Seq(Arcs(gal)) /\ Len(a) = Len(o)
      /\ \A k \in 1..Len(o) : o[k] \in 1..Len(gal.out[s]) /\ a[k] = gal.out[s][o[k]]
  BY <1>2, <1>3 DEF KeptAlong
<1>5. Reaches(gal, p) = IF DelayType(gal, s) THEN {} ELSE ToSet(a) \ gal.tokens
  BY <1>1 DEF Reaches, a
<1>6. ToSet(a) = {a[k] : k \in 1..Len(a)} /\ DOMAIN a = 1..Len(a) /\ Len(a) \in Nat
  BY <1>4 DEF ToSet
<1>7. ToSet(a) \subseteq Arcs(gal) /\ IsFiniteSet(ToSet(a))
  <2>1. IsFiniteSet(1..Len(a))
    BY <1>6, FS_Interval
  <2>2. IsFiniteSet({a[k] : k \in 1..Len(a)})
    BY <1>6, <2>1, ImageIsFinite
  <2>3. \A k \in 1..Len(a) : a[k] \in Arcs(gal)
    BY <1>4
  <2> QED
    BY <1>6, <2>2, <2>3
<1>8. Reaches(gal, p) \subseteq Arcs(gal) /\ IsFiniteSet(Reaches(gal, p))
  <2>1. Reaches(gal, p) \in SUBSET ToSet(a)
    BY <1>5
  <2> QED
    BY <1>7, <2>1, FS_Subset
<1>9. ASSUME NEW k \in 1..Len(gal.out[s]), k \in t, ~DelayType(gal, s), gal.out[s][k] \notin gal.tokens
      PROVE  gal.out[s][k] \in Reaches(gal, p)
  <2>1. PICK j \in 1..Len(o) : o[j] = k
    BY <1>4, <1>9 DEF Enumerates
  <2>2. a[j] = gal.out[s][k] /\ j \in 1..Len(a)
    BY <1>4, <2>1
  <2> QED
    BY <1>5, <1>6, <1>9, <2>2
<1>10. t = {} => Reaches(gal, p) = {}
  <2>1. t = {} => \A k \in 1..Len(o) : FALSE
    BY <1>4 DEF Enumerates
  <2> QED
    BY <1>4, <1>5, <1>6, <2>1
<1>11. BeforeInput(gal, p) = IF Before(gal.kind[s], i) = 0 \/ DelayType(gal, s) THEN {}
                             ELSE {gal.in[s][Before(gal.kind[s], i)]}
  BY <1>1 DEF BeforeInput
<1>12. BeforeInput(gal, p) \subseteq Arcs(gal) /\ IsFiniteSet(BeforeInput(gal, p))
  <2>1. CASE Before(gal.kind[s], i) = 0 \/ DelayType(gal, s)
    BY <1>11, <2>1, FS_EmptySet
  <2>2. CASE ~(Before(gal.kind[s], i) = 0 \/ DelayType(gal, s))
    <3>1. gal.in[s][Before(gal.kind[s], i)] \in Arcs(gal)
      BY <2>2, BeforeIs, Galaxy, SMTT(30)
    <3>2. IsFiniteSet({gal.in[s][Before(gal.kind[s], i)]})
      BY FS_Singleton
    <3> QED
      BY <1>11, <2>2, <3>1, <3>2
  <2> QED
    BY <2>1, <2>2
<1>13. DelayType(gal, s) => Reaches(gal, p) = {}
  BY <1>5
<1> QED
  BY <1>8, <1>9, <1>10, <1>11, <1>12, <1>13 DEF t

\* The set of which LongestPath takes the minimum.
Below(gal, p, f) ==
    {-1} \cup {f[q] - 1 : q \in Reaches(gal, p)} \cup {f[b] : b \in BeforeInput(gal, p)}

LEMMA BelowIs ==
  ASSUME NEW gal, IsGalaxy(gal), NEW p \in Arcs(gal), NEW f \in [Arcs(gal) -> Int]
  PROVE  /\ Min(Below(gal, p, f)) \in Below(gal, p, f) /\ Min(Below(gal, p, f)) \in Int
         /\ \A y \in Below(gal, p, f) : y \in Int /\ Min(Below(gal, p, f)) <= y
<1> DEFINE R == Reaches(gal, p)
           B == BeforeInput(gal, p)
<1>1. R \subseteq Arcs(gal) /\ IsFiniteSet(R) /\ B \subseteq Arcs(gal) /\ IsFiniteSet(B)
  <2>1. \A s \in Stars(gal) : \A i \in 1..Len(gal.in[s]) :
           /\ Reaches(gal, gal.in[s][i]) \subseteq Arcs(gal) /\ IsFiniteSet(Reaches(gal, gal.in[s][i]))
           /\ BeforeInput(gal, gal.in[s][i]) \subseteq Arcs(gal)
           /\ IsFiniteSet(BeforeInput(gal, gal.in[s][i]))
    BY ReachesIs
  <2>2. /\ DestOf(gal, p) \in Stars(gal) /\ IndexOf(gal, p) \in 1..Len(gal.in[DestOf(gal, p)])
        /\ gal.in[DestOf(gal, p)][IndexOf(gal, p)] = p
    BY Galaxy
  <2> QED
    BY <2>1, <2>2
<1> HIDE DEF R, B
<1>2. IsFiniteSet({f[q] - 1 : q \in R})
  <2> DEFINE g == [q \in R |-> f[q] - 1]
  <2>1. DOMAIN g = R /\ {g[q] : q \in R} = {f[q] - 1 : q \in R}
    OBVIOUS
  <2> HIDE DEF g
  <2>2. IsFiniteSet({g[q] : q \in R})
    BY <1>1, <2>1, ImageIsFinite
  <2> QED
    BY <2>1, <2>2
<1>3. IsFiniteSet({f[b] : b \in B})
  <2> DEFINE g == [q \in B |-> f[q]]
  <2>1. DOMAIN g = B /\ {g[q] : q \in B} = {f[q] : q \in B}
    OBVIOUS
  <2> HIDE DEF g
  <2>2. IsFiniteSet({g[q] : q \in B})
    BY <1>1, <2>1, ImageIsFinite
  <2> QED
    BY <2>1, <2>2
<1>4. IsFiniteSet({-1} \cup {f[q] - 1 : q \in R})
  <2>1. IsFiniteSet({-1})
    BY FS_Singleton
  <2> QED
    BY <1>2, <2>1, FS_Union
<1>5. IsFiniteSet(Below(gal, p, f))
  BY <1>3, <1>4, FS_Union DEF Below, R, B
<1>6. Below(gal, p, f) \subseteq Int /\ Below(gal, p, f) # {}
  BY <1>1 DEF Below, R, B
<1> QED
  BY <1>5, <1>6, FiniteMinimum

LEMMA LongestPathIs ==
  ASSUME NEW gal, IsGalaxy(gal)
  PROVE  /\ LongestPath(gal) \in [Arcs(gal) -> Int]
         /\ \A p \in Arcs(gal) : LongestPath(gal)[p] = Min(Below(gal, p, LongestPath(gal)))
<1> DEFINE N == Arcs(gal)
           succ == [p \in N |-> Reaches(gal, p) \cup BeforeInput(gal, p)]
           F == [N -> Int]
           step == [p \in N |-> [f \in F |-> Min(Below(gal, p, f))]]
<1>1. ~HasCycle(N, succ)
  BY DEF IsGalaxy
<1>2. \A p \in N : succ[p] \subseteq N
  <2>1. \A s \in Stars(gal) : \A i \in 1..Len(gal.in[s]) :
           /\ Reaches(gal, gal.in[s][i]) \subseteq Arcs(gal)
           /\ BeforeInput(gal, gal.in[s][i]) \subseteq Arcs(gal)
    BY ReachesIs
  <2>2. \A p \in Arcs(gal) :
           /\ DestOf(gal, p) \in Stars(gal) /\ IndexOf(gal, p) \in 1..Len(gal.in[DestOf(gal, p)])
           /\ gal.in[DestOf(gal, p)][IndexOf(gal, p)] = p
    BY Galaxy
  <2> QED
    BY <2>1, <2>2
<1>3. step \in [N -> [F -> Int]]
  <2>1. \A p \in N, f \in F : Min(Below(gal, p, f)) \in Int
    BY BelowIs
  <2> QED
    BY <2>1
<1>4. \A p \in N, f \in F : step[p][f] = Min(Below(gal, p, f))
  OBVIOUS
<1>5. ASSUME NEW p \in N, NEW f \in F, NEW g \in F, \A q \in succ[p] : f[q] = g[q]
      PROVE  step[p][f] = step[p][g]
  <2>1. \A q \in Reaches(gal, p) \cup BeforeInput(gal, p) : f[q] = g[q]
    BY <1>5
  <2>2. Below(gal, p, f) = Below(gal, p, g)
    <3>1. {f[q] - 1 : q \in Reaches(gal, p)} = {g[q] - 1 : q \in Reaches(gal, p)}
      BY <2>1
    <3>2. {f[q] : q \in BeforeInput(gal, p)} = {g[q] : q \in BeforeInput(gal, p)}
      BY <2>1
    <3> QED
      BY <3>1, <3>2 DEF Below
  <2> QED
    BY <1>4, <2>2
<1> HIDE DEF step, succ
<1>6. PICK f : Solution(N, Int, step, f)
  <2>1. 0 \in Int
    OBVIOUS
  <2>2. \A p \in N : \A f, g \in F : (\A q \in succ[p] : f[q] = g[q]) => step[p][f] = step[p][g]
    BY <1>5
  <2>3. StepsAlong(N, Int, succ, step)
    BY <1>2, <1>3, <2>2 DEF StepsAlong
  <2> HIDE DEF N
  <2> QED
    BY <1>1, <2>1, <2>3, DagRecursion
<1>7. f \in [N -> Int] /\ \A p \in N : f[p] = step[p][f]
  BY <1>6 DEF Solution
<1> DEFINE Is(h) == h = [p \in N |-> Min({-1} \cup {h[q] - 1 : q \in Reaches(gal, p)}
                                             \cup {h[b] : b \in BeforeInput(gal, p)})]
<1>8. Is(f)
  <2>1. f = [p \in N |-> Min(Below(gal, p, f))]
    BY <1>4, <1>7
  <2> QED
    BY <2>1 DEF Below
<1>9. PICK h : h = CHOOSE d : Is(d)
  OBVIOUS
<1>10. LongestPath(gal) = h
  BY <1>9 DEF LongestPath
<1>11. Is(h)
  <2> HIDE DEF Is
  <2> QED
    BY <1>8, <1>9
<1>12. h = [p \in N |-> Min(Below(gal, p, h))]
  BY <1>11 DEF Below
<1> HIDE DEF Is
<1>13. \A p \in N : h[p] = f[p]
  <2> DEFINE C == {p \in N : h[p] # f[p]}
  <2>1. SUFFICES ASSUME C # {} PROVE FALSE
    OBVIOUS
  <2>2. PICK p \in C : succ[p] \cap C = {}
    <3>1. C \in SUBSET N
      OBVIOUS
    <3> HIDE DEF C
    <3> QED
      BY <1>1, <2>1, <3>1 DEF HasCycle
  <2>3. \A q \in succ[p] : h[q] = f[q]
    BY <1>2, <2>2
  <2>4. Below(gal, p, h) = Below(gal, p, f)
    <3>1. \A q \in Reaches(gal, p) \cup BeforeInput(gal, p) : h[q] = f[q]
      BY <2>2, <2>3 DEF succ
    <3>2. {f[q] - 1 : q \in Reaches(gal, p)} = {h[q] - 1 : q \in Reaches(gal, p)}
      BY <3>1
    <3>3. {f[q] : q \in BeforeInput(gal, p)} = {h[q] : q \in BeforeInput(gal, p)}
      BY <3>1
    <3> QED
      BY <3>2, <3>3 DEF Below
  <2>5. h[p] = f[p]
    BY <1>4, <1>7, <1>12, <2>2, <2>4
  <2> QED
    BY <2>2, <2>5
<1>14. h \in [N -> Int]
  <2>1. \A p \in N : h[p] \in Int
    BY <1>7, <1>13
  <2>2. h = [p \in N |-> h[p]]
    BY <1>12
  <2> QED
    BY <2>1, <2>2
<1> QED
  BY <1>10, <1>12, <1>14

\* No path along the reached inputs and those to be before others is closed.
Following(gal) == [p \in Arcs(gal) |-> Reaches(gal, p) \cup BeforeInput(gal, p)]

LEMMA FollowingIs ==
  ASSUME NEW gal, IsGalaxy(gal)
  PROVE  /\ \A p \in Arcs(gal) : Reaches(gal, p) \subseteq Arcs(gal) /\ BeforeInput(gal, p) \subseteq Arcs(gal)
         /\ \A C \in SUBSET Arcs(gal) : C # {} => \E p \in C : Reaches(gal, p) \cap C = {}
         /\ ~HasCycle(Arcs(gal), Following(gal))
<1>1. ~HasCycle(Arcs(gal), Following(gal))
  BY DEF IsGalaxy, Following
<1>2. ASSUME NEW C \in SUBSET Arcs(gal), C # {} PROVE \E p \in C : Reaches(gal, p) \cap C = {}
  <2>1. \E p \in C : Following(gal)[p] \cap C = {}
    BY <1>1, <1>2 DEF HasCycle
  <2>2. \A p \in C : Reaches(gal, p) \subseteq Following(gal)[p]
    BY <1>2 DEF Following
  <2> QED
    BY <2>1, <2>2
<1>3. \A s \in Stars(gal) : \A i \in 1..Len(gal.in[s]) :
         /\ Reaches(gal, gal.in[s][i]) \subseteq Arcs(gal)
         /\ BeforeInput(gal, gal.in[s][i]) \subseteq Arcs(gal)
  BY ReachesIs
<1>4. \A p \in Arcs(gal) :
         /\ DestOf(gal, p) \in Stars(gal) /\ IndexOf(gal, p) \in 1..Len(gal.in[DestOf(gal, p)])
         /\ gal.in[DestOf(gal, p)][IndexOf(gal, p)] = p
  BY Galaxy
<1> QED
  BY <1>1, <1>2, <1>3, <1>4

\* An input is less deep than those it reaches, and no deeper than the one it is
\* to be before.
LEMMA Depths ==
  ASSUME NEW gal, IsGalaxy(gal), NEW d, d = LongestPath(gal)
  PROVE  /\ d \in [Arcs(gal) -> Int]
         /\ \A p \in Arcs(gal) : /\ d[p] <= -1 /\ (\A q \in Reaches(gal, p) : d[p] < d[q])
                                 /\ \A b \in BeforeInput(gal, p) : d[p] <= d[b]
<1>1. d \in [Arcs(gal) -> Int] /\ \A p \in Arcs(gal) : d[p] = Min(Below(gal, p, d))
  BY LongestPathIs
<1>2. ASSUME NEW p \in Arcs(gal)
      PROVE  /\ d[p] <= -1 /\ (\A q \in Reaches(gal, p) : d[p] < d[q])
             /\ \A b \in BeforeInput(gal, p) : d[p] <= d[b]
  <2>1. \A y \in Below(gal, p, d) : y \in Int /\ d[p] <= y
    BY <1>1, BelowIs
  <2>2. /\ -1 \in Below(gal, p, d) /\ (\A q \in Reaches(gal, p) : d[q] - 1 \in Below(gal, p, d))
        /\ \A b \in BeforeInput(gal, p) : d[b] \in Below(gal, p, d)
    BY DEF Below
  <2>3. d[p] \in Int /\ \A q \in Reaches(gal, p) : d[q] \in Int
    BY <1>1, FollowingIs
  <2> QED
    BY <2>1, <2>2, <2>3
<1> QED
  BY <1>1, <1>2

\* Affected(kind, i, outputs): the outputs at which an event at input i, or at the
\* one it is to be before, can cause one.
Affected(kind, i, outputs) ==
    Triggered(kind, i, outputs)
        \cup (IF Before(kind, i) = 0 THEN {} ELSE Triggered(kind, Before(kind, i), outputs))

LEMMA AffectedIsDeeper ==
  ASSUME NEW gal, IsGalaxy(gal), NEW d, d = LongestPath(gal),
         NEW s \in Stars(gal), ~DelayType(gal, s), NEW i \in 1..Len(gal.in[s]),
         NEW o \in 1..Len(gal.out[s]), o \in Affected(gal.kind[s], i, 1..Len(gal.out[s])),
         gal.out[s][o] \notin gal.tokens
  PROVE  d[gal.in[s][i]] < d[gal.out[s][o]]
<1> DEFINE p == gal.in[s][i]
           q == gal.out[s][o]
           k == gal.kind[s]
<1>1. p \in Arcs(gal) /\ q \in Arcs(gal)
  BY Galaxy
<1>2. d \in [Arcs(gal) -> Int]
  BY Depths
<1>3. CASE o \in Triggered(k, i, 1..Len(gal.out[s]))
  <2>1. q \in Reaches(gal, p)
    BY <1>3, ReachesIs
  <2> QED
    BY <1>1, <2>1, Depths
<1>4. CASE o \notin Triggered(k, i, 1..Len(gal.out[s]))
  <2>1. Before(k, i) # 0 /\ o \in Triggered(k, Before(k, i), 1..Len(gal.out[s]))
    BY <1>4 DEF Affected
  <2> DEFINE j == Before(k, i)
             b == gal.in[s][j]
  <2>2. j \in 1..Len(gal.in[s])
    BY <2>1, BeforeIs
  <2>3. b \in Arcs(gal) /\ BeforeInput(gal, p) = {b}
    <3>1. b \in Arcs(gal)
      <4> HIDE DEF j
      <4> QED
        BY <2>2, Galaxy
    <3>2. BeforeInput(gal, p) = {b}
      BY <2>1, ReachesIs
    <3> QED
      BY <3>1, <3>2
  <2>4. q \in Reaches(gal, b)
    BY <2>1, <2>2, ReachesIs
  <2> HIDE DEF p, q, b
  <2>5. d[b] < d[q] /\ d[p] <= d[b]
    BY <1>1, <2>3, <2>4, Depths
  <2> QED
    BY <1>1, <1>2, <2>3, <2>5 DEF p, q, b
<1> QED
  BY <1>3, <1>4

\* All inputs of a counter, and of a sampler, have the same depth.
LEMMA EvenDepths ==
  ASSUME NEW gal, IsGalaxy(gal), NEW d, d = LongestPath(gal),
         NEW s \in Stars(gal), gal.kind[s] \in {"UDCounter", "Sampler"}
  PROVE  \A i, j \in 1..Len(gal.in[s]) : d[gal.in[s][i]] = d[gal.in[s][j]]
<1>1. IsStar(gal.kind[s], gal.param[s], gal.in[s], gal.out[s])
  BY Galaxy
<1>2. PICK last \in 1..Len(gal.in[s]) :
         \A i \in 1..Len(gal.in[s]) : i # last =>
            /\ Triggered(gal.kind[s], i, 1..Len(gal.out[s])) = {}
            /\ Before(gal.kind[s], i) = last
  <2>1. CASE gal.kind[s] = "UDCounter"
    <3>1. Len(gal.in[s]) = 4
      BY <1>1, <2>1 DEF IsStar
    <3>2. \A i \in 1..4 : i # 4 => /\ Triggered("UDCounter", i, 1..Len(gal.out[s])) = {}
                                   /\ Before("UDCounter", i) = 4
      BY DEF Triggered, Before
    <3> QED
      BY <2>1, <3>1, <3>2
  <2>2. CASE gal.kind[s] = "Sampler"
    <3>1. Len(gal.in[s]) = 2
      BY <1>1, <2>2 DEF IsStar
    <3>2. \A i \in 1..2 : i # 2 => /\ Triggered("Sampler", i, 1..Len(gal.out[s])) = {}
                                   /\ Before("Sampler", i) = 2
      BY DEF Triggered, Before
    <3> QED
      BY <2>2, <3>1, <3>2
  <2> QED
    BY <2>1, <2>2
<1>3. ~DelayType(gal, s)
  BY DEF DelayType
<1>4. ASSUME NEW i \in 1..Len(gal.in[s]) PROVE d[gal.in[s][i]] = d[gal.in[s][last]]
  <2>1. CASE i = last
    BY <2>1
  <2>2. CASE i # last
    <3> DEFINE p == gal.in[s][i]
               b == gal.in[s][last]
    <3>1. Reaches(gal, p) = {}
      BY <1>2, <2>2, ReachesIs
    <3>2. BeforeInput(gal, p) = {b}
      <4>1. Before(gal.kind[s], i) = last /\ last # 0
        BY <1>2, <2>2
      <4> QED
        BY <1>3, <4>1, ReachesIs
    <3>3. p \in Arcs(gal) /\ b \in Arcs(gal)
      BY Galaxy
    <3> HIDE DEF p, b
    <3>4. d \in [Arcs(gal) -> Int] /\ d[p] = Min(Below(gal, p, d)) /\ d[b] <= -1
      BY <3>3, LongestPathIs, Depths
    <3>5. Below(gal, p, d) = {-1, d[b]}
      BY <3>1, <3>2 DEF Below
    <3>6. d[p] \in {-1, d[b]} /\ d[p] <= d[b]
      <4>1. /\ Min(Below(gal, p, d)) \in Below(gal, p, d)
            /\ \A y \in Below(gal, p, d) : Min(Below(gal, p, d)) <= y
        BY <3>3, <3>4, BelowIs
      <4> QED
        BY <3>4, <3>5, <4>1
    <3>7. d[p] = d[b]
      BY <3>3, <3>4, <3>6
    <3> QED
      BY <3>7 DEF p, b
  <2> QED
    BY <2>1, <2>2
<1> QED
  BY <1>4

\* What is reached in no time is deeper.
LEMMA ReachedIsDeeper ==
  ASSUME NEW gal, IsGalaxy(gal), NEW d, d = LongestPath(gal), NEW p \in Arcs(gal),
         NEW q \in AllReached(gal)[p]
  PROVE  q \in Arcs(gal) /\ d[p] < d[q]
<1> DEFINE N == Arcs(gal)
           succ == Following(gal)
           V == SUBSET N
           F == [N -> V]
           step == [a \in N |-> [f \in F |-> UNION {{r} \cup f[r] : r \in Reaches(gal, a)}]]
<1>1. step \in [N -> [F -> V]]
  <2>1. ASSUME NEW a \in N, NEW f \in F
        PROVE  UNION {{r} \cup f[r] : r \in Reaches(gal, a)} \in V
    <3>1. Reaches(gal, a) \subseteq N
      BY FollowingIs
    <3> QED
      BY <3>1
  <2> QED
    BY <2>1
<1>2. \A a \in N, f \in F : step[a][f] = UNION {{r} \cup f[r] : r \in Reaches(gal, a)}
  OBVIOUS
<1>3. ASSUME NEW a \in N, NEW f \in F, NEW g \in F, \A r \in succ[a] : f[r] = g[r]
      PROVE  step[a][f] = step[a][g]
  <2>1. \A r \in Reaches(gal, a) : f[r] = g[r]
    BY <1>3 DEF Following
  <2>2. {{r} \cup f[r] : r \in Reaches(gal, a)} = {{r} \cup g[r] : r \in Reaches(gal, a)}
    BY <2>1
  <2> QED
    BY <1>2, <2>2
<1> HIDE DEF step
<1>4. PICK f : Solution(N, V, step, f)
  <2>1. \A a \in N : succ[a] \subseteq N
    BY FollowingIs DEF Following
  <2>2. \A a \in N : \A f, g \in F : (\A r \in succ[a] : f[r] = g[r]) => step[a][f] = step[a][g]
    BY <1>3
  <2>3. StepsAlong(N, V, succ, step) /\ {} \in V
    BY <1>1, <2>1, <2>2 DEF StepsAlong
  <2>4. ~HasCycle(N, succ)
    BY FollowingIs
  <2> HIDE DEF N, V, succ
  <2> QED
    BY <2>3, <2>4, DagRecursion
<1>5. f \in F /\ \A a \in N : f[a] = step[a][f]
  BY <1>4 DEF Solution
<1> DEFINE Is(h) == h = [a \in N |-> UNION {{r} \cup h[r] : r \in Reaches(gal, a)}]
<1>6. Is(f)
  BY <1>2, <1>5
<1>7. PICK h : h = CHOOSE x : Is(x)
  OBVIOUS
<1>8. AllReached(gal) = h
  BY <1>7 DEF AllReached
<1>9. Is(h)
  <2> HIDE DEF Is
  <2> QED
    BY <1>6, <1>7
<1>10. \A a \in N : h[a] = UNION {{r} \cup h[r] : r \in Reaches(gal, a)}
  BY <1>9
<1> HIDE DEF Is
<1> DEFINE Good(a) == \A r \in h[a] : r \in N /\ d[a] < d[r]
           C == {a \in N : ~Good(a)}
<1>11. C = {}
  <2>1. SUFFICES ASSUME C # {} PROVE FALSE
    OBVIOUS
  <2>2. PICK a \in C : Reaches(gal, a) \cap C = {}
    <3>1. C \in SUBSET N
      OBVIOUS
    <3> HIDE DEF C
    <3> QED
      BY <2>1, <3>1, FollowingIs
  <2>3. a \in N /\ ~Good(a)
    BY <2>2
  <2>4. \A b \in Reaches(gal, a) : b \in N /\ d[a] < d[b] /\ Good(b)
    <3>1. \A b \in Reaches(gal, a) : b \in N /\ d[a] < d[b]
      BY <2>3, FollowingIs, Depths
    <3> QED
      BY <2>2, <3>1
  <2>5. \A b \in N : d[b] \in Int
    BY Depths
  <2>6. ASSUME NEW r \in h[a] PROVE r \in N /\ d[a] < d[r]
    <3>1. PICK b \in Reaches(gal, a) : r \in {b} \cup h[b]
      BY <1>10, <2>3
    <3> QED
      BY <2>3, <2>4, <2>5, <3>1
  <2> QED
    BY <2>3, <2>6
<1> QED
  BY <1>8, <1>11

-----------------------------------------------------------------------------
(* What a go() does *)

ReadableSet == [new : BOOLEAN, vals : Seq(Int)]
QueueMemory == {m \in [queue : Seq(Int), pending : Nat] : m.queue = <<>> \/ m.pending = 0}
SumsMemory == [start : Int, sum : Int, squares : Int, previous : Int]
MemorySet(kind) == IF kind = "FIFOQueue" THEN QueueMemory
                   ELSE IF kind = "Statistics" THEN SumsMemory ELSE Int
StarSet(kind) == [completionTime : Nat, memory : MemorySet(kind)]

\* The stars that plan ahead what they put.
Planned == {"Clock", "Delay", "Server"}

\* The inputs whose dataNew a go() may leave set.
HeldPort(kind, i) == \/ kind \in {"Clock", "Ramp"}
                     \/ kind = "Sampler" /\ i = 1
                     \/ kind = "Statistics" /\ i < 3

\* What can be relied on when go() is called: st is the star, port are its inputs.
Callable(kind, param, ins, st, port, t) ==
    /\ st \in StarSet(kind) /\ port \in Seq(ReadableSet) /\ Len(port) = ins /\ t \in Nat
    /\ \E i \in 1..ins : port[i].new
    /\ kind # "Statistics" => \A i \in 1..ins : port[i].vals # <<>>
    /\ kind = "Clock" => t <= st.completionTime
    /\ kind = "Delay" => st.completionTime <= t + param

\* One put of a go() at time t, that leaves the star as after.
SoundPut(kind, ins, outs, st, port, t, after, put) ==
    /\ put.out \in 1..outs /\ put.time >= t
    /\ kind \in {"Delay", "Server"} => put.time > t
    /\ \E i \in 1..ins : port[i].new /\ put.out \in Affected(kind, i, 1..outs)
    /\ IF kind \in Planned THEN st.completionTime <= put.time /\ put.time <= after.completionTime
       ELSE put.time = t

\* What can be relied on when it returns r.
Sound(kind, param, ins, outs, st, port, t, r) ==
    /\ r.star \in StarSet(kind) /\ r.puts \in Seq(PutSet)
    /\ r.drained \subseteq 1..ins /\ r.cleared \subseteq 1..ins
    /\ r.ok \in BOOLEAN /\ (kind # "Statistics" => r.ok)
    /\ \A j \in 1..Len(r.puts) : SoundPut(kind, ins, outs, st, port, t, r.star, r.puts[j])
    /\ \A j, k \in 1..Len(r.puts) : r.puts[j].time = r.puts[k].time
    /\ kind \in Planned => st.completionTime <= r.star.completionTime
    /\ kind = "Delay" => r.star.completionTime <= t + param
    /\ \A i \in 1..ins : port[i].new /\ i \notin r.drained \cup r.cleared => HeldPort(kind, i) \/ ~r.ok

LEMMA PutIs ==
  ASSUME NEW o \in Nat, NEW t \in Nat, NEW v \in Int
  PROVE  /\ Put(o, t, v) \in PutSet /\ Put(o, t, v).out = o /\ Put(o, t, v).time = t
         /\ Put(o, t, v).val = v /\ <<Put(o, t, v)>> \in Seq(PutSet)
         /\ Len(<<Put(o, t, v)>>) = 1 /\ <<Put(o, t, v)>>[1] = Put(o, t, v)
BY DEF Put, PutSet

LEMMA PortIs ==
  ASSUME NEW ins, NEW port \in Seq(ReadableSet), Len(port) = ins, NEW i \in 1..ins
  PROVE  /\ port[i].new \in BOOLEAN /\ port[i].vals \in Seq(Int)
         /\ port[i].vals # <<>> => port[i].vals[1] \in Int
         /\ i \in DOMAIN port /\ (port[i].new <=> i \in New(port))
         /\ New(port) \subseteq 1..ins
<1>1. port[i] \in ReadableSet /\ i \in DOMAIN port /\ DOMAIN port = 1..ins
  OBVIOUS
<1> QED
  BY <1>1 DEF ReadableSet, New

LEMMA ClockIsSound ==
  ASSUME NEW param \in Nat, NEW st, NEW port, NEW t, Callable("Clock", param, 1, st, port, t),
         NEW r, r = ClockGo(param, st, port, t)
  PROVE  Sound("Clock", param, 1, 2, st, port, t, r)
<1> DEFINE c == st.completionTime
<1>1. c \in Nat /\ st.memory \in Int /\ t \in Nat /\ t <= c /\ port[1].new /\ st = [completionTime |-> c, memory |-> st.memory]
  BY DEF Callable, StarSet, MemorySet
<1> HIDE DEF c
<1>2. /\ r.star = [st EXCEPT !.completionTime = c + param]
      /\ r.puts = <<Put(1, c, 1), Put(2, c, 0)>> /\ r.drained = {} /\ r.cleared = {} /\ r.ok
  BY DEF ClockGo, Result, c
<1>3. r.star = [completionTime |-> c + param, memory |-> st.memory]
  BY <1>1, <1>2
<1>4. r.star \in StarSet("Clock") /\ r.star.completionTime = c + param
  BY <1>1, <1>3 DEF StarSet, MemorySet
<1>5. Put(1, c, 1) \in PutSet /\ Put(2, c, 0) \in PutSet
  BY <1>1 DEF Put, PutSet
<1>6. r.puts \in Seq(PutSet) /\ Len(r.puts) = 2 /\ r.puts[1] = Put(1, c, 1) /\ r.puts[2] = Put(2, c, 0)
  BY <1>2, <1>5
<1>7. \A o \in {1, 2} : o \in Affected("Clock", 1, 1..2)
  BY DEF Affected, Triggered
<1>8. \A j \in 1..Len(r.puts) : /\ r.puts[j].time = c /\ r.puts[j].out \in {1, 2}
  BY <1>6 DEF Put
<1>9. \A j \in 1..Len(r.puts) : SoundPut("Clock", 1, 2, st, port, t, r.star, r.puts[j])
  BY <1>1, <1>4, <1>7, <1>8 DEF SoundPut, Planned, c
<1> QED
  BY <1>1, <1>2, <1>4, <1>6, <1>8, <1>9 DEF Sound, HeldPort, c

LEMMA RampIsSound ==
  ASSUME NEW param, NEW st, NEW port, NEW t, Callable("Ramp", param, 1, st, port, t),
         NEW r, r = RampGo(st, port, t)
  PROVE  /\ Sound("Ramp", param, 1, 1, st, port, t, r)
         /\ r.puts = <<Put(1, t, st.memory)>> /\ r.drained = {}
<1>1. t \in Nat /\ st.memory \in Int /\ port[1].new
  BY DEF Callable, StarSet, MemorySet
<1>2. /\ r.star = [completionTime |-> t, memory |-> st.memory + 1]
      /\ r.puts = <<Put(1, t, st.memory)>> /\ r.drained = {} /\ r.cleared = {} /\ r.ok
  BY DEF RampGo, Result
<1>3. r.star \in StarSet("Ramp")
  BY <1>1, <1>2 DEF StarSet, MemorySet
<1>4. /\ r.puts \in Seq(PutSet) /\ Len(r.puts) = 1 /\ r.puts[1].out = 1 /\ r.puts[1].time = t
  BY <1>1, <1>2, PutIs
<1>5. 1 \in Affected("Ramp", 1, 1..1)
  BY DEF Affected, Triggered
<1>6. \A j \in 1..Len(r.puts) : SoundPut("Ramp", 1, 1, st, port, t, r.star, r.puts[j])
  BY <1>1, <1>4, <1>5 DEF SoundPut, Planned
<1> QED
  BY <1>2, <1>3, <1>4, <1>6 DEF Sound, HeldPort, Planned

LEMMA ForkIsSound ==
  ASSUME NEW param, NEW outs \in Nat, NEW st, NEW port, NEW t, Callable("Fork", param, 1, st, port, t),
         NEW r, r = ForkGo(outs, st, port, t)
  PROVE  Sound("Fork", param, 1, outs, st, port, t, r)
<1>1. t \in Nat /\ st.memory \in Int /\ port[1].new /\ port[1].vals[1] \in Int
      /\ st = [completionTime |-> st.completionTime, memory |-> st.memory]
  <2>1. /\ t \in Nat /\ st \in StarSet("Fork") /\ port \in Seq(ReadableSet) /\ Len(port) = 1
        /\ port[1].new /\ port[1].vals # <<>> /\ 1 \in 1..1
    BY DEF Callable
  <2>2. port[1].vals[1] \in Int
    BY <2>1, PortIs
  <2> QED
    BY <2>1, <2>2 DEF StarSet, MemorySet
<1> DEFINE v == port[1].vals[1]
<1> HIDE DEF v
<1>2. /\ r.star = [st EXCEPT !.completionTime = t]
      /\ r.puts = [i \in 1..outs |-> Put(i, t, v)] /\ r.drained = {} /\ r.cleared = {1} /\ r.ok
  BY DEF ForkGo, Result, v
<1>3. r.star = [completionTime |-> t, memory |-> st.memory]
  BY <1>1, <1>2
<1>4. r.star \in StarSet("Fork")
  BY <1>1, <1>3 DEF StarSet, MemorySet
<1>5. \A i \in 1..outs : Put(i, t, v) \in PutSet /\ Put(i, t, v).out = i /\ Put(i, t, v).time = t
  BY <1>1, PutIs DEF v
<1>6. /\ r.puts \in Seq(PutSet) /\ Len(r.puts) = outs
      /\ \A j \in 1..outs : r.puts[j].out = j /\ r.puts[j].time = t
  BY <1>2, <1>5
<1>7. \A j \in 1..outs : j \in Affected("Fork", 1, 1..outs)
  BY DEF Affected, Triggered
<1>8. \A j \in 1..Len(r.puts) : SoundPut("Fork", 1, outs, st, port, t, r.star, r.puts[j])
  BY <1>1, <1>6, <1>7 DEF SoundPut, Planned
<1> QED
  BY <1>2, <1>4, <1>6, <1>8 DEF Sound, HeldPort, Planned

LEMMA MergeIsSound ==
  ASSUME NEW param, NEW ins \in Nat, NEW st, NEW port, NEW t, Callable("Merge", param, ins, st, port, t),
         NEW r, r = MergeGo(st, port, t)
  PROVE  Sound("Merge", param, ins, 1, st, port, t, r)
<1>1. /\ t \in Nat /\ st \in StarSet("Merge") /\ port \in Seq(ReadableSet) /\ Len(port) = ins
      /\ (\E i \in 1..ins : port[i].new) /\ \A i \in 1..ins : port[i].vals # <<>>
  BY DEF Callable
<1>2. st.memory \in Int /\ st = [completionTime |-> st.completionTime, memory |-> st.memory]
  BY <1>1 DEF StarSet, MemorySet
<1> DEFINE new == Ascending(New(port), Len(port))
<1>3. Enumerates(new, New(port) \cap (1..Len(port)))
  BY <1>1, AscendingEnumerates
<1> HIDE DEF new
<1>4. /\ new \in Seq(Nat) /\ Len(new) \in Nat /\ DOMAIN new = 1..Len(new)
      /\ \A i \in 1..Len(new) : new[i] \in 1..ins
  BY <1>1, <1>3 DEF Enumerates
<1>5. /\ r.star = [st EXCEPT !.completionTime = t]
      /\ r.puts = [i \in DOMAIN new |-> Put(1, t, port[new[i]].vals[1])]
      /\ r.drained = {} /\ r.cleared = New(port) /\ r.ok
  BY DEF MergeGo, Result, new
<1>6. r.star = [completionTime |-> t, memory |-> st.memory]
  BY <1>2, <1>5
<1>7. r.star \in StarSet("Merge")
  BY <1>1, <1>2, <1>6 DEF StarSet, MemorySet
<1>8. \A i \in 1..ins : port[i].vals[1] \in Int /\ (port[i].new <=> i \in New(port))
  BY <1>1, PortIs
<1>9. \A i \in 1..Len(new) : LET x == Put(1, t, port[new[i]].vals[1])
                            IN  x \in PutSet /\ x.out = 1 /\ x.time = t
  <2>1. SUFFICES ASSUME NEW i \in 1..Len(new), NEW v, v = port[new[i]].vals[1]
                 PROVE  /\ Put(1, t, v) \in PutSet /\ Put(1, t, v).out = 1
                        /\ Put(1, t, v).time = t
    OBVIOUS
  <2>2. v \in Int /\ 1 \in Nat
    BY <1>4, <1>8, <2>1
  <2> QED
    BY <1>1, <2>2, PutIs
<1>10. /\ r.puts \in Seq(PutSet) /\ Len(r.puts) = Len(new)
       /\ \A j \in 1..Len(r.puts) : r.puts[j].out = 1 /\ r.puts[j].time = t
  BY <1>4, <1>5, <1>9
<1>11. \A i : 1 \in Affected("Merge", i, 1..1)
  BY DEF Affected, Triggered
<1>12. \A j \in 1..Len(r.puts) : SoundPut("Merge", ins, 1, st, port, t, r.star, r.puts[j])
  BY <1>1, <1>10, <1>11 DEF SoundPut, Planned
<1>13. New(port) \subseteq 1..ins
  BY <1>1 DEF New
<1> QED
  BY <1>5, <1>7, <1>8, <1>10, <1>12, <1>13 DEF Sound, HeldPort, Planned

LEMMA SamplerIsSound ==
  ASSUME NEW param, NEW st, NEW port, NEW t, Callable("Sampler", param, 2, st, port, t),
         NEW r, r = SamplerGo(st, port, t)
  PROVE  /\ Sound("Sampler", param, 2, 1, st, port, t, r)
         /\ r.puts = IF port[2].new THEN <<Put(1, t, port[1].vals[1])>> ELSE <<>>
         /\ r.drained = {} /\ port[1].vals[1] \in Int
<1>1. /\ t \in Nat /\ st \in StarSet("Sampler") /\ port \in Seq(ReadableSet) /\ Len(port) = 2
      /\ \A i \in 1..2 : port[i].vals # <<>>
  BY DEF Callable
<1>2. st.memory \in Int /\ st = [completionTime |-> st.completionTime, memory |-> st.memory]
  BY <1>1 DEF StarSet, MemorySet
<1>3. 1 \in 1..2 /\ 2 \in 1..2 /\ port[1].vals[1] \in Int
  <2>1. 1 \in 1..2 /\ 2 \in 1..2
    OBVIOUS
  <2> QED
    BY <1>1, <2>1, PortIs
<1> DEFINE v == port[1].vals[1]
<1>4. CASE port[2].new
  <2>1. /\ r.star = [st EXCEPT !.completionTime = t] /\ r.puts = <<Put(1, t, v)>>
        /\ r.drained = {} /\ r.cleared = {2} /\ r.ok
    BY <1>4 DEF SamplerGo, Result
  <2>2. r.star = [completionTime |-> t, memory |-> st.memory]
    BY <1>2, <2>1
  <2>3. r.star \in StarSet("Sampler")
    BY <1>1, <1>2, <2>2 DEF StarSet, MemorySet
  <2>4. /\ r.puts \in Seq(PutSet) /\ Len(r.puts) = 1 /\ r.puts[1].out = 1 /\ r.puts[1].time = t
    <3>1. 1 \in Nat /\ v \in Int
      BY <1>3
    <3> HIDE DEF v
    <3>2. /\ <<Put(1, t, v)>> \in Seq(PutSet) /\ Len(<<Put(1, t, v)>>) = 1
          /\ <<Put(1, t, v)>>[1] = Put(1, t, v)
          /\ Put(1, t, v).out = 1 /\ Put(1, t, v).time = t
      BY <1>1, <3>1, PutIs
    <3> QED
      BY <2>1, <3>2
  <2>5. 1 \in Affected("Sampler", 2, 1..1)
    BY DEF Affected, Triggered
  <2>6. \A j \in 1..Len(r.puts) : SoundPut("Sampler", 2, 1, st, port, t, r.star, r.puts[j])
    BY <1>1, <1>3, <1>4, <2>4, <2>5 DEF SoundPut, Planned
  <2>7. Sound("Sampler", param, 2, 1, st, port, t, r)
    BY <2>1, <2>3, <2>4, <2>6 DEF Sound, HeldPort, Planned
  <2> QED
    BY <1>3, <1>4, <2>1, <2>7
<1>5. CASE ~port[2].new
  <2>1. r.star = st /\ r.puts = <<>> /\ r.drained = {} /\ r.cleared = {} /\ r.ok
    BY <1>5 DEF SamplerGo, Result
  <2>2. Sound("Sampler", param, 2, 1, st, port, t, r)
    BY <1>1, <1>5, <2>1 DEF Sound, HeldPort, Planned
  <2> QED
    BY <1>3, <1>5, <2>1, <2>2
<1> QED
  BY <1>4, <1>5

LEMMA DelayIsSound ==
  ASSUME NEW param \in Nat \ {0}, NEW st, NEW port, NEW t, Callable("Delay", param, 1, st, port, t),
         NEW r, r = DelayGo(param, st, port, t)
  PROVE  Sound("Delay", param, 1, 1, st, port, t, r)
<1>1. /\ t \in Nat /\ st \in StarSet("Delay") /\ port \in Seq(ReadableSet) /\ Len(port) = 1
      /\ port[1].new /\ port[1].vals # <<>> /\ st.completionTime <= t + param
  BY DEF Callable
<1>2. /\ st.memory \in Int /\ st.completionTime \in Nat
      /\ st = [completionTime |-> st.completionTime, memory |-> st.memory]
  BY <1>1 DEF StarSet, MemorySet
<1>3. 1 \in 1..1 /\ port[1].vals[1] \in Int
  <2>1. 1 \in 1..1
    OBVIOUS
  <2> QED
    BY <1>1, <2>1, PortIs
<1> DEFINE v == port[1].vals[1]
           c == t + param
<1>4. c \in Nat /\ c > t /\ st.completionTime <= c
  BY <1>1
<1>5. /\ r.star = [st EXCEPT !.completionTime = c] /\ r.puts = <<Put(1, c, v)>>
      /\ r.drained = {} /\ r.cleared = {1} /\ r.ok
  BY DEF DelayGo, Result
<1> HIDE DEF c
<1>6. r.star = [completionTime |-> c, memory |-> st.memory]
  BY <1>2, <1>5
<1>7. r.star \in StarSet("Delay") /\ r.star.completionTime = c
  BY <1>2, <1>4, <1>6 DEF StarSet, MemorySet
<1>8. r.puts \in Seq(PutSet) /\ Len(r.puts) = 1 /\ r.puts[1].out = 1 /\ r.puts[1].time = c
  <2>1. 1 \in Nat /\ v \in Int
    BY <1>3
  <2> HIDE DEF v
  <2>2. /\ <<Put(1, c, v)>> \in Seq(PutSet) /\ Len(<<Put(1, c, v)>>) = 1
        /\ <<Put(1, c, v)>>[1] = Put(1, c, v)
        /\ Put(1, c, v).out = 1 /\ Put(1, c, v).time = c
    BY <1>4, <2>1, PutIs
  <2> QED
    BY <1>5, <2>2
<1>9. 1 \in Affected("Delay", 1, 1..1)
  BY DEF Affected, Triggered
<1>10. \A j \in 1..Len(r.puts) : SoundPut("Delay", 1, 1, st, port, t, r.star, r.puts[j])
  BY <1>1, <1>3, <1>4, <1>7, <1>8, <1>9 DEF SoundPut, Planned
<1>11. r.star.completionTime <= t + param
  BY <1>4, <1>7 DEF c
<1> QED
  BY <1>4, <1>5, <1>7, <1>8, <1>10, <1>11 DEF Sound, HeldPort, Planned

LEMMA ServerIsSound ==
  ASSUME NEW param \in Nat \ {0}, NEW st, NEW port, NEW t, Callable("Server", param, 1, st, port, t),
         NEW r, r = ServerGo(param, st, port, t)
  PROVE  Sound("Server", param, 1, 1, st, port, t, r)
<1>1. /\ t \in Nat /\ st \in StarSet("Server") /\ port \in Seq(ReadableSet) /\ Len(port) = 1
      /\ port[1].new /\ port[1].vals # <<>>
  BY DEF Callable
<1>2. /\ st.memory \in Int /\ st.completionTime \in Nat
      /\ st = [completionTime |-> st.completionTime, memory |-> st.memory]
  BY <1>1 DEF StarSet, MemorySet
<1>3. 1 \in 1..1 /\ port[1].vals[1] \in Int
  <2>1. 1 \in 1..1
    OBVIOUS
  <2> QED
    BY <1>1, <2>1, PortIs
<1> DEFINE v == port[1].vals[1]
           b == Max({t, st.completionTime})
           c == b + param
<1>4. c \in Nat /\ c > t /\ st.completionTime <= c
  <2>1. b \in Nat /\ t <= b /\ st.completionTime <= b
    <3>1. \E x \in {t, st.completionTime} : \A y \in {t, st.completionTime} : x >= y
      BY <1>1, <1>2
    <3> QED
      BY <1>1, <1>2, <3>1 DEF Max
  <2> HIDE DEF b
  <2> QED
    BY <1>1, <1>2, <2>1
<1>5. /\ r.star = [st EXCEPT !.completionTime = c] /\ r.puts = <<Put(1, c, v)>>
      /\ r.drained = {} /\ r.cleared = {1} /\ r.ok
  BY DEF ServerGo, Result
<1> HIDE DEF c
<1>6. r.star = [completionTime |-> c, memory |-> st.memory]
  BY <1>2, <1>5
<1>7. r.star \in StarSet("Server") /\ r.star.completionTime = c
  BY <1>2, <1>4, <1>6 DEF StarSet, MemorySet
<1>8. r.puts \in Seq(PutSet) /\ Len(r.puts) = 1 /\ r.puts[1].out = 1 /\ r.puts[1].time = c
  <2>1. 1 \in Nat /\ v \in Int
    BY <1>3
  <2> HIDE DEF v
  <2>2. /\ <<Put(1, c, v)>> \in Seq(PutSet) /\ Len(<<Put(1, c, v)>>) = 1
        /\ <<Put(1, c, v)>>[1] = Put(1, c, v)
        /\ Put(1, c, v).out = 1 /\ Put(1, c, v).time = c
    BY <1>4, <2>1, PutIs
  <2> QED
    BY <1>5, <2>2
<1>9. 1 \in Affected("Server", 1, 1..1)
  BY DEF Affected, Triggered
<1>10. \A j \in 1..Len(r.puts) : SoundPut("Server", 1, 1, st, port, t, r.star, r.puts[j])
  BY <1>1, <1>3, <1>4, <1>7, <1>8, <1>9 DEF SoundPut, Planned
<1> QED
  BY <1>4, <1>5, <1>7, <1>8, <1>10 DEF Sound, HeldPort, Planned

LEMMA CounterIsSound ==
  ASSUME NEW param, NEW st, NEW port, NEW t, Callable("UDCounter", param, 4, st, port, t),
         NEW r, r = UDCounterGo(st, port, t)
  PROVE  /\ Sound("UDCounter", param, 4, 1, st, port, t, r)
         /\ r.drained = New(port)
         /\ LET m == st.memory + Len(Vals(port, 1)) - Len(Vals(port, 2))
            IN  /\ r.star.memory = IF port[3].new THEN 0 ELSE m
                /\ r.puts = IF port[4].new THEN <<Put(1, t, m)>> ELSE <<>>
                /\ m \in Int
<1>1. /\ t \in Nat /\ st \in StarSet("UDCounter") /\ port \in Seq(ReadableSet) /\ Len(port) = 4
      /\ \E i \in 1..4 : port[i].new
  BY DEF Callable
<1>2. st.memory \in Int
  BY <1>1 DEF StarSet, MemorySet
<1>3. \A i \in 1..4 : port[i].vals \in Seq(Int) /\ (port[i].new <=> i \in New(port))
  BY <1>1, PortIs
<1>4. New(port) \subseteq 1..4
  BY <1>1 DEF New
<1>5. Len(Vals(port, 1)) \in Nat /\ Len(Vals(port, 2)) \in Nat
  BY <1>3 DEF Vals
<1> DEFINE m == st.memory + Len(Vals(port, 1)) - Len(Vals(port, 2))
<1>6. m \in Int
  BY <1>2, <1>5
<1>7. /\ r.star = [completionTime |-> t, memory |-> IF port[3].new THEN 0 ELSE m]
      /\ r.puts = IF port[4].new THEN <<Put(1, t, m)>> ELSE <<>>
      /\ r.drained = New(port) /\ r.cleared = {} /\ r.ok
  BY DEF UDCounterGo, Result
<1> HIDE DEF m
<1>8. r.star \in StarSet("UDCounter") /\ r.star.memory = IF port[3].new THEN 0 ELSE m
  BY <1>1, <1>6, <1>7 DEF StarSet, MemorySet
<1>9. r.puts \in Seq(PutSet) /\ \A j \in 1..Len(r.puts) : r.puts[j].out = 1 /\ r.puts[j].time = t /\ port[4].new
  <2>1. CASE port[4].new
    <3>1. /\ <<Put(1, t, m)>> \in Seq(PutSet) /\ Len(<<Put(1, t, m)>>) = 1
          /\ <<Put(1, t, m)>>[1] = Put(1, t, m)
          /\ Put(1, t, m).out = 1 /\ Put(1, t, m).time = t
      <4>1. 1 \in Nat
        OBVIOUS
      <4> QED
        BY <1>1, <1>6, <4>1, PutIs
    <3> QED
      BY <1>7, <2>1, <3>1
  <2>2. CASE ~port[4].new
    BY <1>7, <2>2
  <2> QED
    BY <2>1, <2>2
<1>10. 1 \in Affected("UDCounter", 4, 1..1) /\ 4 \in 1..4 /\ 1 \in 1..1
  BY DEF Affected, Triggered
<1>11. \A j \in 1..Len(r.puts) : SoundPut("UDCounter", 4, 1, st, port, t, r.star, r.puts[j])
  BY <1>1, <1>9, <1>10 DEF SoundPut, Planned
<1>12. Sound("UDCounter", param, 4, 1, st, port, t, r)
  BY <1>3, <1>4, <1>7, <1>8, <1>9, <1>11 DEF Sound, HeldPort, Planned
<1> QED
  BY <1>6, <1>7, <1>8, <1>12 DEF m

LEMMA PrinterIsSound ==
  ASSUME NEW param, NEW ins \in Nat, NEW st, NEW port, NEW t, Callable("Printer", param, ins, st, port, t),
         NEW r, r = Result(st, <<>>, {}, New(port))
  PROVE  Sound("Printer", param, ins, 0, st, port, t, r)
<1>1. st \in StarSet("Printer") /\ port \in Seq(ReadableSet) /\ Len(port) = ins
  BY DEF Callable
<1>2. \A i \in 1..ins : port[i].new <=> i \in New(port)
  BY <1>1, PortIs
<1>3. New(port) \subseteq 1..ins
  BY <1>1 DEF New
<1>4. r.star = st /\ r.puts = <<>> /\ r.drained = {} /\ r.cleared = New(port) /\ r.ok = TRUE
  BY DEF Result
<1>5. <<>> \in Seq(PutSet) /\ Len(<<>>) = 0
  OBVIOUS
<1>6. r.puts \in Seq(PutSet) /\ Len(r.puts) = 0
  BY <1>4, <1>5
<1>7. \A j \in 1..Len(r.puts) : FALSE
  BY <1>6
<1>8. r.drained \subseteq 1..ins /\ r.cleared \subseteq 1..ins /\ r.star \in StarSet("Printer")
  BY <1>1, <1>3, <1>4
<1>9. \A i \in 1..ins : port[i].new /\ i \notin r.drained \cup r.cleared => FALSE
  BY <1>2, <1>4
<1>10. r.ok \in BOOLEAN /\ r.ok
  BY <1>4
<1> QED
  BY <1>6, <1>7, <1>8, <1>9, <1>10 DEF Sound, Planned

LEMMA AccumulateIs ==
  ASSUME NEW m \in SumsMemory, NEW span \in Int
  PROVE  /\ Accumulate(m, span) \in SumsMemory
         /\ Accumulate(m, span).sum \in Int /\ Accumulate(m, span).squares \in Int
<1>1. /\ m.start \in Int /\ m.sum \in Int /\ m.squares \in Int /\ m.previous \in Int
      /\ m = [start |-> m.start, sum |-> m.sum, squares |-> m.squares, previous |-> m.previous]
  BY DEF SumsMemory
<1>2. m.previous * span \in Int /\ m.previous * m.previous * span \in Int
  BY <1>1
<1>3. m.sum + m.previous * span \in Int /\ m.squares + m.previous * m.previous * span \in Int
  BY <1>1, <1>2
<1> DEFINE a == m.sum + m.previous * span
           b == m.squares + m.previous * m.previous * span
<1>4. Accumulate(m, span) = [m EXCEPT !.sum = a, !.squares = b]
  BY DEF Accumulate
<1>5. a \in Int /\ b \in Int
  BY <1>3
<1> HIDE DEF a, b
<1> DEFINE n == [m EXCEPT !.sum = a]
<1>6. n = [start |-> m.start, sum |-> a, squares |-> m.squares, previous |-> m.previous]
  BY <1>1
<1>7. [m EXCEPT !.sum = a, !.squares = b] = [n EXCEPT !.squares = b]
  OBVIOUS
<1> HIDE DEF n
<1>8. [n EXCEPT !.squares = b]
        = [start |-> m.start, sum |-> a, squares |-> b, previous |-> m.previous]
  BY <1>6
<1>9. [m EXCEPT !.sum = a, !.squares = b] \in SumsMemory
  BY <1>1, <1>5, <1>8, <1>7 DEF SumsMemory
<1> QED
  BY <1>4, <1>9 DEF SumsMemory

LEMMA StatisticsIsSound ==
  ASSUME NEW param, NEW st, NEW port, NEW t, Callable("Statistics", param, 3, st, port, t),
         NEW r, r = StatisticsGo(st, port, t)
  PROVE  Sound("Statistics", param, 3, 2, st, port, t, r)
<1>1. /\ t \in Nat /\ st \in StarSet("Statistics") /\ port \in Seq(ReadableSet) /\ Len(port) = 3
      /\ \E i \in 1..3 : port[i].new
  BY DEF Callable
<1>2. /\ st.memory \in SumsMemory /\ st.completionTime \in Nat
  BY <1>1 DEF StarSet, MemorySet
<1>3. \A i \in 1..3 : port[i].vals \in Seq(Int) /\ (port[i].new <=> i \in New(port))
  BY <1>1, PortIs
<1>4. New(port) \subseteq 1..3
  BY <1>1 DEF New
<1> DEFINE span == t - st.completionTime
           m0 == IF port[3].new THEN Accumulate(st.memory, span) ELSE st.memory
           m1 == IF port[2].new THEN [start |-> t, sum |-> 0, squares |-> 0, previous |-> 0] ELSE m0
           m2 == IF m1.start < 0 THEN [m1 EXCEPT !.start = t]
                 ELSE IF port[3].new THEN m1 ELSE Accumulate(m1, span)
           input1 == port[1].vals
<1>5. span \in Int
  BY <1>1, <1>2
<1>6. m0 \in SumsMemory
  BY <1>2, <1>5, AccumulateIs
<1> HIDE DEF span, m0
<1>7. m1 \in SumsMemory
  BY <1>1, <1>6 DEF SumsMemory
<1> HIDE DEF m1
<1>8. m2 \in SumsMemory
  <2>1. [m1 EXCEPT !.start = t] \in SumsMemory
    BY <1>1, <1>7 DEF SumsMemory
  <2> QED
    BY <1>5, <1>7, <2>1, AccumulateIs
<1> HIDE DEF m2
<1>9. CASE port[3].new /\ st.memory.start < 0
  <2>1. r.star = st /\ r.puts = <<>> /\ r.drained = {} /\ r.cleared = {3} /\ r.ok
    BY <1>9 DEF StatisticsGo, Result
  <2> QED
    BY <1>1, <2>1 DEF Sound, HeldPort, Planned
<1>10. CASE ~(port[3].new /\ st.memory.start < 0) /\ port[1].new /\ input1 = <<>>
  <2>1. r.star = st /\ r.puts = <<>> /\ r.drained = {} /\ r.cleared = {} /\ ~r.ok /\ r.ok \in BOOLEAN
    BY <1>10 DEF StatisticsGo, Result
  <2> QED
    BY <1>1, <2>1 DEF Sound, HeldPort, Planned
<1>11. CASE ~(port[3].new /\ st.memory.start < 0) /\ ~(port[1].new /\ input1 = <<>>)
  <2> DEFINE memory == IF port[1].new THEN [m2 EXCEPT !.previous = Last(input1)] ELSE m1
             answers == port[3].new /\ t # st.memory.start
  <2>1. r = Result([completionTime |-> t, memory |-> memory],
                   IF answers THEN <<Put(1, t, m0.sum), Put(2, t, m0.squares)>> ELSE <<>>,
                   New(port) \cap {1}, New(port) \cap {2, 3})
    BY <1>11 DEF StatisticsGo, span, m0, m1, m2
  <2>2. memory \in SumsMemory
    <3>1. CASE port[1].new
      <4>1. input1 \in Seq(Int) /\ input1 # <<>>
        BY <1>3, <1>11, <3>1
      <4>2. Last(input1) \in Int
        BY <4>1 DEF Last
      <4>3. [m2 EXCEPT !.previous = Last(input1)] \in SumsMemory
        BY <1>8, <4>2 DEF SumsMemory
      <4> QED
        BY <3>1, <4>3
    <3>2. CASE ~port[1].new
      BY <1>7, <3>2
    <3> QED
      BY <3>1, <3>2
  <2> HIDE DEF memory, answers
  <2>3. /\ r.star = [completionTime |-> t, memory |-> memory]
        /\ r.puts = IF answers THEN <<Put(1, t, m0.sum), Put(2, t, m0.squares)>> ELSE <<>>
        /\ r.drained = New(port) \cap {1} /\ r.cleared = New(port) \cap {2, 3} /\ r.ok
    BY <2>1 DEF Result
  <2>4. r.star \in StarSet("Statistics")
    BY <1>1, <2>2, <2>3 DEF StarSet, MemorySet
  <2>5. m0.sum \in Int /\ m0.squares \in Int
    BY <1>6 DEF SumsMemory
  <2>6. Put(1, t, m0.sum) \in PutSet /\ Put(2, t, m0.squares) \in PutSet
    BY <1>1, <2>5 DEF Put, PutSet
  <2>7. r.puts \in Seq(PutSet) /\ \A j \in 1..Len(r.puts) : /\ r.puts[j].out \in 1..2 /\ r.puts[j].time = t
                                                          /\ port[3].new
    <3>1. CASE answers
      <4>1. /\ Len(r.puts) = 2 /\ r.puts[1] = Put(1, t, m0.sum) /\ r.puts[2] = Put(2, t, m0.squares)
            /\ r.puts \in Seq(PutSet)
        BY <2>3, <2>6, <3>1
      <4>2. port[3].new
        BY <3>1 DEF answers
      <4>3. /\ Put(1, t, m0.sum).out = 1 /\ Put(1, t, m0.sum).time = t
            /\ Put(2, t, m0.squares).out = 2 /\ Put(2, t, m0.squares).time = t
        BY DEF Put
      <4>4. \A j \in 1..Len(r.puts) : j = 1 \/ j = 2
        BY <4>1
      <4> QED
        BY <4>1, <4>2, <4>3, <4>4
    <3>2. CASE ~answers
      BY <2>3, <3>2
    <3> QED
      BY <3>1, <3>2
  <2>8. \A o \in 1..2 : o \in Affected("Statistics", 3, 1..2)
    BY DEF Affected, Triggered
  <2>9. \A j \in 1..Len(r.puts) : SoundPut("Statistics", 3, 2, st, port, t, r.star, r.puts[j])
    BY <1>1, <2>7, <2>8 DEF SoundPut, Planned
  <2>10. r.drained \subseteq 1..3 /\ r.cleared \subseteq 1..3
    BY <2>3
  <2>11. \A i \in 1..3 : port[i].new => i \in r.drained \cup r.cleared
    <3>1. \A i \in 1..3 : i \in {1} \/ i \in {2, 3}
      OBVIOUS
    <3> QED
      BY <1>3, <2>3, <3>1
  <2>12. r.ok \in BOOLEAN
    BY <2>3
  <2>13. \A j, k \in 1..Len(r.puts) : r.puts[j].time = r.puts[k].time
    BY <2>7
  <2> QED
    BY <2>4, <2>7, <2>9, <2>10, <2>11, <2>12, <2>13 DEF Sound, Planned
<1> QED
  BY <1>9, <1>10, <1>11

\* What a FIFOQueue keeps, and what it has put, while it takes its data.
Filled == [memory : QueueMemory, puts : Seq(PutSet)]

\* The result of enqueue().
Enqueued(q, val, t, r) ==
    /\ r \in Filled
    /\ \/ /\ r.puts = Append(q.puts, Put(1, t, val))
          /\ q.memory.queue = <<>> /\ r.memory.queue = <<>>
       \/ r.puts = q.puts /\ r.memory.queue = Append(q.memory.queue, val)
       \/ r.puts = Append(q.puts, Put(3, t, val)) /\ r.memory.queue = q.memory.queue

LEMMA EnqueueIs ==
  ASSUME NEW capacity \in Int, NEW q \in Filled, NEW val \in Int, NEW t \in Nat
  PROVE  Enqueued(q, val, t, Enqueue(capacity, q, val, t))
<1> DEFINE m == q.memory
           r == Enqueue(capacity, q, val, t)
<1>1. /\ m \in [queue : Seq(Int), pending : Nat] /\ (m.queue = <<>> \/ m.pending = 0)
      /\ q.puts \in Seq(PutSet) /\ q = [memory |-> m, puts |-> q.puts]
  BY DEF Filled, QueueMemory
<1>2. m.queue \in Seq(Int) /\ m.pending \in Nat /\ m = [queue |-> m.queue, pending |-> m.pending]
  BY <1>1
<1>3. Put(1, t, val) \in PutSet /\ Put(3, t, val) \in PutSet
  BY DEF Put, PutSet
<1>4. CASE m.queue = <<>> /\ m.pending > 0
  <2>1. r = [memory |-> [m EXCEPT !.pending = @ - 1], puts |-> Append(q.puts, Put(1, t, val))]
    BY <1>4 DEF Enqueue
  <2>2. [m EXCEPT !.pending = @ - 1] = [queue |-> <<>>, pending |-> m.pending - 1]
    BY <1>2, <1>4
  <2>3. r.memory = [queue |-> <<>>, pending |-> m.pending - 1] /\ m.pending - 1 \in Nat
    BY <1>2, <1>4, <2>1, <2>2
  <2>4. r.memory \in QueueMemory /\ r.memory.queue = <<>>
    <3>1. <<>> \in Seq(Int)
      OBVIOUS
    <3> QED
      BY <2>3, <3>1 DEF QueueMemory
  <2>5. r.puts = Append(q.puts, Put(1, t, val)) /\ r.puts \in Seq(PutSet)
    BY <1>1, <1>3, <2>1
  <2>6. r \in Filled
    BY <2>1, <2>4, <2>5 DEF Filled
  <2> QED
    BY <1>4, <2>4, <2>5, <2>6 DEF Enqueued
<1>5. CASE ~(m.queue = <<>> /\ m.pending > 0) /\ (capacity < 0 \/ Len(m.queue) < capacity)
  <2>1. r = [q EXCEPT !.memory.queue = Append(@, val)]
    BY <1>5 DEF Enqueue
  <2>2. r = [memory |-> [m EXCEPT !.queue = Append(@, val)], puts |-> q.puts]
    BY <1>1, <2>1
  <2>3. m.pending = 0
    BY <1>1, <1>2, <1>5
  <2>4. [m EXCEPT !.queue = Append(@, val)] = [queue |-> Append(m.queue, val), pending |-> m.pending]
    <3> DEFINE x == Append(m.queue, val)
    <3>1. [m EXCEPT !.queue = Append(@, val)] = [m EXCEPT !.queue = x]
      OBVIOUS
    <3> HIDE DEF x
    <3>2. [m EXCEPT !.queue = x] = [queue |-> x, pending |-> m.pending]
      BY <1>2
    <3> QED
      BY <3>1, <3>2 DEF x
  <2>5. r.memory = [queue |-> Append(m.queue, val), pending |-> 0] /\ r.puts = q.puts
    BY <2>2, <2>3, <2>4
  <2>6. r.memory \in QueueMemory /\ r.memory.queue = Append(m.queue, val)
    BY <1>2, <2>5 DEF QueueMemory
  <2>7. r \in Filled
    BY <1>1, <2>2, <2>5, <2>6 DEF Filled
  <2> QED
    BY <2>5, <2>6, <2>7 DEF Enqueued
<1>6. CASE ~(m.queue = <<>> /\ m.pending > 0) /\ ~(capacity < 0 \/ Len(m.queue) < capacity)
  <2>1. r = [q EXCEPT !.puts = Append(@, Put(3, t, val))]
    BY <1>6 DEF Enqueue
  <2>2. r = [memory |-> m, puts |-> Append(q.puts, Put(3, t, val))]
    BY <1>1, <2>1
  <2>3. r.puts \in Seq(PutSet) /\ m \in QueueMemory
    BY <1>1, <1>3, <2>2 DEF QueueMemory
  <2>4. r \in Filled
    BY <2>2, <2>3 DEF Filled
  <2> QED
    BY <2>2, <2>4 DEF Enqueued
<1> QED
  BY <1>4, <1>5, <1>6

\* The result of the demands answered from the queue.
Dequeued(m, t, r) ==
    \E n \in 0..Len(m.queue) :
        /\ r \in Filled /\ Len(r.puts) = n
        /\ \A i \in 1..n : r.puts[i] = Put(1, t, m.queue[i])
        /\ r.memory.queue = SubSeq(m.queue, n + 1, Len(m.queue))

LEMMA DequeueIs ==
  ASSUME NEW m \in [queue : Seq(Int), pending : Nat], NEW t \in Nat
  PROVE  Dequeued(m, t, Dequeue(m, t))
<1> DEFINE n == Min({m.pending, Len(m.queue)})
           r == Dequeue(m, t)
<1>1. m.queue \in Seq(Int) /\ m.pending \in Nat /\ Len(m.queue) \in Nat
  OBVIOUS
<1>2. n \in 0..Len(m.queue) /\ n <= m.pending /\ (n = m.pending \/ n = Len(m.queue))
  <2>1. \E x \in {m.pending, Len(m.queue)} : \A y \in {m.pending, Len(m.queue)} : x <= y
    BY <1>1
  <2>2. n \in {m.pending, Len(m.queue)} /\ \A y \in {m.pending, Len(m.queue)} : n <= y
    BY <1>1, <2>1 DEF Min
  <2> QED
    BY <1>1, <2>2
<1>3. r = [memory |-> [queue |-> SubSeq(m.queue, n + 1, Len(m.queue)), pending |-> m.pending - n],
           puts |-> [i \in 1..n |-> Put(1, t, m.queue[i])]]
  BY DEF Dequeue
<1> HIDE DEF n
<1>4. \A i \in 1..n : Put(1, t, m.queue[i]) \in PutSet
  <2>1. \A i \in 1..n : m.queue[i] \in Int
    BY <1>1, <1>2
  <2> QED
    BY <2>1 DEF Put, PutSet
<1>5. /\ r.puts = [i \in 1..n |-> Put(1, t, m.queue[i])]
      /\ r.memory = [queue |-> SubSeq(m.queue, n + 1, Len(m.queue)), pending |-> m.pending - n]
      /\ r = [memory |-> r.memory, puts |-> r.puts]
  BY <1>3
<1>6. r.puts \in Seq(PutSet) /\ Len(r.puts) = n /\ \A i \in 1..n : r.puts[i] = Put(1, t, m.queue[i])
  <2>1. n \in Nat
    BY <1>1, <1>2
  <2> DEFINE f == [i \in 1..n |-> Put(1, t, m.queue[i])]
  <2>2. f \in [1..n -> PutSet]
    BY <1>4
  <2>3. \A i \in 1..n : f[i] = Put(1, t, m.queue[i])
    OBVIOUS
  <2> HIDE DEF f
  <2>4. f \in Seq(PutSet) /\ Len(f) = n
    BY <2>1, <2>2
  <2>5. r.puts = f
    BY <1>5 DEF f
  <2> HIDE DEF r
  <2> QED
    BY <2>3, <2>4, <2>5
<1>7. /\ SubSeq(m.queue, n + 1, Len(m.queue)) \in Seq(Int)
      /\ Len(SubSeq(m.queue, n + 1, Len(m.queue))) = Len(m.queue) - n
  <2>1. n + 1 \in 1..(Len(m.queue) + 1) /\ Len(m.queue) \in 0..Len(m.queue) /\ n + 1 <= Len(m.queue) + 1
    BY <1>1, <1>2
  <2> QED
    BY <1>1, <2>1, <1>2, SubSeqIs
<1>8. m.pending - n \in Nat /\ (m.pending - n = 0 \/ SubSeq(m.queue, n + 1, Len(m.queue)) = <<>>)
  BY <1>1, <1>2, <1>7
<1>9. r.memory \in QueueMemory /\ r.memory.queue = SubSeq(m.queue, n + 1, Len(m.queue))
  <2> DEFINE w == SubSeq(m.queue, n + 1, Len(m.queue))
             g == m.pending - n
  <2>1. w \in Seq(Int) /\ g \in Nat /\ (g = 0 \/ w = <<>>) /\ r.memory = [queue |-> w, pending |-> g]
    BY <1>5, <1>7, <1>8
  <2> HIDE DEF w, g, r
  <2>2. r.memory \in QueueMemory /\ r.memory.queue = w
    BY <2>1 DEF QueueMemory
  <2> QED
    BY <2>2 DEF w
<1>10. r \in Filled
  BY <1>5, <1>6, <1>9 DEF Filled
<1> QED
  BY <1>2, <1>6, <1>9, <1>10 DEF Dequeued

\* The memory of a FIFOQueue with the demands added.
Demanded(param, st, port) ==
    LET demands == Len(Vals(port, 1))
    IN  IF demands = 0 THEN st.memory
        ELSE [st.memory EXCEPT !.pending = IF param.consolidate THEN 1 ELSE @ + demands]

LEMMA DemandedIs ==
  ASSUME NEW param, param.consolidate \in BOOLEAN, NEW st, st.memory \in QueueMemory,
         NEW port \in Seq(ReadableSet), Len(port) = 2
  PROVE  /\ Demanded(param, st, port) \in [queue : Seq(Int), pending : Nat]
         /\ Demanded(param, st, port).queue = st.memory.queue
         /\ Vals(port, 1) \in Seq(Int) /\ Vals(port, 2) \in Seq(Int)
<1> DEFINE m == st.memory
           demands == Len(Vals(port, 1))
<1>1. m \in [queue : Seq(Int), pending : Nat] /\ m = [queue |-> m.queue, pending |-> m.pending]
      /\ m.queue \in Seq(Int) /\ m.pending \in Nat
  BY DEF QueueMemory
<1>2. \A i \in 1..2 : Vals(port, i) \in Seq(Int)
  <2>1. \A i \in 1..2 : port[i].vals \in Seq(Int)
    BY PortIs
  <2>2. <<>> \in Seq(Int)
    OBVIOUS
  <2> QED
    BY <2>1, <2>2 DEF Vals
<1>3. demands \in Nat
  BY <1>2
<1> HIDE DEF m, demands
<1>4. CASE demands = 0
  BY <1>1, <1>2, <1>4 DEF Demanded, m, demands
<1>5. CASE demands # 0
  <2> DEFINE x == IF param.consolidate THEN 1 ELSE m.pending + demands
  <2>1. x \in Nat
    BY <1>1, <1>3
  <2>2. Demanded(param, st, port) = [m EXCEPT !.pending = x]
    BY <1>5 DEF Demanded, m, demands
  <2> HIDE DEF x
  <2>3. [m EXCEPT !.pending = x] = [queue |-> m.queue, pending |-> x]
    BY <1>1
  <2> QED
    BY <1>1, <1>2, <2>1, <2>2, <2>3 DEF m
<1> QED
  BY <1>4, <1>5

\* f is the function stored of FIFOQueueGo.
Stores(capacity, m, data, t, f) ==
    /\ f[0] = Dequeue(m, t) /\ \A k \in 0..Len(data) : f[k] \in Filled
    /\ \A k \in 1..Len(data) : f[k] = Enqueue(capacity, f[k - 1], data[k], t)

\* What FIFOQueueGo returns.
StoredResult(t, port, q) ==
    Result([completionTime |-> t, memory |-> q.memory],
           Append(q.puts, Put(2, t, Len(q.memory.queue))), New(port), {})

LEMMA StoresExists ==
  ASSUME NEW param, param.capacity \in Int, param.consolidate \in BOOLEAN,
         NEW st, st.memory \in QueueMemory,
         NEW port \in Seq(ReadableSet), Len(port) = 2, NEW t \in Nat,
         NEW r, r = FIFOQueueGo(param, st, port, t),
         NEW m, m = Demanded(param, st, port), NEW data, data = Vals(port, 2)
  PROVE  \E f : Stores(param.capacity, m, data, t, f) /\ r = StoredResult(t, port, f[Len(data)])
<1> DEFINE capacity == param.capacity
           n == Len(data)
           Is(h) == h = [k \in 0..n |-> IF k = 0 THEN Dequeue(m, t)
                                        ELSE Enqueue(capacity, h[k - 1], data[k], t)]
           step == [k \in 1..n |-> [q \in Filled |-> Enqueue(capacity, q, data[k], t)]]
<1>1. /\ m \in [queue : Seq(Int), pending : Nat] /\ data \in Seq(Int)
      /\ n \in Nat /\ \A k \in 1..n : data[k] \in Int
  <2>1. Demanded(param, st, port) \in [queue : Seq(Int), pending : Nat] /\ Vals(port, 2) \in Seq(Int)
    BY DemandedIs
  <2> QED
    BY <2>1
<1>2. Dequeue(m, t) \in Filled
  BY <1>1, DequeueIs DEF Dequeued
<1>3. \A k \in 1..n : \A q \in Filled : Enqueue(capacity, q, data[k], t) \in Filled
  BY <1>1, EnqueueIs DEF Enqueued
<1>4. PICK f : Recursion(f, Filled, Dequeue(m, t), step, n)
  <2>1. step \in [1..n -> [Filled -> Filled]]
    BY <1>3
  <2> HIDE DEF step, n
  <2> QED
    BY <1>1, <1>2, <2>1, RecursionExists
<1>5. f \in [0..n -> Filled] /\ f[0] = Dequeue(m, t)
  BY <1>4 DEF Recursion
<1>6. \A k \in 1..n : f[k] = Enqueue(capacity, f[k - 1], data[k], t)
  <2>1. \A k \in 1..n : k - 1 \in 0..n
    BY <1>1
  <2>2. \A k \in 1..n : \A q \in Filled : step[k][q] = Enqueue(capacity, q, data[k], t)
    OBVIOUS
  <2> HIDE DEF step
  <2>3. \A k \in 1..n : f[k] = step[k][f[k - 1]]
    BY <1>4 DEF Recursion
  <2> QED
    BY <1>5, <2>1, <2>2, <2>3
<1>7. Is(f)
  <2>1. \A k \in 0..n : k # 0 => k \in 1..n
    BY <1>1
  <2> HIDE DEF capacity, n
  <2> QED
    BY <1>5, <1>6, <2>1
<1>8. PICK u : u = CHOOSE h : Is(h)
  OBVIOUS
<1>9. Is(u)
  <2> HIDE DEF Is
  <2> QED
    BY <1>7, <1>8
<1>10. r = StoredResult(t, port, u[n])
  BY <1>8 DEF FIFOQueueGo, StoredResult, Demanded
<1> HIDE DEF step, n, capacity
<1>11. u[0] = Dequeue(m, t) /\ \A k \in 1..n : u[k] = Enqueue(capacity, u[k - 1], data[k], t)
  <2>1. 0 \in 0..n /\ \A k \in 1..n : k \in 0..n /\ k # 0
    BY <1>1
  <2> QED
    BY <1>9, <2>1
<1>12. \A k \in 0..n : u[k] \in Filled
  <2> DEFINE T == {k \in 0..n : u[k] \notin Filled}
  <2>1. SUFFICES ASSUME T # {} PROVE FALSE
    OBVIOUS
  <2>2. PICK k \in T : \A j \in T : k <= j
    <3>1. T \subseteq Nat
      OBVIOUS
    <3> HIDE DEF T
    <3> QED
      BY <2>1, <3>1, SmallestOne
  <2> HIDE DEF Is
  <2>3. k # 0
    BY <1>2, <1>11, <2>2
  <2>4. k \in 1..n /\ k - 1 \in 0..n /\ ~(k <= k - 1)
    BY <1>1, <2>2, <2>3
  <2>5. u[k - 1] \in Filled
    BY <2>2, <2>4
  <2>6. u[k] \in Filled
    BY <1>3, <1>11, <2>4, <2>5
  <2> QED
    BY <2>2, <2>6
<1>13. Stores(param.capacity, m, data, t, u)
  BY <1>11, <1>12 DEF Stores, n, capacity
<1> QED
  BY <1>10, <1>13 DEF n

-----------------------------------------------------------------------------
(* FIFOQueue *)

\* The puts so far: values to outData, and to overflow if there are data.
FIFOPuts(puts, t, over) ==
    \A j \in 1..Len(puts) : puts[j].time = t /\ (puts[j].out = 1 \/ (puts[j].out = 3 /\ over))

LEMMA FIFOPutsAppend ==
  ASSUME NEW puts \in Seq(PutSet), NEW t, NEW over, FIFOPuts(puts, t, over),
         NEW x \in PutSet, x.time = t, x.out = 1 \/ x.out = 3
  PROVE  FIFOPuts(Append(puts, x), t, TRUE)
<1>1. /\ Len(Append(puts, x)) = Len(puts) + 1 /\ Append(puts, x)[Len(puts) + 1] = x
      /\ \A i \in 1..Len(puts) : Append(puts, x)[i] = puts[i]
  BY AppendIs
<1>2. \A i \in 1..(Len(puts) + 1) : i \in 1..Len(puts) \/ i = Len(puts) + 1
  OBVIOUS
<1> QED
  BY <1>1, <1>2 DEF FIFOPuts

\* What has come of the data T so far: the values O put to outData before this go(),
\* those put by it, and those in the queue; and L and those put to overflow.
Account(T, O, L, q) ==
    Divides(T, (O \o ValuesPut(q.puts, 1)) \o q.memory.queue, L \o ValuesPut(q.puts, 3))

LEMMA AccountEnqueued ==
  ASSUME NEW T \in Seq(Int), NEW O \in Seq(Int), NEW L \in Seq(Int), NEW q \in Filled,
         Account(T, O, L, q), NEW val \in Int, NEW t \in Nat, NEW r, Enqueued(q, val, t, r)
  PROVE  Account(Append(T, val), O, L, r)
<1> DEFINE V1 == ValuesPut(q.puts, 1)
           V3 == ValuesPut(q.puts, 3)
           Q == q.memory.queue
<1>1. q.puts \in Seq(PutSet) /\ Q \in Seq(Int)
  BY DEF Filled, QueueMemory
<1>2. /\ Put(1, t, val) \in PutSet /\ Put(1, t, val).out = 1 /\ Put(1, t, val).val = val
      /\ Put(3, t, val) \in PutSet /\ Put(3, t, val).out = 3 /\ Put(3, t, val).val = val
  BY DEF Put, PutSet
<1>3. V1 \in Seq(Int) /\ V3 \in Seq(Int)
  BY <1>1, <1>2, ValuesPutAppend
<1>4. /\ ValuesPut(Append(q.puts, Put(1, t, val)), 1) = Append(V1, val)
      /\ ValuesPut(Append(q.puts, Put(1, t, val)), 3) = V3
      /\ ValuesPut(Append(q.puts, Put(3, t, val)), 1) = V1
      /\ ValuesPut(Append(q.puts, Put(3, t, val)), 3) = Append(V3, val)
  <2>1. \A x \in PutSet : \A o : ValuesPut(Append(q.puts, x), o)
            = IF x.out = o THEN Append(ValuesPut(q.puts, o), x.val) ELSE ValuesPut(q.puts, o)
    BY <1>1, ValuesPutAppend
  <2> DEFINE x1 == Put(1, t, val)
             x3 == Put(3, t, val)
  <2>2. /\ x1 \in PutSet /\ x1.out = 1 /\ x1.val = val /\ x3 \in PutSet /\ x3.out = 3 /\ x3.val = val
    BY <1>2
  <2> HIDE DEF x1, x3
  <2>3. ValuesPut(Append(q.puts, x1), 1) = Append(V1, val)
    BY <2>1, <2>2
  <2>4. ValuesPut(Append(q.puts, x1), 3) = V3
    BY <2>1, <2>2
  <2>5. ValuesPut(Append(q.puts, x3), 1) = V1
    BY <2>1, <2>2
  <2>6. ValuesPut(Append(q.puts, x3), 3) = Append(V3, val)
    BY <2>1, <2>2
  <2> QED
    BY <2>3, <2>4, <2>5, <2>6 DEF x1, x3
<1>5. Divides(T, (O \o V1) \o Q, L \o V3)
  BY DEF Account
<1> HIDE DEF V1, V3, Q
<1>6. /\ Divides(Append(T, val), Append((O \o V1) \o Q, val), L \o V3)
      /\ Divides(Append(T, val), (O \o V1) \o Q, Append(L \o V3, val))
  BY <1>5, DividesAppend
<1>7. O \o V1 \in Seq(Int) /\ O \o Append(V1, val) = Append(O \o V1, val)
  BY <1>3, ConcatenateAppended, SMTT(30)
<1>8. (O \o V1) \o Append(Q, val) = Append((O \o V1) \o Q, val)
  <2> DEFINE A == O \o V1
  <2>1. A \in Seq(Int) /\ Q \in Seq(Int)
    BY <1>1, <1>7 DEF Q
  <2> HIDE DEF A
  <2>2. A \o Append(Q, val) = Append(A \o Q, val)
    BY <2>1, ConcatenateAppended
  <2> QED
    BY <2>2 DEF A
<1>9. L \o Append(V3, val) = Append(L \o V3, val)
  BY <1>3, ConcatenateAppended, SMTT(30)
<1>10. CASE r.puts = Append(q.puts, Put(1, t, val)) /\ Q = <<>> /\ r.memory.queue = <<>>
  <2>1. ValuesPut(r.puts, 1) = Append(V1, val) /\ ValuesPut(r.puts, 3) = V3
    BY <1>4, <1>10
  <2>2. (O \o Append(V1, val)) \o <<>> = Append(O \o V1, val) /\ (O \o V1) \o Q = O \o V1
    <3>1. Append(O \o V1, val) \in Seq(Int)
      BY <1>7
    <3>2. Append(O \o V1, val) \o <<>> = Append(O \o V1, val) /\ (O \o V1) \o <<>> = O \o V1
      BY <1>7, <3>1, ConcatenateAppended
    <3> QED
      BY <1>7, <1>10, <3>2
  <2> QED
    BY <1>6, <1>10, <2>1, <2>2 DEF Account
<1>11. CASE r.puts = q.puts /\ r.memory.queue = Append(Q, val)
  BY <1>6, <1>8, <1>11 DEF Account, V1, V3
<1>12. CASE r.puts = Append(q.puts, Put(3, t, val)) /\ r.memory.queue = Q
  BY <1>4, <1>6, <1>9, <1>12 DEF Account
<1> QED
  BY <1>10, <1>11, <1>12 DEF Enqueued, Q

LEMMA AccountDequeued ==
  ASSUME NEW T \in Seq(Int), NEW O \in Seq(Int), NEW L \in Seq(Int), NEW t \in Nat,
         NEW m \in [queue : Seq(Int), pending : Nat], Divides(T, O \o m.queue, L),
         NEW q, Dequeued(m, t, q)
  PROVE  Account(T, O, L, q)
<1>1. PICK n \in 0..Len(m.queue) :
        /\ q \in Filled /\ Len(q.puts) = n
        /\ \A i \in 1..n : q.puts[i] = Put(1, t, m.queue[i])
        /\ q.memory.queue = SubSeq(m.queue, n + 1, Len(m.queue))
  BY DEF Dequeued
<1>2. q.puts \in Seq(PutSet) /\ m.queue \in Seq(Int)
  BY <1>1 DEF Filled
<1>3. \A i \in 1..Len(q.puts) : q.puts[i].out = 1 /\ q.puts[i].out # 3 /\ q.puts[i].val = m.queue[i]
  <2>1. \A v : Put(1, t, v).out = 1 /\ Put(1, t, v).out # 3 /\ Put(1, t, v).val = v
    BY DEF Put
  <2> QED
    BY <1>1, <2>1
<1>4. ValuesPut(q.puts, 3) = <<>>
  BY <1>2, <1>3, ValuesPutNone
<1>5. /\ ValuesPut(q.puts, 1) \in Seq(Int) /\ Len(ValuesPut(q.puts, 1)) = n
      /\ \A i \in 1..n : ValuesPut(q.puts, 1)[i] = m.queue[i]
  <2>1. /\ ValuesPut(q.puts, 1) \in Seq(Int) /\ Len(ValuesPut(q.puts, 1)) = Len(q.puts)
        /\ \A i \in 1..Len(q.puts) : ValuesPut(q.puts, 1)[i] = q.puts[i].val
    BY <1>2, <1>3, ValuesPutAll, ZenonT(40)
  <2> QED
    BY <1>1, <1>3, <2>1
<1>6. (O \o ValuesPut(q.puts, 1)) \o SubSeq(m.queue, n + 1, Len(m.queue)) = O \o m.queue
  <2> DEFINE v == ValuesPut(q.puts, 1)
             s == m.queue
  <2>1. /\ s \in Seq(Int) /\ v \in Seq(Int) /\ Len(v) = n /\ (\A i \in 1..n : v[i] = s[i])
        /\ n \in 0..Len(s)
    BY <1>2, <1>5
  <2> HIDE DEF v, s
  <2>2. v = SubSeq(s, 1, n)
    <3>1. 1 \in 1..(Len(s) + 1) /\ n \in 0..Len(s) /\ 1 <= n + 1 /\ n - 1 + 1 = n
      BY <2>1
    <3>2. /\ SubSeq(s, 1, n) \in Seq(Int) /\ Len(SubSeq(s, 1, n)) = n - 1 + 1
          /\ \A i \in 1..(n - 1 + 1) : SubSeq(s, 1, n)[i] = s[1 + i - 1]
      BY <2>1, <3>1, SubSeqIs, Zenon
    <3> DEFINE w == SubSeq(s, 1, n)
    <3> HIDE DEF w
    <3>3. w \in Seq(Int) /\ Len(w) = n /\ \A i \in 1..n : w[i] = s[i]
      BY <3>1, <3>2 DEF w
    <3>4. v = w
      BY <2>1, <3>3, SequencesEqual
    <3> QED
      BY <3>4 DEF w
  <2>3. (O \o v) \o SubSeq(s, n + 1, Len(s)) = O \o s
    BY <2>1, <2>2, ConcatenateParts, ZenonT(40)
  <2> QED
    BY <2>3 DEF v, s
<1>7. L \o <<>> = L
  OBVIOUS
<1> QED
  BY <1>1, <1>4, <1>6, <1>7 DEF Account

\* All data are accounted for in what a FIFOQueue returns.
AccountsFor(st, data, r) ==
    \A T, O, L \in Seq(Int) :
        Divides(T, O \o st.memory.queue, L)
        => Divides(T \o data, (O \o ValuesPut(r.puts, 1)) \o r.star.memory.queue,
                   L \o ValuesPut(r.puts, 3))

LEMMA StoredIs ==
  ASSUME NEW capacity \in Int, NEW m \in [queue : Seq(Int), pending : Nat], NEW t \in Nat,
         NEW data \in Seq(Int), NEW f, Stores(capacity, m, data, t, f)
  PROVE  /\ FIFOPuts(f[Len(data)].puts, t, data # <<>>)
         /\ \A T, O, L \in Seq(Int) :
               Divides(T, O \o m.queue, L) => Account(T \o data, O, L, f[Len(data)])
<1> DEFINE n == Len(data)
           Done(T, k) == T \o SubSeq(data, 1, k)
           Good(k) == /\ FIFOPuts(f[k].puts, t, k > 0)
                      /\ \A T, O, L \in Seq(Int) :
                            Divides(T, O \o m.queue, L) => Account(Done(T, k), O, L, f[k])
           B == {k \in 0..n : ~Good(k)}
<1>1. n \in Nat /\ \A k \in 1..n : data[k] \in Int
  OBVIOUS
<1>2. f[0] = Dequeue(m, t) /\ (\A k \in 0..n : f[k] \in Filled)
      /\ \A k \in 1..n : f[k] = Enqueue(capacity, f[k - 1], data[k], t)
  BY DEF Stores
<1>3. Dequeued(m, t, f[0])
  BY <1>2, DequeueIs
<1>4. \A k \in 1..n : k - 1 \in 0..n /\ f[k - 1] \in Filled /\ Enqueued(f[k - 1], data[k], t, f[k])
  BY <1>1, <1>2, EnqueueIs
<1>5. Good(0)
  <2>1. FIFOPuts(f[0].puts, t, 0 > 0)
    <3>1. \A j \in 1..Len(f[0].puts) : f[0].puts[j] = Put(1, t, m.queue[j])
      BY <1>3 DEF Dequeued
    <3>2. \A v : Put(1, t, v).out = 1 /\ Put(1, t, v).time = t
      BY DEF Put
    <3>3. \A j \in 1..Len(f[0].puts) : f[0].puts[j].out = 1 /\ f[0].puts[j].time = t
      BY <3>1, <3>2
    <3> QED
      <4>1. FIFOPuts(f[0].puts, t, FALSE)
        BY <3>3 DEF FIFOPuts
      <4>2. (0 > 0) = FALSE
        OBVIOUS
      <4> QED
        BY <4>1, <4>2
  <2>2. ASSUME NEW T \in Seq(Int), NEW O \in Seq(Int), NEW L \in Seq(Int), Divides(T, O \o m.queue, L)
        PROVE  Account(Done(T, 0), O, L, f[0])
    <3>1. Done(T, 0) = T
      OBVIOUS
    <3>2. Account(T, O, L, f[0])
      BY <1>3, <2>2, AccountDequeued
    <3> QED
      BY <3>1, <3>2
  <2> QED
    BY <2>1, <2>2
<1>6. \A k \in 1..n : Good(k - 1) => Good(k)
  <2>1. SUFFICES ASSUME NEW k \in 1..n, Good(k - 1) PROVE Good(k)
    OBVIOUS
  <2>2. f[k - 1] \in Filled /\ f[k - 1].puts \in Seq(PutSet) /\ Enqueued(f[k - 1], data[k], t, f[k])
        /\ data[k] \in Int /\ k > 0
    BY <1>1, <1>4 DEF Filled
  <2>3. FIFOPuts(f[k].puts, t, k > 0)
    <3> DEFINE q == f[k - 1].puts
    <3>1. FIFOPuts(q, t, k - 1 > 0) /\ q \in Seq(PutSet)
      BY <2>1, <2>2
    <3>2. \A o \in {1, 3} : /\ Put(o, t, data[k]) \in PutSet /\ Put(o, t, data[k]).time = t
                           /\ Put(o, t, data[k]).out = o
      BY <2>2, SMTT(30) DEF Put, PutSet
    <3>3. f[k].puts = q \/ \E o \in {1, 3} : f[k].puts = Append(q, Put(o, t, data[k]))
      BY <2>2 DEF Enqueued
    <3> HIDE DEF q
    <3>4. CASE f[k].puts = q
      BY <2>2, <3>1, <3>4 DEF FIFOPuts
    <3>5. ASSUME NEW o \in {1, 3}, f[k].puts = Append(q, Put(o, t, data[k]))
          PROVE  FIFOPuts(f[k].puts, t, k > 0)
      <4> DEFINE x == Put(o, t, data[k])
      <4>1. x \in PutSet /\ x.time = t /\ (x.out = 1 \/ x.out = 3)
        BY <3>2
      <4> HIDE DEF x
      <4>2. FIFOPuts(Append(q, x), t, TRUE)
        BY <3>1, <4>1, FIFOPutsAppend
      <4> QED
        BY <2>2, <3>5, <4>2 DEF x
    <3> QED
      BY <3>3, <3>4, <3>5
  <2>4. ASSUME NEW T \in Seq(Int), NEW O \in Seq(Int), NEW L \in Seq(Int), Divides(T, O \o m.queue, L)
        PROVE  Account(Done(T, k), O, L, f[k])
    <3>1. Account(Done(T, k - 1), O, L, f[k - 1])
      BY <2>1, <2>4
    <3>2. /\ SubSeq(data, 1, k) = Append(SubSeq(data, 1, k - 1), data[k])
          /\ SubSeq(data, 1, k - 1) \in Seq(Int)
      BY PrefixStep, SMTT(30)
    <3>3. Done(T, k) = Append(Done(T, k - 1), data[k]) /\ Done(T, k - 1) \in Seq(Int)
      <4> DEFINE s == SubSeq(data, 1, k - 1)
                 x == data[k]
      <4>1. s \in Seq(Int) /\ x \in Int
        BY <2>2, <3>2
      <4> HIDE DEF s, x
      <4>2. T \o Append(s, x) = Append(T \o s, x)
        BY <4>1, IntegersAppended
      <4>3. T \o s \in Seq(Int)
        BY <4>1
      <4> QED
        BY <3>2, <4>2, <4>3 DEF s, x
    <3> HIDE DEF Done
    <3>4. Account(Append(Done(T, k - 1), data[k]), O, L, f[k])
      BY <2>2, <3>1, <3>3, AccountEnqueued
    <3> QED
      BY <3>3, <3>4
  <2> QED
    BY <2>3, <2>4
<1> HIDE DEF Good
<1>7. B = {}
  <2>1. SUFFICES ASSUME B # {} PROVE FALSE
    OBVIOUS
  <2>2. PICK k \in B : \A j \in B : k <= j
    <3>1. B \subseteq Nat
      OBVIOUS
    <3> HIDE DEF B
    <3> QED
      BY <2>1, <3>1, SmallestOne
  <2>3. k # 0
    BY <1>5, <2>2
  <2>4. k \in 1..n /\ k - 1 \in 0..n /\ ~(k <= k - 1)
    BY <1>1, <2>2, <2>3
  <2>5. Good(k - 1)
    BY <2>2, <2>4
  <2>6. Good(k)
    BY <1>6, <2>4, <2>5
  <2> QED
    BY <2>2, <2>6
<1>8. Good(n)
  BY <1>1, <1>7
<1>9. SubSeq(data, 1, n) = data /\ (n > 0 <=> data # <<>>)
  OBVIOUS
<1>10. FIFOPuts(f[n].puts, t, data # <<>>)
  BY <1>8, <1>9 DEF Good, FIFOPuts
<1>11. \A T : Done(T, n) = T \o data
  BY <1>9
<1> HIDE DEF Done, n
<1>12. \A T, O, L \in Seq(Int) : Divides(T, O \o m.queue, L) => Account(Done(T, n), O, L, f[n])
  BY <1>8 DEF Good
<1> QED
  BY <1>10, <1>11, <1>12 DEF n

LEMMA FIFOIsSound ==
  ASSUME NEW param, param.capacity \in Int, param.consolidate \in BOOLEAN,
         NEW st, NEW port, NEW t, Callable("FIFOQueue", param, 2, st, port, t),
         NEW r, r = FIFOQueueGo(param, st, port, t)
  PROVE  /\ Sound("FIFOQueue", param, 2, 3, st, port, t, r)
         /\ r.drained = New(port) /\ AccountsFor(st, Vals(port, 2), r)
<1> DEFINE m == Demanded(param, st, port)
           data == Vals(port, 2)
           n == Len(data)
<1>1. /\ t \in Nat /\ st \in StarSet("FIFOQueue") /\ port \in Seq(ReadableSet) /\ Len(port) = 2
      /\ \E i \in 1..2 : port[i].new
  BY DEF Callable
<1>2. st.memory \in QueueMemory
  BY <1>1 DEF StarSet, MemorySet
<1>3. \A i \in 1..2 : port[i].vals \in Seq(Int) /\ (port[i].new <=> i \in New(port))
  BY <1>1, PortIs
<1>4. New(port) \subseteq 1..2
  BY <1>1 DEF New
<1>5. m \in [queue : Seq(Int), pending : Nat] /\ m.queue = st.memory.queue /\ data \in Seq(Int)
  BY <1>1, <1>2, DemandedIs
<1>6. data # <<>> => port[2].new
  BY DEF Vals
<1>7. PICK f : Stores(param.capacity, m, data, t, f) /\ r = StoredResult(t, port, f[n])
  BY <1>1, <1>2, StoresExists
<1> HIDE DEF m, data
<1>8. /\ FIFOPuts(f[n].puts, t, data # <<>>)
      /\ \A T, O, L \in Seq(Int) : Divides(T, O \o m.queue, L) => Account(T \o data, O, L, f[n])
  BY <1>1, <1>5, <1>7, StoredIs
<1> DEFINE q == f[n]
<1>9. q \in Filled
  <2>1. n \in 0..n
    BY <1>5
  <2> QED
    BY <1>7, <2>1 DEF Stores
<1> HIDE DEF n, q
<1>10. q.puts \in Seq(PutSet) /\ q.memory \in QueueMemory /\ q.memory.queue \in Seq(Int)
       /\ Len(q.memory.queue) \in Nat
  <2>1. q.puts \in Seq(PutSet) /\ q.memory \in QueueMemory
    BY <1>9 DEF Filled
  <2> QED
    BY <2>1 DEF QueueMemory
<1> DEFINE size == Len(q.memory.queue)
           x == Put(2, t, size)
<1>11. x \in PutSet /\ x.out = 2 /\ x.time = t
  BY <1>1, <1>10 DEF Put, PutSet
<1>12. /\ r.star = [completionTime |-> t, memory |-> q.memory] /\ r.puts = Append(q.puts, x)
       /\ r.drained = New(port) /\ r.cleared = {} /\ r.ok = TRUE
  BY <1>7 DEF StoredResult, Result, q
<1> HIDE DEF x, size
<1>13. r.star \in StarSet("FIFOQueue") /\ r.star.memory = q.memory
  BY <1>1, <1>10, <1>12 DEF StarSet, MemorySet
<1>14. /\ r.puts \in Seq(PutSet) /\ Len(r.puts) = Len(q.puts) + 1 /\ r.puts[Len(q.puts) + 1] = x
       /\ \A i \in 1..Len(q.puts) : r.puts[i] = q.puts[i]
  BY <1>10, <1>11, <1>12, AppendIs
<1>15. \A j \in 1..Len(r.puts) : /\ r.puts[j].time = t
                                /\ \/ r.puts[j].out \in {1, 2}
                                   \/ r.puts[j].out = 3 /\ port[2].new
  <2>1. \A j \in 1..(Len(q.puts) + 1) : j \in 1..Len(q.puts) \/ j = Len(q.puts) + 1
    BY <1>10
  <2>2. \A j \in 1..Len(q.puts) : /\ q.puts[j].time = t
                                 /\ (q.puts[j].out = 1 \/ (q.puts[j].out = 3 /\ data # <<>>))
    BY <1>8 DEF FIFOPuts, q
  <2> QED
    BY <1>6, <1>11, <1>14, <2>1, <2>2, ZenonT(40) DEF data
<1>16. /\ \A o \in {1, 2} : o \in Affected("FIFOQueue", 1, 1..3) /\ o \in Affected("FIFOQueue", 2, 1..3)
       /\ 3 \in Affected("FIFOQueue", 2, 1..3) /\ 1 \in 1..2 /\ 2 \in 1..2
  BY DEF Affected, Triggered, Before
<1>17. \A j \in 1..Len(r.puts) : SoundPut("FIFOQueue", 2, 3, st, port, t, r.star, r.puts[j])
  <2>1. SUFFICES ASSUME NEW j \in 1..Len(r.puts)
                 PROVE  SoundPut("FIFOQueue", 2, 3, st, port, t, r.star, r.puts[j])
    OBVIOUS
  <2>2. r.puts[j].time = t /\ r.puts[j].out \in 1..3
    BY <1>15
  <2>3. \E i \in 1..2 : port[i].new /\ r.puts[j].out \in Affected("FIFOQueue", i, 1..3)
    <3>1. CASE r.puts[j].out \in {1, 2}
      <4>1. PICK i \in 1..2 : port[i].new
        BY <1>1
      <4>2. i = 1 \/ i = 2
        OBVIOUS
      <4> QED
        BY <1>16, <3>1, <4>1, <4>2
    <3>2. CASE r.puts[j].out = 3 /\ port[2].new
      BY <1>16, <3>2
    <3> QED
      BY <1>15, <3>1, <3>2
  <2> QED
    BY <1>1, <2>2, <2>3 DEF SoundPut, Planned
<1>18. \A i \in 1..2 : port[i].new => i \in r.drained
  BY <1>3, <1>12
<1>19. r.drained \subseteq 1..2 /\ r.cleared \subseteq 1..2 /\ r.ok \in BOOLEAN /\ r.ok
  BY <1>4, <1>12
<1>20. Sound("FIFOQueue", param, 2, 3, st, port, t, r)
  BY <1>13, <1>14, <1>15, <1>17, <1>18, <1>19 DEF Sound, Planned
<1>21. AccountsFor(st, data, r)
  <2>1. ValuesPut(r.puts, 1) = ValuesPut(q.puts, 1) /\ ValuesPut(r.puts, 3) = ValuesPut(q.puts, 3)
    <3>1. \A o : ValuesPut(Append(q.puts, x), o)
                 = IF x.out = o THEN Append(ValuesPut(q.puts, o), x.val) ELSE ValuesPut(q.puts, o)
      BY <1>10, <1>11, ValuesPutAppend
    <3> QED
      BY <1>11, <1>12, <3>1
  <2>2. SUFFICES ASSUME NEW T \in Seq(Int), NEW O \in Seq(Int), NEW L \in Seq(Int),
                        Divides(T, O \o st.memory.queue, L)
                 PROVE  Divides(T \o data, (O \o ValuesPut(r.puts, 1)) \o r.star.memory.queue,
                                L \o ValuesPut(r.puts, 3))
    BY DEF AccountsFor
  <2>3. Account(T \o data, O, L, q)
    BY <1>5, <1>8, <2>2 DEF q
  <2> QED
    BY <1>13, <2>1, <2>3 DEF Account
<1> QED
  BY <1>12, <1>20, <1>21 DEF data

-----------------------------------------------------------------------------
(* Every star *)

\* What IsStar says of the numbers of inputs and outputs and the parameter.
LEMMA StarIs ==
  ASSUME NEW kind, NEW param, NEW E, NEW in \in Seq(E), NEW out \in Seq(E), IsStar(kind, param, in, out)
  PROVE  \/ kind = "Clock" /\ param \in Nat /\ Len(in) = 1 /\ Len(out) = 2 /\ in[1] = out[2]
         \/ kind = "Ramp" /\ Len(in) = 1 /\ Len(out) = 1
         \/ kind = "Fork" /\ Len(in) = 1
         \/ kind = "Merge" /\ Len(out) = 1
         \/ kind = "Sampler" /\ Len(in) = 2 /\ Len(out) = 1
         \/ kind = "Delay" /\ param \in Nat \ {0} /\ Len(in) = 1 /\ Len(out) = 1
         \/ kind = "Server" /\ param \in Nat \ {0} /\ Len(in) = 1 /\ Len(out) = 1
         \/ kind = "UDCounter" /\ Len(in) = 4 /\ Len(out) = 1
         \/ /\ kind = "FIFOQueue" /\ Len(in) = 2 /\ Len(out) = 3
            /\ param.capacity \in Int /\ param.consolidate \in BOOLEAN
         \/ kind = "Statistics" /\ Len(in) = 3 /\ Len(out) = 2
         \/ kind = "Printer" /\ Len(out) = 0
<1>1. in = <<out[2]>> => Len(in) = 1 /\ in[1] = out[2]
  OBVIOUS
<1> QED
  BY <1>1 DEF IsStar

LEMMA GoIsSound ==
  ASSUME NEW kind, NEW param, NEW E, NEW in \in Seq(E), NEW out \in Seq(E), IsStar(kind, param, in, out),
         NEW st, NEW port, NEW t, Callable(kind, param, Len(in), st, port, t),
         NEW r, r = Go(kind, param, Len(out), st, port, t)
  PROVE  Sound(kind, param, Len(in), Len(out), st, port, t, r)
<1>1. Len(in) \in Nat /\ Len(out) \in Nat
  OBVIOUS
<1>2. CASE kind = "Clock" /\ param \in Nat /\ Len(in) = 1 /\ Len(out) = 2
  <2>1. r = ClockGo(param, st, port, t)
    BY <1>2 DEF Go
  <2> QED
    BY <1>2, <2>1, ClockIsSound
<1>3. CASE kind = "Ramp" /\ Len(in) = 1 /\ Len(out) = 1
  <2>1. r = RampGo(st, port, t)
    BY <1>3 DEF Go
  <2> QED
    BY <1>3, <2>1, RampIsSound
<1>4. CASE kind = "Fork" /\ Len(in) = 1
  <2>1. r = ForkGo(Len(out), st, port, t)
    BY <1>4 DEF Go
  <2> QED
    BY <1>1, <1>4, <2>1, ForkIsSound
<1>5. CASE kind = "Merge" /\ Len(out) = 1
  <2>1. r = MergeGo(st, port, t)
    BY <1>5 DEF Go
  <2> QED
    BY <1>1, <1>5, <2>1, MergeIsSound
<1>6. CASE kind = "Sampler" /\ Len(in) = 2 /\ Len(out) = 1
  <2>1. r = SamplerGo(st, port, t)
    BY <1>6 DEF Go
  <2>2. Callable("Sampler", param, 2, st, port, t)
    BY <1>6
  <2>3. Sound("Sampler", param, 2, 1, st, port, t, r)
    BY <2>1, <2>2, SamplerIsSound
  <2> QED
    BY <1>6, <2>3
<1>7. CASE kind = "Delay" /\ param \in Nat \ {0} /\ Len(in) = 1 /\ Len(out) = 1
  <2>1. r = DelayGo(param, st, port, t)
    BY <1>7 DEF Go
  <2> QED
    BY <1>7, <2>1, DelayIsSound
<1>8. CASE kind = "Server" /\ param \in Nat \ {0} /\ Len(in) = 1 /\ Len(out) = 1
  <2>1. r = ServerGo(param, st, port, t)
    BY <1>8 DEF Go
  <2> QED
    BY <1>8, <2>1, ServerIsSound
<1>9. CASE kind = "UDCounter" /\ Len(in) = 4 /\ Len(out) = 1
  <2>1. r = UDCounterGo(st, port, t)
    BY <1>9 DEF Go
  <2> QED
    BY <1>9, <2>1, CounterIsSound
<1>10. CASE /\ kind = "FIFOQueue" /\ Len(in) = 2 /\ Len(out) = 3
            /\ param.capacity \in Int /\ param.consolidate \in BOOLEAN
  <2>1. r = FIFOQueueGo(param, st, port, t)
    BY <1>10 DEF Go
  <2> QED
    BY <1>10, <2>1, FIFOIsSound
<1>11. CASE kind = "Statistics" /\ Len(in) = 3 /\ Len(out) = 2
  <2>1. r = StatisticsGo(st, port, t)
    BY <1>11 DEF Go
  <2> QED
    BY <1>11, <2>1, StatisticsIsSound
<1>12. CASE kind = "Printer" /\ Len(out) = 0
  <2>1. r = Result(st, <<>>, {}, New(port))
    BY <1>12 DEF Go
  <2> QED
    BY <1>1, <1>12, <2>1, PrinterIsSound
<1> QED
  BY <1>2, <1>3, <1>4, <1>5, <1>6, <1>7, <1>8, <1>9, <1>10, <1>11, <1>12, StarIs

-----------------------------------------------------------------------------
(* The order of the queue *)

EventSet == [level : Nat, fine : Int, arc : Arcs(galaxy), val : Int]

\* What Cases gives, and Setup computes.
Configured ==
    /\ IsGalaxy(galaxy) /\ scheduler \in {"DE", "CQ"} /\ depth = LongestPath(galaxy)
    /\ \A s \in Stars(galaxy) : address[s] \in Int
    /\ \A s, u \in Stars(galaxy) : address[s] = address[u] => s = u
    /\ use.stops \subseteq Nat /\ use.maxHalts \in Nat /\ use.inverseTimeScale \in Nat

LEMMA EventIs ==
  ASSUME Configured, NEW e \in EventSet
  PROVE  /\ e.level \in Nat /\ e.fine \in Int /\ e.arc \in Arcs(galaxy) /\ e.val \in Int
         /\ Dest(e) \in Stars(galaxy) /\ address[Dest(e)] \in Int
<1>1. e.level \in Nat /\ e.fine \in Int /\ e.arc \in Arcs(galaxy) /\ e.val \in Int
  BY DEF EventSet
<1>2. Dest(e) \in Stars(galaxy)
  BY <1>1, Galaxy DEF Configured, Dest
<1> QED
  BY <1>1, <1>2 DEF Configured

LEMMA EarlierIs ==
  ASSUME Configured, NEW x \in EventSet, NEW y \in EventSet, NEW z \in EventSet
  PROVE  /\ ~Earlier(x, x) /\ (Earlier(x, y) => ~Earlier(y, x))
         /\ ~Earlier(y, x) /\ ~Earlier(z, y) => ~Earlier(z, x)
         /\ Earlier(x, y) /\ ~Earlier(z, y) => Earlier(x, z)
         /\ ~Earlier(y, x) => x.level <= y.level /\ (x.level = y.level => x.fine <= y.fine)
         /\ x.arc = y.arc /\ x.fine = y.fine => (Earlier(x, y) <=> x.level < y.level)
<1>1. /\ x.level \in Nat /\ x.fine \in Int /\ address[Dest(x)] \in Int
      /\ y.level \in Nat /\ y.fine \in Int /\ address[Dest(y)] \in Int
      /\ z.level \in Nat /\ z.fine \in Int /\ address[Dest(z)] \in Int
  BY EventIs
<1>2. x.arc = y.arc => Dest(x) = Dest(y)
  BY DEF Dest
<1> QED
  BY <1>1, <1>2 DEF Earlier

\* A queue in order.
InOrder(q) ==
    /\ q \in Seq(EventSet)
    /\ \A i \in 1..Len(q) : q[i].fine = depth[q[i].arc]
    /\ \A i, j \in 1..Len(q) : i < j => ~Earlier(q[j], q[i])

\* r is q with e put at its place n.
Pushed(q, e, n, r) ==
    /\ n \in 1..(Len(q) + 1) /\ r \in Seq(EventSet) /\ Inserted(q, n, e, r)
    /\ \A i \in 1..n - 1 : ~Earlier(e, q[i])
    /\ n <= Len(q) => Earlier(e, q[n])

LEMMA PushIs ==
  ASSUME Configured, NEW q \in Seq(EventSet), NEW e \in EventSet
  PROVE  \E n : Pushed(q, e, n, Push(q, e))
<1> DEFINE T == {Len(q) + 1} \cup {i \in DOMAIN q : Earlier(e, q[i])}
           n == Min(T)
           r == Push(q, e)
<1>1. Len(q) \in Nat /\ DOMAIN q = 1..Len(q)
  OBVIOUS
<1>2. T \subseteq 1..(Len(q) + 1) /\ Len(q) + 1 \in T
  BY <1>1
<1>3. n \in T /\ \A k \in T : n <= k
  <2>1. T \subseteq Nat /\ T # {}
    BY <1>2
  <2> HIDE DEF T
  <2>2. PICK m \in T : \A k \in T : m <= k
    BY <2>1, SmallestOne
  <2>3. Min(T) = m
    BY <2>1, <2>2, MinIs
  <2> QED
    BY <2>2, <2>3
<1>4. n \in 1..(Len(q) + 1)
  BY <1>2, <1>3
<1>5. \A i \in 1..n - 1 : ~Earlier(e, q[i])
  <2>1. SUFFICES ASSUME NEW i \in 1..n - 1, Earlier(e, q[i]) PROVE FALSE
    OBVIOUS
  <2>2. i \in DOMAIN q
    BY <1>1, <1>4
  <2>3. n <= i
    BY <1>3, <2>1, <2>2
  <2> HIDE DEF n
  <2> QED
    BY <1>4, <2>1, <2>3
<1>6. n <= Len(q) => Earlier(e, q[n])
  <2> HIDE DEF n
  <2> QED
    BY <1>1, <1>3, <1>4
<1>7. r = InsertAt(q, n, e)
  BY DEF Push
<1> HIDE DEF n, r
<1>8. r \in Seq(EventSet) /\ Inserted(q, n, e, r)
  <2>1. \E w \in Seq(EventSet) : w = InsertAt(q, n, e) /\ Inserted(q, n, e, w)
    BY <1>4, InsertedExists
  <2> QED
    BY <1>7, <2>1
<1> QED
  BY <1>4, <1>5, <1>6, <1>8 DEF Pushed, r

LEMMA PushKeepsOrder ==
  ASSUME Configured, NEW q, InOrder(q), NEW e \in EventSet, e.fine = depth[e.arc],
         NEW n, NEW r, Pushed(q, e, n, r)
  PROVE  /\ InOrder(r) /\ \A y : Has(r, y) <=> y = e \/ Has(q, y)
         /\ \A i \in n..Len(q) : Earlier(e, q[i])
<1>1. /\ n \in 1..(Len(q) + 1) /\ r \in Seq(EventSet) /\ Inserted(q, n, e, r) /\ q \in Seq(EventSet)
      /\ Len(q) \in Nat /\ \A i \in 1..Len(q) : q[i] \in EventSet
  BY DEF Pushed, InOrder
<1>2. \A i, j \in 1..Len(q) : i < j => ~Earlier(q[j], q[i])
  BY DEF InOrder
<1>3. \A i \in 1..Len(q) : i < n => ~Earlier(e, q[i])
  BY <1>1 DEF Pushed
<1>4. \A i \in 1..Len(q) : i >= n => Earlier(e, q[i])
  <2>1. SUFFICES ASSUME NEW i \in 1..Len(q), i >= n PROVE Earlier(e, q[i])
    OBVIOUS
  <2>2. n \in 1..Len(q) /\ Earlier(e, q[n])
    BY <1>1, <2>1 DEF Pushed
  <2>3. CASE i = n
    BY <2>2, <2>3
  <2>4. CASE i > n
    <3>1. ~Earlier(q[i], q[n]) /\ q[i] \in EventSet /\ q[n] \in EventSet
      BY <1>1, <1>2, <2>2, <2>4
    <3> DEFINE y == q[n]
               z == q[i]
    <3>2. e \in EventSet /\ y \in EventSet /\ z \in EventSet /\ Earlier(e, y) /\ ~Earlier(z, y)
      BY <2>2, <3>1
    <3> HIDE DEF y, z
    <3>3. Earlier(e, z)
      BY <3>2, EarlierIs
    <3> QED
      BY <3>3 DEF z
  <2> QED
    BY <1>1, <2>1, <2>3, <2>4
<1>5. /\ Len(r) = Len(q) + 1
      /\ \A i \in 1..(Len(q) + 1) :
               \/ i < n /\ i \in 1..Len(q) /\ r[i] = q[i]
               \/ i = n /\ r[i] = e
               \/ i > n /\ i - 1 \in 1..Len(q) /\ r[i] = q[i - 1]
  <2>1. q \in Seq(EventSet) /\ n \in 1..(Len(q) + 1) /\ Inserted(q, n, e, r)
    BY <1>1
  <2> QED
    BY <2>1, InsertedPlaces
<1>6. \A i \in 1..Len(r) : r[i].fine = depth[r[i].arc]
  <2>1. \A i \in 1..Len(q) : q[i].fine = depth[q[i].arc]
    BY DEF InOrder
  <2>2. \A i \in 1..Len(r) : r[i] = e \/ \E j \in 1..Len(q) : r[i] = q[j]
    BY <1>5
  <2> QED
    BY <2>1, <2>2
<1>7. \A i, j \in 1..Len(r) : i < j => ~Earlier(r[j], r[i])
  <2>1. SUFFICES ASSUME NEW i \in 1..Len(r), NEW j \in 1..Len(r), i < j
                 PROVE  ~Earlier(r[j], r[i])
    OBVIOUS
  <2>2. i \in 1..(Len(q) + 1) /\ j \in 1..(Len(q) + 1)
    BY <1>5
  <2>3. CASE j < n
    BY <1>1, <1>2, <1>5, <2>1, <2>2, <2>3
  <2>4. CASE j = n
    <3>1. i \in 1..Len(q) /\ r[i] = q[i] /\ r[j] = e /\ i < n
      BY <1>1, <1>5, <2>1, <2>2, <2>4
    <3> QED
      BY <1>3, <3>1
  <2>5. CASE j > n
    <3>1. j - 1 \in 1..Len(q) /\ r[j] = q[j - 1] /\ j - 1 >= n /\ q[j - 1] \in EventSet
      BY <1>1, <1>5, <2>2, <2>5
    <3>2. CASE i < n
      BY <1>1, <1>2, <1>5, <2>2, <3>1, <3>2
    <3>3. CASE i = n
      <4>1. r[i] = e /\ Earlier(e, q[j - 1])
        BY <1>4, <1>5, <2>2, <3>1, <3>3
      <4> QED
        BY <3>1, <4>1, EarlierIs
    <3>4. CASE i > n
      <4>1. i - 1 \in 1..Len(q) /\ r[i] = q[i - 1] /\ i - 1 < j - 1
        BY <1>1, <1>5, <2>1, <2>2, <3>4
      <4> QED
        BY <1>2, <3>1, <4>1
    <3> QED
      BY <1>1, <2>2, <3>2, <3>3, <3>4
  <2> QED
    BY <1>1, <2>2, <2>3, <2>4, <2>5
<1>8. \A y : Has(r, y) <=> y = e \/ Has(q, y)
  BY <1>1, HasAfterInsert
<1>9. \A i \in n..Len(q) : Earlier(e, q[i])
  BY <1>1, <1>4
<1> QED
  BY <1>1, <1>6, <1>7, <1>8, <1>9 DEF InOrder

\* f is the function pushed of Send.
Pushes(q, events, f) ==
    /\ f[0] = q /\ \A k \in 0..Len(events) : f[k] \in Seq(EventSet)
    /\ \A k \in 1..Len(events) : f[k] = Push(f[k - 1], events[k])

LEMMA SendIs ==
  ASSUME Configured, NEW q \in Seq(EventSet), NEW events \in Seq(EventSet), Send(events, q)
  PROVE  \E f : Pushes(q, events, f) /\ queue' = f[Len(events)]
<1> DEFINE n == Len(events)
           S == Seq(EventSet)
           Is(h) == h = [k \in 0..n |-> IF k = 0 THEN q ELSE Push(h[k - 1], events[k])]
           step == [k \in 1..n |-> [s \in S |-> Push(s, events[k])]]
<1>1. n \in Nat /\ \A k \in 1..n : events[k] \in EventSet
  OBVIOUS
<1>2. \A k \in 1..n : \A s \in S : Push(s, events[k]) \in S
  <2>1. SUFFICES ASSUME NEW s \in Seq(EventSet), NEW e \in EventSet PROVE Push(s, e) \in Seq(EventSet)
    BY <1>1
  <2>2. \E m : Pushed(s, e, m, Push(s, e))
    BY PushIs
  <2> QED
    BY <2>2 DEF Pushed
<1>3. PICK f : Recursion(f, S, q, step, n)
  <2>1. step \in [1..n -> [S -> S]]
    BY <1>2
  <2> HIDE DEF step, n, S
  <2>2. q \in S
    BY DEF S
  <2> QED
    BY <1>1, <2>1, <2>2, RecursionExists
<1>4. f \in [0..n -> S] /\ f[0] = q
  BY <1>3 DEF Recursion
<1>5. \A k \in 1..n : f[k] = Push(f[k - 1], events[k])
  <2>1. \A k \in 1..n : k - 1 \in 0..n
    BY <1>1
  <2>2. \A k \in 1..n : \A s \in S : step[k][s] = Push(s, events[k])
    OBVIOUS
  <2> HIDE DEF step, S
  <2>3. \A k \in 1..n : f[k] = step[k][f[k - 1]]
    BY <1>3 DEF Recursion
  <2> QED
    BY <1>4, <2>1, <2>2, <2>3
<1>6. Is(f)
  <2>1. \A k \in 0..n : k # 0 => k \in 1..n
    BY <1>1
  <2> HIDE DEF n, S
  <2> QED
    BY <1>4, <1>5, <2>1
<1>7. PICK u : u = CHOOSE h : Is(h)
  OBVIOUS
<1>8. Is(u)
  <2> HIDE DEF Is
  <2> QED
    BY <1>6, <1>7
<1>9. queue' = u[n]
  BY <1>7 DEF Send
<1> HIDE DEF step, n, S
<1>10. u[0] = q /\ \A k \in 1..n : u[k] = Push(u[k - 1], events[k])
  <2>1. 0 \in 0..n /\ \A k \in 1..n : k \in 0..n /\ k # 0
    BY <1>1
  <2> QED
    BY <1>8, <2>1
<1>11. \A k \in 0..n : u[k] \in S
  <2> DEFINE T == {k \in 0..n : u[k] \notin S}
  <2>1. SUFFICES ASSUME T # {} PROVE FALSE
    OBVIOUS
  <2>2. PICK k \in T : \A j \in T : k <= j
    <3>1. T \subseteq Nat
      OBVIOUS
    <3> HIDE DEF T
    <3> QED
      BY <2>1, <3>1, SmallestOne
  <2> HIDE DEF Is
  <2>3. k # 0
    <3>1. q \in S
      BY DEF S
    <3> QED
      BY <1>10, <2>2, <3>1
  <2>4. k \in 1..n /\ k - 1 \in 0..n /\ ~(k <= k - 1)
    BY <1>1, <2>2, <2>3
  <2>5. u[k - 1] \in S
    BY <2>2, <2>4
  <2>6. u[k] \in S
    BY <1>2, <1>10, <2>4, <2>5
  <2> QED
    BY <2>2, <2>6
<1>12. Pushes(q, events, u)
  BY <1>10, <1>11 DEF Pushes, n, S
<1> QED
  BY <1>9, <1>12 DEF n

\* The events have the depths of their arcs.
Deep(events) ==
    events \in Seq(EventSet) /\ \A j \in 1..Len(events) : events[j].fine = depth[events[j].arc]

LEMMA PushesKeepOrder ==
  ASSUME Configured, NEW q, InOrder(q), NEW events, Deep(events), NEW f, Pushes(q, events, f),
         NEW k \in 0..Len(events)
  PROVE  /\ InOrder(f[k])
         /\ \A y : Has(f[k], y) <=> Has(q, y) \/ \E j \in 1..k : events[j] = y
<1> DEFINE n == Len(events)
           Good(i) == /\ InOrder(f[i])
                      /\ \A y : Has(f[i], y) <=> Has(q, y) \/ \E j \in 1..i : events[j] = y
           T == {i \in 0..n : ~Good(i)}
<1>1. /\ f[0] = q /\ (\A i \in 1..n : f[i] = Push(f[i - 1], events[i]))
      /\ \A i \in 0..n : f[i] \in Seq(EventSet)
  BY DEF Pushes
<1>2. n \in Nat /\ \A i \in 1..n : events[i] \in EventSet /\ events[i].fine = depth[events[i].arc]
  BY DEF Deep
<1>3. Good(0)
  <2>1. ~ \E j \in 1..0 : TRUE
    OBVIOUS
  <2> QED
    BY <1>1, <2>1
<1>4. \A i \in 1..n : Good(i - 1) => Good(i)
  <2>1. SUFFICES ASSUME NEW i \in 1..n, Good(i - 1) PROVE Good(i)
    OBVIOUS
  <2>2. InOrder(f[i - 1]) /\ f[i - 1] \in Seq(EventSet) /\ f[i] = Push(f[i - 1], events[i])
    BY <1>1, <1>2, <2>1
  <2>3. \E m : Pushed(f[i - 1], events[i], m, f[i])
    BY <1>2, <2>2, PushIs
  <2>4. InOrder(f[i]) /\ \A y : Has(f[i], y) <=> y = events[i] \/ Has(f[i - 1], y)
    BY <1>2, <2>2, <2>3, PushKeepsOrder
  <2>5. \A y : (\E j \in 1..i : events[j] = y) <=> y = events[i] \/ \E j \in 1..(i - 1) : events[j] = y
    <3>1. \A j : j \in 1..i <=> j \in 1..(i - 1) \/ j = i
      BY <1>2
    <3> QED
      BY <3>1
  <2>6. \A y : Has(f[i - 1], y) <=> Has(q, y) \/ \E j \in 1..(i - 1) : events[j] = y
    BY <2>1
  <2>7. \A y : Has(f[i], y) <=> Has(q, y) \/ \E j \in 1..i : events[j] = y
    BY <2>4, <2>5, <2>6
  <2> QED
    BY <2>4, <2>7
<1> HIDE DEF Good
<1>5. T = {}
  <2>1. SUFFICES ASSUME T # {} PROVE FALSE
    OBVIOUS
  <2>2. PICK i \in T : \A j \in T : i <= j
    <3>1. T \subseteq Nat
      OBVIOUS
    <3> HIDE DEF T
    <3> QED
      BY <2>1, <3>1, SmallestOne
  <2>3. i # 0
    BY <1>3, <2>2
  <2>4. i \in 1..n /\ i - 1 \in 0..n /\ ~(i <= i - 1)
    BY <1>2, <2>2, <2>3
  <2>5. Good(i - 1)
    BY <2>2, <2>4
  <2>6. Good(i)
    BY <1>4, <2>4, <2>5
  <2> QED
    BY <2>2, <2>6
<1> QED
  BY <1>5 DEF Good

LEMMA SendKeepsOrder ==
  ASSUME Configured, NEW q, InOrder(q), NEW events, Deep(events), Send(events, q)
  PROVE  InOrder(queue') /\ \A y : Has(queue', y) <=> Has(q, y) \/ Has(events, y)
<1>1. q \in Seq(EventSet) /\ events \in Seq(EventSet)
  BY DEF InOrder, Deep
<1>2. PICK f : Pushes(q, events, f) /\ queue' = f[Len(events)]
  BY <1>1, SendIs
<1>3. Len(events) \in 0..Len(events)
  BY <1>1
<1>4. /\ InOrder(f[Len(events)])
      /\ \A y : Has(f[Len(events)], y) <=> Has(q, y) \/ \E j \in 1..Len(events) : events[j] = y
  BY <1>2, <1>3, PushesKeepOrder
<1>5. \A y : Has(events, y) <=> \E j \in 1..Len(events) : events[j] = y
  BY <1>1 DEF Has
<1> QED
  BY <1>2, <1>4, <1>5

-----------------------------------------------------------------------------
(* The order in which what a go() puts is sent *)

\* order goes through the puts, each of them once, and those at one output in order.
SendingOrder(puts, order) ==
    /\ order \in Seq(Nat) /\ \A k \in 1..Len(order) : order[k] \in 1..Len(puts)
    /\ \A j, k \in 1..Len(order) :
          j < k /\ puts[order[j]].out = puts[order[k]].out => order[j] < order[k]
    /\ \A i \in 1..Len(puts) : \E k \in 1..Len(order) : order[k] = i

LEMMA SendOrderIs ==
  ASSUME NEW puts \in Seq(PutSet), \A i \in 1..Len(puts) : puts[i].out # 0
  PROVE  SendingOrder(puts, SendOrder(puts))
<1> DEFINE n == Len(puts)
           before(i) == {j \in 1..i - 1 : puts[j].out = puts[i].out}
           outs == {puts[i].out : i \in DOMAIN puts}
           senders == Ascending({i \in DOMAIN puts : before(i) # {}}, n)
           ports == Ascending(outs, Max({0} \cup outs))
           ofPort(o) == {j \in DOMAIN puts : puts[j].out = o}
           first == [k \in DOMAIN senders |-> Max(before(senders[k]))]
           last == [k \in DOMAIN ports |-> Max(ofPort(ports[k]))]
           order == SendOrder(puts)
<1>1. order = first \o last
  BY DEF SendOrder
<1>2. n \in Nat /\ DOMAIN puts = 1..n /\ \A i \in 1..n : puts[i].out \in Nat
  <2>1. n \in Nat /\ DOMAIN puts = 1..n /\ \A i \in 1..n : puts[i] \in PutSet
    OBVIOUS
  <2> QED
    BY <2>1 DEF PutSet
<1>3. Enumerates(senders, {i \in 1..n : before(i) # {}})
  <2> DEFINE S == {i \in DOMAIN puts : before(i) # {}}
  <2>1. S \cap (1..n) = {i \in 1..n : before(i) # {}}
    BY <1>2
  <2> HIDE DEF S, n
  <2>2. Enumerates(Ascending(S, n), S \cap (1..n))
    BY <1>2, AscendingEnumerates
  <2> QED
    BY <2>1, <2>2 DEF S
<1>4. \E m \in Nat : Max({0} \cup outs) = m /\ \A x \in outs : x \in Nat /\ x <= m
  <2> DEFINE U == {0} \cup outs
  <2>1. U \subseteq Nat /\ U # {}
    BY <1>2
  <2>2. IsFiniteSet(U)
    <3>1. IsFiniteSet(1..n)
      BY <1>2, FS_Interval
    <3> DEFINE g == [i \in 1..n |-> puts[i].out]
    <3>2. outs = {g[i] : i \in 1..n}
      BY <1>2
    <3>3. DOMAIN g = 1..n
      OBVIOUS
    <3> HIDE DEF g, outs
    <3>4. IsFiniteSet(outs)
      BY <3>1, <3>2, <3>3, ImageIsFinite
    <3>5. IsFiniteSet({0})
      BY FS_Singleton
    <3> QED
      BY <3>4, <3>5, FS_Union
  <2>3. \E x \in U : \A y \in U : y <= x
    <3> DEFINE W == {0 - x : x \in U}
               h == [x \in U |-> 0 - x]
    <3>1. W = {h[x] : x \in U} /\ DOMAIN h = U
      OBVIOUS
    <3> HIDE DEF U
    <3>2. W \subseteq Int /\ W # {}
      <4>1. \A x \in U : 0 - x \in Int
        BY <2>1
      <4> QED
        BY <2>1, <4>1
    <3> HIDE DEF h, W
    <3>3. IsFiniteSet(W)
      BY <2>2, <3>1, ImageIsFinite
    <3>4. Min(W) \in W /\ \A y \in W : Min(W) <= y
      BY <3>2, <3>3, FiniteMinimum
    <3> USE DEF W
    <3>5. PICK x \in U : Min(W) = 0 - x
      BY <3>4
    <3>6. \A y \in U : 0 - x <= 0 - y
      BY <3>4, <3>5
    <3>7. \A y \in U : y \in Nat
      BY <2>1
    <3>8. \A y \in U : y <= x
      <4>1. \A a, b \in Nat : 0 - a <= 0 - b => b <= a
        OBVIOUS
      <4> QED
        BY <3>6, <3>7, <4>1
    <3> QED
      BY <3>8
  <2> HIDE DEF U
  <2>4. PICK x \in U : \A y \in U : y <= x
    BY <2>3
  <2>5. \A y \in U : x >= y
    BY <2>1, <2>4
  <2>6. Max(U) \in U /\ \A y \in U : Max(U) >= y
    BY <2>5 DEF Max
  <2>7. Max(U) \in Nat /\ \A y \in U : y \in Nat /\ y <= Max(U)
    BY <2>1, <2>6
  <2>8. \A y \in outs : y \in U
    BY DEF U
  <2> QED
    BY <2>7, <2>8 DEF U
<1>5. Enumerates(ports, outs)
  <2>1. PICK m \in Nat : Max({0} \cup outs) = m /\ \A x \in outs : x \in Nat /\ x <= m
    BY <1>4
  <2>2. outs \cap (1..m) = outs
    BY <1>2, <2>1
  <2> HIDE DEF outs
  <2>3. Enumerates(Ascending(outs, m), outs \cap (1..m))
    BY <2>1, AscendingEnumerates
  <2> QED
    BY <2>1, <2>2, <2>3
<1>6. \A i \in 1..n : before(i) # {} => /\ Max(before(i)) \in before(i)
                                       /\ \A y \in before(i) : y <= Max(before(i))
  <2>1. SUFFICES ASSUME NEW i \in 1..n, NEW T, T = before(i), T # {}
                 PROVE  Max(T) \in T /\ \A y \in T : y <= Max(T)
    OBVIOUS
  <2>2. T \subseteq 0..n
    BY <1>2, <2>1
  <2> QED
    BY <1>2, <2>1, <2>2, LargestOne
<1>7. \A o \in outs : /\ Max(ofPort(o)) \in ofPort(o)
                      /\ \A y \in ofPort(o) : y <= Max(ofPort(o))
  <2>1. SUFFICES ASSUME NEW o \in outs, NEW T, T = ofPort(o)
                 PROVE  Max(T) \in T /\ \A y \in T : y <= Max(T)
    OBVIOUS
  <2>2. T \subseteq 0..n /\ T # {}
    BY <1>2, <2>1
  <2> QED
    BY <1>2, <2>2, LargestOne
<1> HIDE DEF senders, ports
<1> DEFINE a == Len(senders)
           b == Len(ports)
<1>8. /\ a \in Nat /\ DOMAIN senders = 1..a /\ b \in Nat /\ DOMAIN ports = 1..b
      /\ (\A k \in 1..a : senders[k] \in 1..n /\ before(senders[k]) # {})
      /\ (\A i \in 1..n : before(i) # {} => \E k \in 1..a : senders[k] = i)
      /\ (\A j, k \in 1..a : j < k => senders[j] < senders[k])
  <2> DEFINE T == {i \in 1..n : before(i) # {}}
  <2>1. senders \in Seq(Nat) /\ ports \in Seq(Nat) /\ Enumerates(senders, T)
    BY <1>3, <1>5 DEF Enumerates
  <2>2. \A i : i \in T <=> i \in 1..n /\ before(i) # {}
    OBVIOUS
  <2> HIDE DEF before, T
  <2>3. /\ a \in Nat /\ DOMAIN senders = 1..a /\ b \in Nat /\ DOMAIN ports = 1..b
    BY <2>1
  <2>4. \A k \in 1..a : senders[k] \in T
    BY <2>1 DEF Enumerates
  <2>5. \A i \in T : \E k \in 1..a : senders[k] = i
    BY <2>1 DEF Enumerates
  <2>6. \A j, k \in 1..a : j < k => senders[j] < senders[k]
    BY <2>1 DEF Enumerates
  <2> QED
    BY <2>2, <2>3, <2>4, <2>5, <2>6
<1>9. /\ \A k \in 1..b : ports[k] \in outs
      /\ \A o \in outs : \E k \in 1..b : ports[k] = o
      /\ \A j, k \in 1..b : j < k => ports[j] < ports[k]
  <2> HIDE DEF outs
  <2> QED
    BY <1>5 DEF Enumerates
<1> HIDE DEF a, b
<1>10. /\ first \in Seq(1..n) /\ Len(first) = a
       /\ \A k \in 1..a : /\ first[k] = Max(before(senders[k])) /\ first[k] \in 1..n
                          /\ first[k] < senders[k] /\ puts[first[k]].out = puts[senders[k]].out
                          /\ \A j \in 1..n : j < senders[k] /\ puts[j].out = puts[senders[k]].out => j <= first[k]
  <2>1. \A k \in 1..a : first[k] = Max(before(senders[k]))
    BY <1>8
  <2>2. \A k \in 1..a : /\ first[k] \in 1..n
                          /\ first[k] < senders[k] /\ puts[first[k]].out = puts[senders[k]].out
                          /\ \A j \in 1..n : j < senders[k] /\ puts[j].out = puts[senders[k]].out => j <= first[k]
    <3>1. SUFFICES ASSUME NEW k \in 1..a, NEW i \in 1..n, i = senders[k], NEW f, f = Max(before(i))
                   PROVE  /\ f \in 1..n /\ f < i /\ puts[f].out = puts[i].out
                          /\ \A j \in 1..n : j < i /\ puts[j].out = puts[i].out => j <= f
      BY <1>8, <2>1
    <3>2. f \in before(i) /\ \A y \in before(i) : y <= f
      BY <1>6, <1>8, <3>1
    <3>3. \A j \in 1..n : j < i /\ puts[j].out = puts[i].out => j \in before(i)
      BY <1>2
    <3>4. f \in 1..i - 1 /\ puts[f].out = puts[i].out
      BY <3>2
    <3>5. \A j \in 1..n : j < i /\ puts[j].out = puts[i].out => j <= f
      BY <3>2, <3>3
    <3> QED
      BY <1>2, <3>4, <3>5
  <2>3. DOMAIN first = 1..a
    BY <1>8
  <2> HIDE DEF first
  <2>4. first \in [1..a -> 1..n]
    <3>1. first = [k \in 1..a |-> first[k]]
      BY <2>3 DEF first
    <3> QED
      BY <2>2, <3>1
  <2>5. first \in Seq(1..n) /\ Len(first) = a
    <3>1. a \in Nat
      BY <1>8
    <3>2. \A S, f : f \in [1..a -> S] => f \in Seq(S) /\ Len(f) = a
      BY <3>1
    <3> QED
      BY <2>4, <3>2
  <2> QED
    BY <2>1, <2>2, <2>5
<1>11. /\ last \in Seq(1..n) /\ Len(last) = b
       /\ \A k \in 1..b : /\ last[k] \in 1..n /\ puts[last[k]].out = ports[k]
                          /\ \A j \in 1..n : puts[j].out = ports[k] => j <= last[k]
  <2>1. \A k \in 1..b : last[k] = Max(ofPort(ports[k]))
    BY <1>8
  <2>2. \A k \in 1..b : /\ last[k] \in 1..n /\ puts[last[k]].out = ports[k]
                          /\ \A j \in 1..n : puts[j].out = ports[k] => j <= last[k]
    <3>1. SUFFICES ASSUME NEW o \in outs, NEW f, f = Max(ofPort(o))
                   PROVE  /\ f \in 1..n /\ puts[f].out = o
                          /\ \A j \in 1..n : puts[j].out = o => j <= f
      BY <1>9, <2>1
    <3>2. f \in ofPort(o) /\ \A y \in ofPort(o) : y <= f
      BY <1>7, <3>1
    <3>3. \A j \in 1..n : puts[j].out = o => j \in ofPort(o)
      BY <1>2
    <3>4. f \in 1..n /\ puts[f].out = o
      BY <1>2, <3>2
    <3> QED
      BY <3>2, <3>3, <3>4
  <2>3. DOMAIN last = 1..b
    BY <1>8
  <2> HIDE DEF last
  <2>4. last \in [1..b -> 1..n]
    <3>1. last = [k \in 1..b |-> last[k]]
      BY <2>3 DEF last
    <3> QED
      BY <2>2, <3>1
  <2>5. last \in Seq(1..n) /\ Len(last) = b
    BY <1>8, <2>4
  <2> QED
    BY <2>2, <2>5
<1> HIDE DEF first, last, order, before, ofPort
<1>12. /\ order \in Seq(1..n) /\ Len(order) = a + b /\ (\A k \in 1..a : order[k] = first[k])
       /\ \A k \in (a + 1)..(a + b) : order[k] = last[k - a]
  <2>1. order \in Seq(1..n) /\ Joined(first, last, order)
    BY <1>1, <1>10, <1>11, JoinedIs
  <2> QED
    BY <1>10, <1>11, <2>1 DEF Joined
<1>13. \A k \in 1..(a + b) : k \in 1..a \/ (k \in (a + 1)..(a + b) /\ k - a \in 1..b)
  BY <1>8
<1>14. order \in Seq(Nat) /\ \A k \in 1..Len(order) : order[k] \in 1..n
  BY <1>2, <1>12
<1>15. \A j, k \in 1..Len(order) :
          j < k /\ puts[order[j]].out = puts[order[k]].out => order[j] < order[k]
  <2>1. SUFFICES ASSUME NEW j \in 1..(a + b), NEW k \in 1..(a + b), j < k,
                        puts[order[j]].out = puts[order[k]].out
                 PROVE  order[j] < order[k]
    BY <1>12
  <2>2. CASE k \in 1..a
    <3>1. j \in 1..a /\ senders[j] < senders[k]
      BY <1>8, <2>1, <2>2
    <3>2. order[j] = first[j] /\ order[k] = first[k]
      BY <1>12, <2>2, <3>1
    <3>3. puts[senders[j]].out = puts[senders[k]].out /\ senders[j] \in 1..n
      BY <1>8, <1>10, <2>1, <2>2, <3>1, <3>2
    <3>4. senders[j] <= first[k] /\ first[j] < senders[j]
      BY <1>10, <2>2, <3>1, <3>3
    <3>5. first[j] \in 1..n /\ first[k] \in 1..n /\ senders[j] \in 1..n
      BY <1>10, <2>2, <3>1, <3>3
    <3> QED
      BY <1>2, <3>2, <3>4, <3>5
  <2>3. CASE j \in 1..a /\ k \in (a + 1)..(a + b)
    <3>1. k - a \in 1..b
      BY <1>8, <2>3
    <3>2. order[j] = first[j] /\ order[k] = last[k - a] /\ k - a \in 1..b
      BY <1>12, <2>3, <3>1
    <3>3. puts[senders[j]].out = ports[k - a] /\ senders[j] \in 1..n
      BY <1>8, <1>10, <1>11, <2>1, <2>3, <3>2
    <3>4. senders[j] <= last[k - a] /\ first[j] < senders[j]
      BY <1>10, <1>11, <2>3, <3>2, <3>3
    <3>5. first[j] \in 1..n /\ last[k - a] \in 1..n
      BY <1>10, <1>11, <2>3, <3>2
    <3> QED
      BY <1>2, <3>2, <3>3, <3>4, <3>5
  <2>4. CASE j \in (a + 1)..(a + b)
    <3>1. /\ order[j] = last[j - a] /\ order[k] = last[k - a] /\ k - a \in 1..b /\ j - a \in 1..b
          /\ j - a < k - a
      <4>1. /\ k \in (a + 1)..(a + b) /\ k - a \in 1..b /\ j - a \in 1..b /\ j - a < k - a
        BY <1>8, <2>1, <2>4
      <4> QED
        BY <1>12, <2>4, <4>1
    <3>2. ports[j - a] = ports[k - a]
      BY <1>11, <2>1, <3>1
    <3>3. ports[j - a] < ports[k - a] /\ ports[j - a] \in Nat
      BY <1>2, <1>9, <3>1
    <3> QED
      BY <3>2, <3>3
  <2> QED
    BY <1>13, <2>2, <2>3, <2>4
<1>16. \A i \in 1..n : \E k \in 1..Len(order) : order[k] = i
  <2>1. SUFFICES ASSUME NEW i \in 1..n PROVE \E k \in 1..(a + b) : order[k] = i
    BY <1>12
  <2> DEFINE U == {j \in 1..n : j > i /\ puts[j].out = puts[i].out}
  <2>2. CASE U = {}
    <3>1. puts[i].out \in outs
      BY <1>2
    <3>2. PICK k \in 1..b : ports[k] = puts[i].out
      BY <1>9, <3>1
    <3>3. i <= last[k] /\ last[k] \in 1..n /\ puts[last[k]].out = puts[i].out
      BY <1>11, <3>2
    <3>4. last[k] = i
      BY <1>2, <2>2, <3>3
    <3>5. a + k \in (a + 1)..(a + b) /\ (a + k) - a = k /\ a + k \in 1..(a + b)
      BY <1>8
    <3> QED
      BY <1>12, <3>4, <3>5
  <2>3. CASE U # {}
    <3>1. PICK m \in U : \A y \in U : m <= y
      <4>1. U \subseteq Nat
        OBVIOUS
      <4> HIDE DEF U
      <4> QED
        BY <2>3, <4>1, SmallestOne
    <3>2. m \in 1..n /\ m > i /\ puts[m].out = puts[i].out
      BY <3>1
    <3>3. before(m) # {}
      <4>1. i \in 1..m - 1
        BY <1>2, <3>2
      <4> QED
        BY <3>2, <4>1 DEF before
    <3>4. PICK k \in 1..a : senders[k] = m
      BY <1>8, <3>2, <3>3
    <3>5. /\ first[k] \in 1..n /\ first[k] < m /\ puts[first[k]].out = puts[m].out
          /\ i <= first[k]
      BY <1>10, <3>2, <3>4
    <3>6. ~(first[k] > i)
      <4>1. SUFFICES ASSUME first[k] > i PROVE FALSE
        OBVIOUS
      <4>2. first[k] \in U
        BY <3>2, <3>5, <4>1
      <4> QED
        BY <1>2, <3>1, <3>2, <3>5, <4>2
    <3>7. first[k] = i
      BY <1>2, <3>5, <3>6
    <3>8. k \in 1..(a + b)
      BY <1>8
    <3> QED
      BY <1>12, <3>4, <3>7, <3>8
  <2> QED
    BY <2>2, <2>3
<1> QED
  BY <1>14, <1>15, <1>16 DEF SendingOrder, order, n

LEMMA EventsAre ==
  ASSUME Configured, NEW s \in Stars(galaxy), NEW puts \in Seq(PutSet),
         \A j \in 1..Len(puts) : puts[j].out \in 1..Len(galaxy.out[s]),
         NEW order, order = SendOrder(puts), NEW events, events = Events(s, puts)
  PROVE  /\ SendingOrder(puts, order) /\ Deep(events) /\ Len(events) = Len(order)
         /\ \A k \in 1..Len(events) :
               /\ order[k] \in 1..Len(puts)
               /\ events[k] = Event(galaxy.out[s][puts[order[k]].out], puts[order[k]].time, puts[order[k]].val)
<1>1. SendingOrder(puts, order)
  <2>1. \A i \in 1..Len(puts) : puts[i].out # 0
    OBVIOUS
  <2> QED
    BY <2>1, SendOrderIs
<1>2. order \in Seq(Nat) /\ \A k \in 1..Len(order) : order[k] \in 1..Len(puts)
  BY <1>1 DEF SendingOrder
<1>3. \A i \in 1..Len(puts) : /\ puts[i].time \in Nat /\ puts[i].val \in Int
                             /\ galaxy.out[s][puts[i].out] \in Arcs(galaxy)
  <2>1. \A i \in 1..Len(puts) : puts[i] \in PutSet
    OBVIOUS
  <2>2. \A o \in 1..Len(galaxy.out[s]) : galaxy.out[s][o] \in Arcs(galaxy)
    BY Galaxy DEF Configured
  <2> QED
    BY <2>1, <2>2 DEF PutSet
<1>4. \A p \in Arcs(galaxy) : depth[p] \in Int
  BY Depths DEF Configured
<1>5. \A i \in 1..Len(puts) :
         LET e == Event(galaxy.out[s][puts[i].out], puts[i].time, puts[i].val)
         IN  e \in EventSet /\ e.fine = depth[e.arc]
  BY <1>3, <1>4, SMTT(30) DEF Event, EventSet
<1>6. events = [k \in DOMAIN order |-> Event(galaxy.out[s][puts[order[k]].out], puts[order[k]].time, puts[order[k]].val)]
  BY DEF Events
<1>7. DOMAIN order = 1..Len(order) /\ Len(order) \in Nat
  BY <1>2
<1>8. \A k \in 1..Len(order) :
         /\ events[k] = Event(galaxy.out[s][puts[order[k]].out], puts[order[k]].time, puts[order[k]].val)
         /\ events[k] \in EventSet /\ events[k].fine = depth[events[k].arc]
  BY <1>2, <1>5, <1>6, <1>7
<1>9. DOMAIN events = 1..Len(order) /\ events = [k \in DOMAIN events |-> events[k]]
  BY <1>6, <1>7
<1>10. events \in Seq(EventSet) /\ Len(events) = Len(order)
  BY <1>7, <1>8, <1>9
<1> QED
  BY <1>1, <1>2, <1>8, <1>10 DEF Deep

-----------------------------------------------------------------------------
(* Events leave the queue *)

LEMMA TailKeepsOrder ==
  ASSUME Configured, NEW q, InOrder(q), q # <<>>
  PROVE  /\ InOrder(Tail(q)) /\ Head(q) = q[1] /\ Head(q) \in EventSet /\ 1 \in 1..Len(q)
         /\ Len(Tail(q)) = Len(q) - 1 /\ \A i \in 1..Len(Tail(q)) : Tail(q)[i] = q[i + 1] /\ i + 1 \in 1..Len(q)
         /\ \A y : Has(q, y) <=> y = Head(q) \/ Has(Tail(q), y)
         /\ \A i \in 1..Len(q) : ~Earlier(q[i], Head(q))
<1>1. q \in Seq(EventSet)
  BY DEF InOrder
<1>2. Head(q) = q[1] /\ 1 \in 1..Len(q) /\ q[1] \in EventSet
  BY <1>1, HeadIs
<1>3. /\ Tail(q) \in Seq(EventSet) /\ Len(Tail(q)) = Len(q) - 1 /\ Len(q) \in Nat
      /\ \A i \in 1..Len(q) - 1 : Tail(q)[i] = q[i + 1] /\ i + 1 \in 1..Len(q)
  <2>1. \A i \in 1..Len(q) - 1 : i + 1 \in 1..Len(q)
    BY <1>1
  <2> QED
    BY <1>1, <2>1, TailIs
<1>4. \A i, j \in 1..Len(q) : i < j => ~Earlier(q[j], q[i])
  BY DEF InOrder
<1>5. InOrder(Tail(q))
  <2>1. \A i \in 1..Len(q) : q[i].fine = depth[q[i].arc]
    BY DEF InOrder
  <2>2. \A i \in 1..Len(Tail(q)) : Tail(q)[i].fine = depth[Tail(q)[i].arc]
    BY <1>3, <2>1
  <2>3. \A i, j \in 1..Len(Tail(q)) : i < j => ~Earlier(Tail(q)[j], Tail(q)[i])
    BY <1>3, <1>4
  <2> QED
    BY <1>3, <2>2, <2>3 DEF InOrder
<1>6. \A y : Has(q, y) <=> y = Head(q) \/ Has(Tail(q), y)
  <2>1. \A i \in 1..Len(q) : i = 1 \/ (i - 1 \in 1..Len(q) - 1 /\ (i - 1) + 1 = i)
    BY <1>3
  <2>2. ASSUME NEW i \in 1..Len(q) PROVE q[i] = Head(q) \/ Has(Tail(q), q[i])
    <3>1. CASE i = 1
      BY <1>2, <3>1
    <3>2. CASE i - 1 \in 1..Len(q) - 1 /\ (i - 1) + 1 = i
      <4>1. i - 1 \in 1..Len(Tail(q)) /\ Tail(q)[i - 1] = q[i]
        BY <1>3, <3>2
      <4> QED
        BY <4>1 DEF Has
    <3> QED
      BY <2>1, <3>1, <3>2
  <2>3. \A i \in 1..Len(Tail(q)) : i + 1 \in 1..Len(q) /\ q[i + 1] = Tail(q)[i]
    BY <1>3
  <2> QED
    BY <1>2, <2>2, <2>3 DEF Has
<1>7. \A i \in 1..Len(q) : ~Earlier(q[i], Head(q))
  <2>1. \A i \in 1..Len(q) : i = 1 \/ 1 < i
    BY <1>3
  <2>2. ~Earlier(q[1], q[1])
    BY <1>2, EarlierIs
  <2> QED
    BY <1>2, <1>4, <2>1, <2>2
<1> QED
  BY <1>2, <1>3, <1>5, <1>6, <1>7

LEMMA KeptKeepsOrder ==
  ASSUME NEW q, InOrder(q), NEW S
  PROVE  InOrder(Kept(q, S)) /\ \A y : Has(Kept(q, S), y) => Has(q, y)
<1>1. q \in Seq(EventSet)
  BY DEF InOrder
<1>2. PICK o : KeptAlong(EventSet, q, S, o)
  BY <1>1, KeptIs
<1> DEFINE r == Kept(q, S)
<1>3. /\ r \in Seq(EventSet) /\ Len(r) = Len(o) /\ o \in Seq(Nat)
      /\ \A i \in 1..Len(o) : o[i] \in 1..Len(q) /\ r[i] = q[o[i]]
      /\ \A i, j \in 1..Len(o) : i < j => o[i] < o[j]
  BY <1>2 DEF KeptAlong, Enumerates
<1> HIDE DEF r
<1>4. \A i \in 1..Len(r) : r[i].fine = depth[r[i].arc]
  BY <1>3 DEF InOrder
<1>5. \A i, j \in 1..Len(r) : i < j => ~Earlier(r[j], r[i])
  BY <1>3 DEF InOrder
<1>6. \A y : Has(r, y) => Has(q, y)
  BY <1>3 DEF Has
<1>7. InOrder(r)
  BY <1>3, <1>4, <1>5 DEF InOrder
<1> QED
  BY <1>6, <1>7 DEF r

-----------------------------------------------------------------------------
(* Simultaneous events go to a star *)

PortSet == [new : BOOLEAN, val : Int, more : Nat, que : Seq(Int)]
PortsSet == [Arcs(galaxy) -> PortSet]

LEMMA GetFromQueueIs ==
  ASSUME NEW s, NEW port \in PortSet, NEW val \in Int
  PROVE  /\ GetFromQueue(s, port, val) \in PortSet /\ GetFromQueue(s, port, val).new
         /\ ~Phase(s) => /\ GetFromQueue(s, port, val).more = port.more + 1
                         /\ GetFromQueue(s, port, val).val = IF port.more = 0 THEN val ELSE port.val
<1> DEFINE r == GetFromQueue(s, port, val)
<1>1. /\ port.new \in BOOLEAN /\ port.val \in Int /\ port.more \in Nat /\ port.que \in Seq(Int)
      /\ port = [new |-> port.new, val |-> port.val, more |-> port.more, que |-> port.que]
  BY DEF PortSet
<1> DEFINE w == Append(port.que, val)
           n == port.more + 1
<1>2. w \in Seq(Int) /\ n \in Nat
  BY <1>1
<1> DEFINE a == [port EXCEPT !.new = TRUE]
<1>3. /\ a \in PortSet /\ a.new /\ a.val = port.val /\ a.more = port.more /\ a.que = port.que
  BY DEF PortSet
<1> HIDE DEF w, n, r, a
<1>4. CASE Phase(s)
  <2>1. r = [a EXCEPT !.que = w]
    BY <1>4 DEF GetFromQueue, a, r, w
  <2>2. r \in PortSet /\ r.new
    BY <1>2, <1>3, <2>1 DEF PortSet
  <2> QED
    BY <1>4, <2>2 DEF r
<1>5. CASE ~Phase(s) /\ port.more > 0
  <2>1. r = [a EXCEPT !.more = n]
    BY <1>5 DEF GetFromQueue, a, r, n
  <2>2. r \in PortSet /\ r.new /\ r.more = n /\ r.val = a.val
    BY <1>2, <1>3, <2>1 DEF PortSet
  <2> QED
    BY <1>1, <1>5, <1>3, <2>2 DEF r, n
<1>6. CASE ~Phase(s) /\ port.more = 0
  <2> DEFINE b == [a EXCEPT !.more = 1]
  <2>1. r = [b EXCEPT !.val = val]
    BY <1>6 DEF GetFromQueue, a, r
  <2>2. b \in PortSet /\ b.new /\ b.more = 1
    BY <1>3 DEF PortSet
  <2> HIDE DEF b
  <2>3. r \in PortSet /\ r.new /\ r.more = 1 /\ r.val = val
    BY <2>1, <2>2 DEF PortSet
  <2> QED
    BY <1>6, <2>3 DEF r
<1> QED
  BY <1>1, <1>4, <1>5, <1>6

\* One round of Gather, on acc, for the k-th event.
OfferTo(q, s, sim, k, acc) ==
    IF k \notin sim THEN acc
    ELSE [ports |-> [acc.ports EXCEPT ![q[k].arc] = GetFromQueue(s, @, q[k].val)],
          left |-> IF Accepts(s, acc.ports[q[k].arc]) THEN acc.left \ {k} ELSE acc.left]

Offered(q) == [ports : PortsSet, left : SUBSET (1..Len(q))]

\* f is the function offered of Gather.
Offers(q, s, sim, ports, f) ==
    /\ f[0] = [ports |-> ports, left |-> DOMAIN q] /\ \A k \in 0..Len(q) : f[k] \in Offered(q)
    /\ \A k \in 1..Len(q) : f[k] = OfferTo(q, s, sim, k, f[k - 1])

\* What a round leaves, r.
OfferStep(q, s, sim, k, acc, r) ==
    /\ r \in Offered(q) /\ r.left \subseteq acc.left
    /\ \A p \in Arcs(galaxy) : acc.ports[p].new => r.ports[p].new
    /\ \A p \in Arcs(galaxy) : ~(k \in sim /\ q[k].arc = p) => r.ports[p] = acc.ports[p]
    /\ k \notin sim => r.left = acc.left
    /\ k \in sim => /\ r.ports[q[k].arc] = GetFromQueue(s, acc.ports[q[k].arc], q[k].val)
                    /\ r.left = IF Accepts(s, acc.ports[q[k].arc]) THEN acc.left \ {k} ELSE acc.left

LEMMA OfferToIs ==
  ASSUME NEW q \in Seq(EventSet), NEW s, NEW sim, NEW k \in 1..Len(q), NEW acc \in Offered(q),
         NEW r, r = OfferTo(q, s, sim, k, acc)
  PROVE  OfferStep(q, s, sim, k, acc, r)
<1>1. acc.ports \in PortsSet /\ acc.left \in SUBSET (1..Len(q))
  BY DEF Offered
<1>2. CASE k \notin sim
  <2>1. r = acc
    BY <1>2 DEF OfferTo
  <2> QED
    BY <1>2, <2>1 DEF OfferStep
<1>3. CASE k \in sim
  <2> DEFINE p == q[k].arc
             v == q[k].val
             g == GetFromQueue(s, acc.ports[p], v)
             w == IF Accepts(s, acc.ports[p]) THEN acc.left \ {k} ELSE acc.left
  <2>1. p \in Arcs(galaxy) /\ v \in Int
    <3>1. q[k] \in EventSet
      OBVIOUS
    <3> QED
      BY <3>1 DEF EventSet
  <2>2. acc.ports[p] \in PortSet
    BY <1>1, <2>1 DEF PortsSet
  <2>3. g \in PortSet /\ g.new
    BY <2>1, <2>2, GetFromQueueIs
  <2>4. r = [ports |-> [acc.ports EXCEPT ![p] = g], left |-> w]
    BY <1>3 DEF OfferTo
  <2>5. w \in SUBSET (1..Len(q)) /\ w \subseteq acc.left
    BY <1>1
  <2> HIDE DEF p, v, g, w
  <2>6. r.ports = [acc.ports EXCEPT ![p] = g] /\ r.left = w
    BY <2>4
  <2>7. r.ports \in PortsSet
    BY <1>1, <2>1, <2>3, <2>6 DEF PortsSet
  <2>8. r.ports[p] = g /\ \A x \in Arcs(galaxy) : x # p => r.ports[x] = acc.ports[x]
    BY <1>1, <2>1, <2>6 DEF PortsSet
  <2>9. r \in Offered(q)
    BY <2>4, <2>5, <2>6, <2>7 DEF Offered
  <2>10. \A x \in Arcs(galaxy) : acc.ports[x].new => r.ports[x].new
    BY <2>3, <2>8
  <2>11. \A x \in Arcs(galaxy) : ~(k \in sim /\ q[k].arc = x) => r.ports[x] = acc.ports[x]
    BY <1>3, <2>8 DEF p
  <2>12. /\ r.ports[q[k].arc] = GetFromQueue(s, acc.ports[q[k].arc], q[k].val)
         /\ r.left = IF Accepts(s, acc.ports[q[k].arc]) THEN acc.left \ {k} ELSE acc.left
    BY <2>6, <2>8 DEF p, v, g, w
  <2> QED
    BY <1>3, <2>5, <2>6, <2>9, <2>10, <2>11, <2>12 DEF OfferStep
<1> QED
  BY <1>2, <1>3

LEMMA OffersExist ==
  ASSUME NEW q \in Seq(EventSet), NEW s, NEW t, NEW ports \in PortsSet
  PROVE  \E f : /\ Offers(q, s, Simultaneous(q, s, t), ports, f)
                /\ Gather(q, s, t, ports) = f[Len(q)]
<1> DEFINE n == Len(q)
           S == Offered(q)
           c == [ports |-> ports, left |-> DOMAIN q]
           sim == Simultaneous(q, s, t)
           Is(h) == h = [k \in 0..n |-> IF k = 0 THEN c ELSE OfferTo(q, s, sim, k, h[k - 1])]
           step == [k \in 1..n |-> [a \in S |-> OfferTo(q, s, sim, k, a)]]
<1>1. n \in Nat /\ DOMAIN q = 1..n
  OBVIOUS
<1>2. c \in S
  BY <1>1 DEF Offered
<1>3. \A k \in 1..n : \A a \in S : OfferTo(q, s, sim, k, a) \in S
  <2> HIDE DEF sim
  <2> QED
    BY OfferToIs DEF OfferStep
<1> HIDE DEF sim
<1>4. PICK f : Recursion(f, S, c, step, n)
  <2>1. step \in [1..n -> [S -> S]]
    BY <1>3
  <2> HIDE DEF step, n, S, c
  <2> QED
    BY <1>1, <1>2, <2>1, RecursionExists
<1>5. f \in [0..n -> S] /\ f[0] = c
  BY <1>4 DEF Recursion
<1>6. \A k \in 1..n : f[k] = OfferTo(q, s, sim, k, f[k - 1])
  <2>1. \A k \in 1..n : k - 1 \in 0..n
    BY <1>1
  <2>2. \A k \in 1..n : \A a \in S : step[k][a] = OfferTo(q, s, sim, k, a)
    OBVIOUS
  <2> HIDE DEF step, S
  <2>3. \A k \in 1..n : f[k] = step[k][f[k - 1]]
    BY <1>4 DEF Recursion
  <2> QED
    BY <1>5, <2>1, <2>2, <2>3
<1>7. Is(f)
  <2>1. \A k \in 0..n : k # 0 => k \in 1..n
    BY <1>1
  <2> HIDE DEF n, S, c
  <2> QED
    BY <1>5, <1>6, <2>1
<1>8. PICK u : u = CHOOSE h : Is(h)
  OBVIOUS
<1>9. Is(u)
  <2> HIDE DEF Is
  <2> QED
    BY <1>7, <1>8
<1>10. Gather(q, s, t, ports) = u[n]
  BY <1>8 DEF Gather, OfferTo, sim
<1> HIDE DEF step, n, S
<1>11. u[0] = c /\ \A k \in 1..n : u[k] = OfferTo(q, s, sim, k, u[k - 1])
  <2>1. 0 \in 0..n /\ \A k \in 1..n : k \in 0..n /\ k # 0
    BY <1>1
  <2> HIDE DEF c
  <2> QED
    BY <1>9, <2>1
<1> HIDE DEF c
<1>12. \A k \in 0..n : u[k] \in S
  <2> DEFINE T == {k \in 0..n : u[k] \notin S}
  <2>1. SUFFICES ASSUME T # {} PROVE FALSE
    OBVIOUS
  <2>2. PICK k \in T : \A j \in T : k <= j
    <3>1. T \subseteq Nat
      OBVIOUS
    <3> HIDE DEF T
    <3> QED
      BY <2>1, <3>1, SmallestOne
  <2> HIDE DEF Is
  <2>3. k # 0
    BY <1>2, <1>11, <2>2
  <2>4. k \in 1..n /\ k - 1 \in 0..n /\ ~(k <= k - 1)
    BY <1>1, <2>2, <2>3
  <2>5. u[k - 1] \in S
    BY <2>2, <2>4
  <2>6. u[k] \in S
    BY <1>3, <1>11, <2>4, <2>5
  <2> QED
    BY <2>2, <2>6
<1>13. Offers(q, s, sim, ports, u)
  BY <1>11, <1>12 DEF Offers, n, S, c
<1> QED
  BY <1>10, <1>13 DEF n, sim

LEMMA GatherKeeps ==
  ASSUME NEW q \in Seq(EventSet), NEW s, NEW t, NEW ports \in PortsSet, NEW g, g = Gather(q, s, t, ports)
  PROVE  /\ g.ports \in PortsSet /\ g.left \subseteq 1..Len(q)
         /\ \A p \in Arcs(galaxy) : ports[p].new => g.ports[p].new
         /\ \A p \in Arcs(galaxy) : g.ports[p].new
               => ports[p].new \/ \E i \in 1..Len(q) : q[i].arc = p /\ q[i].level <= t
<1> DEFINE n == Len(q)
           sim == Simultaneous(q, s, t)
<1>1. PICK f : Offers(q, s, sim, ports, f) /\ g = f[n]
  BY OffersExist
<1> HIDE DEF sim
<1>2. n \in Nat /\ n \in 0..n
  OBVIOUS
<1>3. g \in Offered(q)
  BY <1>1, <1>2 DEF Offers
<1> DEFINE Comes(p) == \E i \in 1..Len(q) : i \in sim /\ q[i].arc = p
           Good(k) == \A p \in Arcs(galaxy) : /\ ports[p].new => f[k].ports[p].new
                                              /\ f[k].ports[p].new => ports[p].new \/ Comes(p)
           T == {k \in 0..n : ~Good(k)}
<1>4. Good(0)
  <2>1. f[0].ports = ports
    BY <1>1 DEF Offers
  <2> QED
    BY <2>1
<1>5. \A k \in 1..n : Good(k - 1) => Good(k)
  <2>1. SUFFICES ASSUME NEW k \in 1..n, Good(k - 1) PROVE Good(k)
    OBVIOUS
  <2>2. f[k - 1] \in Offered(q) /\ f[k] = OfferTo(q, s, sim, k, f[k - 1])
    <3>1. k - 1 \in 0..n
      BY <1>2
    <3> QED
      BY <1>1, <3>1 DEF Offers
  <2>3. \A p \in Arcs(galaxy) : /\ f[k - 1].ports[p].new => f[k].ports[p].new
                                /\ f[k].ports[p].new => f[k - 1].ports[p].new \/ Comes(p)
    <3> DEFINE acc == f[k - 1]
               r == f[k]
    <3>1. acc \in Offered(q) /\ r = OfferTo(q, s, sim, k, acc)
      BY <2>2
    <3>2. sim = sim /\ k \in 1..Len(q)
      OBVIOUS
    <3> HIDE DEF acc, r, n, T, Good, Comes
    <3>3. OfferStep(q, s, sim, k, acc, r)
      BY <3>1, <3>2, OfferToIs
    <3>4. \A p \in Arcs(galaxy) : acc.ports[p].new => r.ports[p].new
      BY <3>3 DEF OfferStep
    <3>5. \A p \in Arcs(galaxy) : r.ports[p].new => acc.ports[p].new \/ Comes(p)
      BY <3>2, <3>3 DEF OfferStep, Comes
    <3> QED
      BY <3>4, <3>5 DEF acc, r
  <2> HIDE DEF Comes
  <2> QED
    BY <2>1, <2>3
<1> HIDE DEF Good
<1>6. T = {}
  <2>1. SUFFICES ASSUME T # {} PROVE FALSE
    OBVIOUS
  <2>2. PICK k \in T : \A j \in T : k <= j
    <3>1. T \subseteq Nat
      OBVIOUS
    <3> HIDE DEF T
    <3> QED
      BY <2>1, <3>1, SmallestOne
  <2>3. k # 0
    BY <1>4, <2>2
  <2>4. k \in 1..n /\ k - 1 \in 0..n /\ ~(k <= k - 1)
    BY <1>2, <2>2, <2>3
  <2>5. Good(k - 1)
    BY <2>2, <2>4
  <2>6. Good(k)
    BY <1>5, <2>4, <2>5
  <2> QED
    BY <2>2, <2>6
<1>7. Good(n)
  BY <1>2, <1>6
<1>8. \A i \in sim : i \in 1..Len(q) => q[i].level <= t
  <2>1. \A i \in sim : \A j \in 1..i : q[j].level <= t
    BY DEF sim, Simultaneous
  <2>2. \A i \in 1..Len(q) : i \in 1..i
    OBVIOUS
  <2> QED
    BY <2>1, <2>2
<1>9. \A p \in Arcs(galaxy) : /\ ports[p].new => g.ports[p].new
                              /\ g.ports[p].new => ports[p].new \/ Comes(p)
  BY <1>1, <1>7 DEF Good
<1>10. \A p \in Arcs(galaxy) : Comes(p) => \E i \in 1..Len(q) : q[i].arc = p /\ q[i].level <= t
  BY <1>8
<1> HIDE DEF Comes
<1>11. g.ports \in PortsSet /\ g.left \subseteq 1..Len(q)
  BY <1>3 DEF Offered
<1>12. \A p \in Arcs(galaxy) : ports[p].new => g.ports[p].new
  BY <1>9
<1>13. \A p \in Arcs(galaxy) : g.ports[p].new
          => ports[p].new \/ \E i \in 1..Len(q) : q[i].arc = p /\ q[i].level <= t
  BY <1>9, <1>10, Zenon
<1> QED
  BY <1>11, <1>12, <1>13, Zenon

\* The ports before the simultaneous events are offered.
Fresh(e) == [StartNewPhase(input, Dest(e)) EXCEPT ![e.arc] = GetFromQueue(Dest(e), @, e.val)]

LEMMA ArcIs ==
  ASSUME Configured, NEW p \in Arcs(galaxy)
  PROVE  /\ DestOf(galaxy, p) \in Stars(galaxy) /\ p \in ToSet(galaxy.in[DestOf(galaxy, p)])
         /\ galaxy.in[DestOf(galaxy, p)] \in Seq(Arcs(galaxy))
<1>1. /\ DestOf(galaxy, p) \in Stars(galaxy)
      /\ IndexOf(galaxy, p) \in 1..Len(galaxy.in[DestOf(galaxy, p)])
      /\ galaxy.in[DestOf(galaxy, p)][IndexOf(galaxy, p)] = p
      /\ galaxy.in[DestOf(galaxy, p)] \in Seq(Arcs(galaxy))
  BY Galaxy DEF Configured
<1> QED
  BY <1>1, ToSetHas DEF Has

LEMMA FreshIs ==
  ASSUME Configured, input \in PortsSet, NEW e \in EventSet, NEW s, s = Dest(e)
  PROVE  /\ Fresh(e) \in PortsSet /\ Fresh(e)[e.arc].new
         /\ \A p \in Arcs(galaxy) : p # e.arc => Fresh(e)[p].new = input[p].new
         /\ \A p \in Arcs(galaxy) : p # e.arc => Fresh(e)[p].val = input[p].val
         /\ \A p \in ToSet(galaxy.in[s]) : ~Phase(s) /\ p # e.arc => Fresh(e)[p].more = 0
         /\ \A p \in Arcs(galaxy) : p \notin ToSet(galaxy.in[s]) => Fresh(e)[p] = input[p]
         /\ ~Phase(s) => Fresh(e)[e.arc].more = 1 /\ Fresh(e)[e.arc].val = e.val
<1> DEFINE ports == StartNewPhase(input, s)
           a == e.arc
           v == e.val
<1>1. a \in Arcs(galaxy) /\ v \in Int /\ s \in Stars(galaxy) /\ a \in ToSet(galaxy.in[s])
  <2>1. a \in Arcs(galaxy) /\ v \in Int
    BY EventIs
  <2>2. /\ DestOf(galaxy, a) \in Stars(galaxy)
        /\ IndexOf(galaxy, a) \in 1..Len(galaxy.in[DestOf(galaxy, a)])
        /\ galaxy.in[DestOf(galaxy, a)][IndexOf(galaxy, a)] = a
        /\ galaxy.in[DestOf(galaxy, a)] \in Seq(Arcs(galaxy))
    BY <2>1, Galaxy DEF Configured
  <2>3. a \in ToSet(galaxy.in[DestOf(galaxy, a)])
    BY <2>2, ToSetHas DEF Has
  <2> QED
    BY <2>1, <2>2, <2>3 DEF Dest
<1>2. DOMAIN input = Arcs(galaxy) /\ \A p \in Arcs(galaxy) : input[p] \in PortSet
  BY DEF PortsSet
<1>3. /\ ports \in PortsSet
      /\ \A p \in Arcs(galaxy) : /\ ports[p] \in PortSet
                                 /\ ports[p].new = input[p].new /\ ports[p].val = input[p].val
                                 /\ p \in ToSet(galaxy.in[s]) => ports[p].more = 0
                                 /\ p \notin ToSet(galaxy.in[s]) => ports[p] = input[p]
  <2>1. ports = [p \in Arcs(galaxy) |-> IF p \in ToSet(galaxy.in[s])
                                       THEN [input[p] EXCEPT !.more = 0, !.que = <<>>] ELSE input[p]]
    BY <1>2 DEF StartNewPhase
  <2>2. \A p \in Arcs(galaxy) : LET x == [input[p] EXCEPT !.more = 0, !.que = <<>>]
                                IN  x \in PortSet /\ x.new = input[p].new /\ x.val = input[p].val /\ x.more = 0
    <3>1. SUFFICES ASSUME NEW y \in PortSet, NEW x, x = [y EXCEPT !.more = 0, !.que = <<>>]
                   PROVE  x \in PortSet /\ x.new = y.new /\ x.val = y.val /\ x.more = 0
      BY <1>2
    <3> DEFINE z == [y EXCEPT !.more = 0]
    <3>2. z \in PortSet /\ z.new = y.new /\ z.val = y.val /\ z.more = 0
      BY DEF PortSet
    <3>3. x = [z EXCEPT !.que = <<>>] /\ <<>> \in Seq(Int)
      BY <3>1
    <3> HIDE DEF z
    <3>4. x \in PortSet /\ x.new = z.new /\ x.val = z.val /\ x.more = z.more
      BY <3>2, <3>3 DEF PortSet
    <3> QED
      BY <3>2, <3>4
  <2> HIDE DEF ports
  <2>3. \A p \in Arcs(galaxy) : /\ ports[p] \in PortSet
                                /\ ports[p].new = input[p].new /\ ports[p].val = input[p].val
                                /\ p \in ToSet(galaxy.in[s]) => ports[p].more = 0
                                /\ p \notin ToSet(galaxy.in[s]) => ports[p] = input[p]
    BY <1>2, <2>1, <2>2
  <2>4. ports = [p \in Arcs(galaxy) |-> ports[p]]
    BY <2>1
  <2> QED
    BY <2>3, <2>4 DEF PortsSet
<1> DEFINE g == GetFromQueue(s, ports[a], v)
<1>4. Fresh(e) = [ports EXCEPT ![a] = g]
  BY DEF Fresh
<1> HIDE DEF ports, a, v
<1>5. /\ g \in PortSet /\ g.new
      /\ ~Phase(s) => g.more = ports[a].more + 1 /\ g.val = IF ports[a].more = 0 THEN v ELSE ports[a].val
  <2> DEFINE x == ports[a]
  <2>1. x \in PortSet /\ v \in Int
    BY <1>1, <1>3, Zenon
  <2> HIDE DEF x
  <2>2. /\ GetFromQueue(s, x, v) \in PortSet /\ GetFromQueue(s, x, v).new
        /\ ~Phase(s) => /\ GetFromQueue(s, x, v).more = x.more + 1
                        /\ GetFromQueue(s, x, v).val = IF x.more = 0 THEN v ELSE x.val
    BY <2>1, GetFromQueueIs, ZenonT(40)
  <2> QED
    BY <2>2, Zenon DEF x
<1> HIDE DEF g
<1>6. ~Phase(s) => g.more = 1 /\ g.val = v
  BY <1>1, <1>3, <1>5
<1>7. /\ Fresh(e) \in PortsSet /\ Fresh(e)[a] = g
      /\ \A p \in Arcs(galaxy) : p # a => Fresh(e)[p] = ports[p]
  BY <1>1, <1>3, <1>4, <1>5 DEF PortsSet
<1>8. Arcs(galaxy) = UNION {ToSet(galaxy.in[u]) : u \in Stars(galaxy)}
  BY DEF Arcs
<1>9. ToSet(galaxy.in[s]) \subseteq Arcs(galaxy)
  BY <1>1, <1>8
<1>10. \A p \in Arcs(galaxy) : p # a => Fresh(e)[p].new = input[p].new /\ Fresh(e)[p].val = input[p].val
  BY <1>3, <1>7
<1>11. \A p \in ToSet(galaxy.in[s]) : p # a => Fresh(e)[p].more = 0
  BY <1>3, <1>7, <1>9
<1>12. \A p \in Arcs(galaxy) : p \notin ToSet(galaxy.in[s]) => Fresh(e)[p] = input[p]
  BY <1>1, <1>3, <1>7
<1> QED
  BY <1>5, <1>6, <1>7, <1>10, <1>11, <1>12 DEF a, v

LEMMA NextFiringIs ==
  ASSUME Configured, InOrder(queue), queue # <<>>, input \in PortsSet, NEW f, f = NextFiring,
         NEW e, e = Head(queue)
  PROVE  /\ e \in EventSet /\ f.star = Dest(e) /\ f.star \in Stars(galaxy) /\ f.time = e.level
         /\ f.ports = Gather(Tail(queue), f.star, f.time, Fresh(e)).ports
         /\ f.queue = Kept(Tail(queue), Gather(Tail(queue), f.star, f.time, Fresh(e)).left)
         /\ f.ports \in PortsSet /\ f.ports[e.arc].new /\ e.arc \in ToSet(galaxy.in[f.star])
         /\ InOrder(f.queue) /\ \A y : Has(f.queue, y) => Has(queue, y)
<1> DEFINE w == Tail(queue)
           s == Dest(e)
           g == Gather(w, s, e.level, Fresh(e))
<1>1. /\ e \in EventSet /\ InOrder(w) /\ w \in Seq(EventSet)
      /\ \A y : Has(queue, y) <=> y = e \/ Has(w, y)
  BY TailKeepsOrder DEF InOrder
<1>2. f = [star |-> s, time |-> e.level, ports |-> g.ports, queue |-> Kept(w, g.left)]
  BY DEF NextFiring, Fresh
<1>3. Fresh(e) \in PortsSet /\ Fresh(e)[e.arc].new /\ e.arc \in Arcs(galaxy) /\ s \in Stars(galaxy)
  BY <1>1, FreshIs, EventIs
<1> HIDE DEF w, s, g
<1>4. g.ports \in PortsSet /\ \A p \in Arcs(galaxy) : Fresh(e)[p].new => g.ports[p].new
  BY <1>1, <1>3, GatherKeeps DEF g
<1>5. InOrder(Kept(w, g.left)) /\ \A y : Has(Kept(w, g.left), y) => Has(w, y)
  BY <1>1, KeptKeepsOrder
<1>6. f.star = s /\ f.time = e.level /\ f.ports = g.ports /\ f.queue = Kept(w, g.left)
  BY <1>2
<1>7. e.arc \in ToSet(galaxy.in[s])
  <2> DEFINE p == e.arc
  <2>1. p \in Arcs(galaxy)
    BY <1>3
  <2> HIDE DEF p
  <2>2. p \in ToSet(galaxy.in[DestOf(galaxy, p)])
    BY <2>1, ArcIs
  <2> QED
    BY <2>2 DEF p, s, Dest
<1>8. f.ports = Gather(w, f.star, f.time, Fresh(e)).ports /\ f.queue = Kept(w, Gather(w, f.star, f.time, Fresh(e)).left)
  BY <1>6 DEF g
<1> QED
  BY <1>1, <1>3, <1>4, <1>5, <1>6, <1>7, <1>8 DEF w, s

\* The first n events of arc p in q are those at the places mine.
FirstEvents(q, p, n, mine, places) ==
    /\ Enumerates(mine, {i \in 1..Len(q) : q[i].arc = p})
    /\ places \in Seq(Nat) /\ Len(places) = IF n <= 0 THEN 0 ELSE IF n <= Len(mine) THEN n ELSE Len(mine)
    /\ \A k \in 1..Len(places) : k \in 1..Len(mine) /\ places[k] = mine[k] /\ places[k] \in 1..Len(q)

LEMMA EventsAtIs ==
  ASSUME NEW q \in Seq(EventSet), NEW p, NEW n \in Int
  PROVE  \E mine : FirstEvents(q, p, n, mine, EventsAt(q, p, n))
<1> DEFINE P == {i \in DOMAIN q : q[i].arc = p}
           mine == Ascending(P, Len(q))
           m == Min({n, Len(mine)})
           places == EventsAt(q, p, n)
<1>1. DOMAIN q = 1..Len(q) /\ Len(q) \in Nat
  OBVIOUS
<1>2. Enumerates(mine, {i \in 1..Len(q) : q[i].arc = p})
  <2>1. P \cap (1..Len(q)) = {i \in 1..Len(q) : q[i].arc = p}
    BY <1>1
  <2> HIDE DEF P
  <2>2. Enumerates(Ascending(P, Len(q)), P \cap (1..Len(q)))
    BY <1>1, AscendingEnumerates
  <2> QED
    BY <2>1, <2>2
<1>3. places = SubSeq(mine, 1, m)
  BY DEF EventsAt
<1> HIDE DEF mine, places
<1>4. mine \in Seq(Nat) /\ Len(mine) \in Nat /\ \A k \in 1..Len(mine) : mine[k] \in 1..Len(q)
  BY <1>2 DEF Enumerates
<1>5. m = IF n <= Len(mine) THEN n ELSE Len(mine)
  <2>1. \E x \in {n, Len(mine)} : \A y \in {n, Len(mine)} : x <= y
    BY <1>4
  <2>2. m \in {n, Len(mine)} /\ \A y \in {n, Len(mine)} : m <= y
    BY <2>1 DEF Min
  <2> HIDE DEF m
  <2> QED
    BY <1>4, <2>2
<1> HIDE DEF m
<1>6. m \in Int /\ m <= Len(mine)
  BY <1>4, <1>5
<1>7. CASE m <= 0
  <2>1. places = <<>>
    <3>1. SubSeq(mine, 1, m) \in Seq(Nat) /\ Len(SubSeq(mine, 1, m)) = 0
      BY <1>4, <1>6, <1>7
    <3> QED
      BY <1>3, <3>1
  <2>2. places \in Seq(Nat) /\ Len(places) = 0
    BY <2>1
  <2>3. Len(places) = IF n <= 0 THEN 0 ELSE IF n <= Len(mine) THEN n ELSE Len(mine)
    BY <1>4, <1>5, <1>7, <2>2
  <2>4. FirstEvents(q, p, n, mine, places)
    BY <1>2, <2>2, <2>3 DEF FirstEvents
  <2> QED
    BY <2>4 DEF places
<1>8. CASE m > 0
  <2>1. 1 \in 1..(Len(mine) + 1) /\ m \in 0..Len(mine) /\ 1 <= m + 1 /\ m - 1 + 1 = m
    BY <1>4, <1>6, <1>8
  <2>2. places \in Seq(Nat) /\ Len(places) = m /\ \A i \in 1..m : places[i] = mine[1 + i - 1]
    BY <1>3, <1>4, <2>1, SubSeqIs
  <2>3. \A i \in 1..m : i \in 1..Len(mine) /\ 1 + i - 1 = i
    BY <1>4, <1>6
  <2>4. Len(places) = IF n <= 0 THEN 0 ELSE IF n <= Len(mine) THEN n ELSE Len(mine)
    BY <1>4, <1>5, <1>8, <2>2
  <2>5. FirstEvents(q, p, n, mine, places)
    BY <1>2, <1>4, <2>2, <2>3, <2>4 DEF FirstEvents
  <2> QED
    BY <2>5 DEF places
<1> QED
  BY <1>6, <1>7, <1>8

LEMMA ReadableIs ==
  ASSUME NEW q \in Seq(EventSet), NEW s, NEW p, NEW port \in PortSet,
         NEW r, r = Readable(q, s, p, port)
  PROVE  /\ r \in ReadableSet /\ r.new = port.new
         /\ ~Phase(s) => /\ r.vals # <<>> /\ Len(r.vals) = Len(EventsAt(q, p, port.more - 1)) + 1
                         /\ r.vals[1] = port.val
                         /\ \A k \in 1..Len(EventsAt(q, p, port.more - 1)) :
                               r.vals[k + 1] = q[EventsAt(q, p, port.more - 1)[k]].val
<1> DEFINE n == port.more - 1
           more == EventsAt(q, p, n)
           tail == [i \in DOMAIN more |-> q[more[i]].val]
<1>1. port.new \in BOOLEAN /\ port.val \in Int /\ port.que \in Seq(Int) /\ n \in Int
  BY DEF PortSet
<1>2. more \in Seq(Nat) /\ Len(more) \in Nat /\ \A k \in 1..Len(more) : more[k] \in 1..Len(q)
  <2> HIDE DEF n
  <2>1. \E mine : FirstEvents(q, p, n, mine, more)
    BY <1>1, EventsAtIs
  <2> HIDE DEF more
  <2> QED
    BY <2>1 DEF FirstEvents
<1>3. r = [new |-> port.new, vals |-> IF Phase(s) THEN port.que ELSE <<port.val>> \o tail]
  BY DEF Readable
<1> HIDE DEF more, n
<1>4. tail \in Seq(Int) /\ Len(tail) = Len(more) /\ \A k \in 1..Len(more) : tail[k] = q[more[k]].val
  <2>1. \A k \in 1..Len(more) : q[more[k]] \in EventSet
    BY <1>2
  <2>2. \A k \in 1..Len(more) : q[more[k]].val \in Int
    BY <2>1 DEF EventSet
  <2>3. DOMAIN more = 1..Len(more)
    BY <1>2
  <2> QED
    BY <1>2, <2>2, <2>3
<1> HIDE DEF tail
<1> DEFINE all == <<port.val>> \o tail
<1>5. /\ all \in Seq(Int) /\ Len(all) = Len(more) + 1 /\ all[1] = port.val
      /\ \A k \in 1..Len(more) : all[k + 1] = tail[k]
  <2> DEFINE one == <<port.val>>
  <2>1. one \in Seq(Int) /\ Len(one) = 1 /\ one[1] = port.val
    BY <1>1
  <2> HIDE DEF one
  <2>2. one \o tail \in Seq(Int) /\ Joined(one, tail, one \o tail)
    BY <1>4, <2>1, JoinedIs
  <2>3. \A k \in 1..Len(more) : k + 1 \in (1 + 1)..(1 + Len(more)) /\ (k + 1) - 1 = k
    BY <1>2
  <2> DEFINE w == one \o tail
  <2>4. /\ Len(w) = 1 + Len(more) /\ (\A i \in 1..1 : w[i] = one[i])
        /\ \A i \in (1 + 1)..(1 + Len(more)) : w[i] = tail[i - 1]
    BY <1>4, <2>1, <2>2 DEF Joined
  <2> HIDE DEF w
  <2>5. Len(w) = Len(more) + 1 /\ w[1] = port.val /\ \A k \in 1..Len(more) : w[k + 1] = tail[k]
    BY <1>2, <2>1, <2>3, <2>4
  <2> QED
    BY <2>2, <2>5 DEF w, one
<1> HIDE DEF all
<1>6. r.new = port.new /\ r.vals = IF Phase(s) THEN port.que ELSE all
  BY <1>3 DEF all
<1>7. r \in ReadableSet
  <2>1. (IF Phase(s) THEN port.que ELSE all) \in Seq(Int)
    BY <1>1, <1>5
  <2> QED
    BY <1>1, <1>3, <2>1 DEF ReadableSet, all
<1>8. ~Phase(s) => all # <<>>
  BY <1>2, <1>5
<1>9. ~Phase(s) => /\ r.vals # <<>> /\ Len(r.vals) = Len(more) + 1 /\ r.vals[1] = port.val
                   /\ \A k \in 1..Len(more) : r.vals[k + 1] = q[more[k]].val
  BY <1>4, <1>5, <1>6, <1>8
<1> QED
  BY <1>6, <1>7, <1>9 DEF more, n

-----------------------------------------------------------------------------
(* A firing *)

\* What Fire computes for the firing f.
ReadableOf(f) == [i \in DOMAIN galaxy.in[f.star] |->
                    Readable(f.queue, f.star, galaxy.in[f.star][i], f.ports[galaxy.in[f.star][i]])]
ResultOf(f) == Go(galaxy.kind[f.star], galaxy.param[f.star], Len(galaxy.out[f.star]), star[f.star],
                  ReadableOf(f), f.time)
DrainedBy(f) == {galaxy.in[f.star][i] : i \in ResultOf(f).drained}
ClearedBy(f) == {galaxy.in[f.star][i] : i \in ResultOf(f).cleared}
FetchedBy(f) == UNION {ToSet(EventsAt(f.queue, p, f.ports[p].more - 1)) : p \in DrainedBy(f)}
Remaining(f) == Kept(f.queue, DOMAIN f.queue \ FetchedBy(f))
SentBy(f)    == Events(f.star, ResultOf(f).puts)
InputAfter(f) == Read(f.star, f.ports,
                      [p \in ToSet(galaxy.in[f.star]) |-> ReadableOf(f)[IndexOf(galaxy, p)]],
                      DrainedBy(f), ClearedBy(f))

\* What Fire does, in these names.
Fired(f) ==
    /\ FiringDue /\ f = NextFiring /\ currentTime' = f.time
    /\ fired' = [star |-> f.star, time |-> f.time,
                 ports |-> {p \in ToSet(galaxy.in[f.star]) : f.ports[p].new}]
    /\ star' = [star EXCEPT ![f.star] = ResultOf(f).star]
    /\ input' = InputAfter(f)
    /\ Send(SentBy(f), Remaining(f))
    /\ IF ~ResultOf(f).ok THEN pc' = "error" /\ halts' = halts
       ELSE \/ pc' = pc /\ halts' = halts
            \/ halts < use.maxHalts /\ pc' = "ready" /\ halts' = halts + 1
    /\ config' = config /\ stopTime' = stopTime

LEMMA FireIs ==
  ASSUME Fire, NEW f, f = NextFiring
  PROVE  Fired(f)
<1>1. PICK h \in {NextFiring} :
        /\ currentTime' = h.time
        /\ fired' = [star |-> h.star, time |-> h.time,
                     ports |-> {p \in ToSet(galaxy.in[h.star]) : h.ports[p].new}]
        /\ star' = [star EXCEPT ![h.star] = ResultOf(h).star]
        /\ input' = InputAfter(h)
        /\ Send(SentBy(h), Remaining(h))
        /\ IF ~ResultOf(h).ok THEN pc' = "error" /\ UNCHANGED halts
           ELSE \/ UNCHANGED <<pc, halts>>
                \/ "post" \in use.halts /\ halts < use.maxHalts
                   /\ pc' = "ready" /\ halts' = halts + 1
  BY Zenon DEF Fire, ReadableOf, ResultOf, DrainedBy, ClearedBy, FetchedBy, Remaining, SentBy, InputAfter
<1>2. h = f
  OBVIOUS
<1>3. FiringDue /\ UNCHANGED <<config, stopTime>>
  BY ZenonT(40) DEF Fire
<1> QED
  BY <1>1, <1>2, <1>3 DEF Fired

-----------------------------------------------------------------------------
(* The times of the events *)

Typed ==
    /\ Configured /\ InOrder(queue) /\ input \in PortsSet
    /\ DOMAIN star = Stars(galaxy) /\ \A s \in Stars(galaxy) : star[s] \in StarSet(galaxy.kind[s])
    /\ sent \in [Arcs(galaxy) -> Seq(SentSet)]
    /\ currentTime \in Nat /\ stopTime \in Nat /\ halts \in 0..use.maxHalts
    /\ pc \in {"setup", "ready", "running", "dead", "error"}
    /\ fired.time \in Nat /\ fired.ports \subseteq Arcs(galaxy)

\* No event is earlier than the last firing, or than the scheduler's time when
\* that is the time of the events.
InTime ==
    \A i \in 1..Len(queue) :
        /\ queue[i].level >= fired.time
        /\ use.inverseTimeScale = 1 => queue[i].level >= currentTime

\* A clock is not ahead of its own event, and a delay no further than its delay.
Clocked ==
    /\ \A i \in 1..Len(queue) : galaxy.kind[Dest(queue[i])] = "Clock"
                                => queue[i].level <= star[Dest(queue[i])].completionTime
    /\ \A s \in Stars(galaxy) : galaxy.kind[s] = "Delay"
                                => star[s].completionTime <= fired.time + galaxy.param[s]

\* What there is before Begin.
NotStarted ==
    pc = "setup" => /\ queue = <<>> /\ fired.time = 0 /\ fired.ports = {} /\ currentTime = 0
                    /\ \A p \in Arcs(galaxy) : sent[p] = <<>>

\* The events simultaneous with the last firing are no less deep than the least
\* deep new event of that firing.
Deeper(e) == e.level = fired.time => fired.ports = {} \/ \E q \in fired.ports : depth[q] <= e.fine
CausesFirst == \A i \in 1..Len(queue) : Deeper(queue[i])

\* The star is called as it expects, and does what can be relied on.
SoundFiring(f) ==
    LET s == f.star
    IN  /\ s \in Stars(galaxy) /\ f.time \in Nat /\ star[s] \in StarSet(galaxy.kind[s])
        /\ Callable(galaxy.kind[s], galaxy.param[s], Len(galaxy.in[s]), star[s], ReadableOf(f), f.time)
        /\ Sound(galaxy.kind[s], galaxy.param[s], Len(galaxy.in[s]), Len(galaxy.out[s]), star[s],
                 ReadableOf(f), f.time, ResultOf(f))
        /\ \A i \in 1..Len(galaxy.in[s]) : ReadableOf(f)[i].new = f.ports[galaxy.in[s][i]].new

LEMMA FiringIsSound ==
  ASSUME Typed, InTime, Clocked, queue # <<>>, NEW f, f = NextFiring
  PROVE  SoundFiring(f)
<1> DEFINE e == Head(queue)
           s == f.star
           k == galaxy.kind[s]
           pa == galaxy.param[s]
           in == galaxy.in[s]
           out == galaxy.out[s]
           st == star[s]
           port == ReadableOf(f)
           t == f.time
<1>1. Configured /\ InOrder(queue) /\ input \in PortsSet /\ fired.time \in Nat
  BY DEF Typed
<1>2. /\ e \in EventSet /\ s = Dest(e) /\ s \in Stars(galaxy) /\ t = e.level
      /\ f.ports \in PortsSet /\ f.ports[e.arc].new /\ e.arc \in ToSet(galaxy.in[f.star])
      /\ InOrder(f.queue)
  BY <1>1, NextFiringIs
<1>3. IsGalaxy(galaxy)
  BY <1>1 DEF Configured
<1>4. /\ in \in Seq(Arcs(galaxy)) /\ out \in Seq(Arcs(galaxy)) /\ IsStar(k, pa, in, out)
  BY <1>2, <1>3, Galaxy
<1>5. st \in StarSet(k) /\ t \in Nat
  BY <1>2 DEF Typed, EventSet
<1>6. e = queue[1] /\ 1 \in 1..Len(queue)
  BY <1>1, TailKeepsOrder
<1>7. t >= fired.time /\ (k = "Clock" => t <= st.completionTime)
  BY <1>2, <1>6 DEF InTime, Clocked
<1>8. k = "Delay" => st.completionTime <= t + pa
  <2>1. SUFFICES ASSUME k = "Delay" PROVE st.completionTime <= t + pa
    OBVIOUS
  <2>2. pa \in Nat
    <3> HIDE DEF k, pa, in, out
    <3> QED
      BY <2>1, <1>4, StarIs
  <2>3. st.completionTime \in Nat /\ st.completionTime <= fired.time + pa
    BY <1>2, <1>5, <2>1 DEF Clocked, StarSet
  <2> QED
    BY <1>1, <1>5, <1>7, <2>2, <2>3
<1>9. \A i \in 1..Len(in) : /\ port[i] = Readable(f.queue, s, in[i], f.ports[in[i]])
                            /\ in[i] \in Arcs(galaxy) /\ f.ports[in[i]] \in PortSet
  BY <1>2, <1>4 DEF ReadableOf, PortsSet
<1>10. DOMAIN port = 1..Len(in) /\ Len(in) \in Nat /\ port = [i \in 1..Len(in) |-> port[i]]
  BY <1>4 DEF ReadableOf
<1>11. f.queue \in Seq(EventSet)
  BY <1>2 DEF InOrder
<1>12. Phase(s) <=> k = "Statistics"
  BY DEF Phase
<1> HIDE DEF port
<1>13. \A i \in 1..Len(in) : /\ port[i] \in ReadableSet /\ port[i].new = f.ports[in[i]].new
                             /\ k # "Statistics" => port[i].vals # <<>>
  <2>1. SUFFICES ASSUME NEW i \in 1..Len(in)
                 PROVE  /\ port[i] \in ReadableSet /\ port[i].new = f.ports[in[i]].new
                        /\ k # "Statistics" => port[i].vals # <<>>
    OBVIOUS
  <2> HIDE DEF in, s, k
  <2> QED
    BY <1>9, <1>11, <1>12, ReadableIs
<1>14. port \in Seq(ReadableSet) /\ Len(port) = Len(in)
  <2> HIDE DEF in
  <2> QED
    BY <1>10, <1>13
<1>15. \E i \in 1..Len(in) : port[i].new
  <2>1. PICK i \in 1..Len(in) : in[i] = e.arc
    BY <1>2, <1>4 DEF ToSet
  <2> QED
    BY <1>2, <1>13, <2>1
<1>16. Callable(k, pa, Len(in), st, port, t)
  BY <1>5, <1>7, <1>8, <1>13, <1>14, <1>15 DEF Callable
<1>17. ResultOf(f) = Go(k, pa, Len(out), st, port, t)
  BY DEF ResultOf, port
<1> DEFINE r == ResultOf(f)
<1> HIDE DEF r, k, pa, in, out, st, t
<1>18. Sound(k, pa, Len(in), Len(out), st, port, t, r)
  BY <1>4, <1>16, <1>17, GoIsSound DEF r
<1> QED
  BY <1>2, <1>5, <1>13, <1>16, <1>18 DEF SoundFiring, r, k, pa, in, out, st, t, port

\* What is new at its i-th input lets the firing f send event y at the same time.
Causes(f, i, y) ==
    LET p == galaxy.in[f.star][i]
    IN  /\ f.ports[p].new /\ depth[p] <= y.fine
        /\ depth[p] < y.fine \/ galaxy.kind[Dest(y)] = "Clock"
        /\ galaxy.kind[f.star] = "Statistics" => i = 3

\* An event sent by the firing f.
SentEvent(f, y) ==
    /\ y \in EventSet /\ y.level >= f.time
    /\ galaxy.kind[Dest(y)] = "Clock" => /\ Dest(y) = f.star
                                         /\ y.level <= ResultOf(f).star.completionTime
    /\ y.level = f.time => \E i \in 1..Len(galaxy.in[f.star]) : Causes(f, i, y)
    /\ y.level = f.time => \E p \in ToSet(galaxy.in[f.star]) : f.ports[p].new /\ depth[p] <= y.fine

LEMMA ClockArcs ==
  ASSUME Configured, NEW p \in Arcs(galaxy), NEW c \in Stars(galaxy), galaxy.kind[c] = "Clock",
         DestOf(galaxy, p) = c \/ p = galaxy.out[c][2]
  PROVE  /\ Len(galaxy.in[c]) = 1 /\ galaxy.in[c][1] = p /\ p = galaxy.out[c][2]
         /\ Len(galaxy.out[c]) = 2 /\ SourceOf(galaxy, p) = c
<1> DEFINE in == galaxy.in[c]
           out == galaxy.out[c]
           k == galaxy.kind[c]
           pa == galaxy.param[c]
<1>1. IsGalaxy(galaxy)
  BY DEF Configured
<1>2. /\ in \in Seq(Arcs(galaxy)) /\ out \in Seq(Arcs(galaxy)) /\ IsStar(k, pa, in, out)
  BY <1>1, Galaxy
<1>3. \A i \in 1..Len(galaxy.out[c]) : SourceOf(galaxy, galaxy.out[c][i]) = c
  BY <1>1, Galaxy
<1>4. IndexOf(galaxy, p) \in 1..Len(galaxy.in[DestOf(galaxy, p)])
      /\ galaxy.in[DestOf(galaxy, p)][IndexOf(galaxy, p)] = p
  BY <1>1, Galaxy
<1>5. Len(in) = 1 /\ Len(out) = 2 /\ in[1] = out[2]
  <2>1. k = "Clock"
    OBVIOUS
  <2> HIDE DEF in, out, k, pa
  <2> QED
    BY <1>2, <2>1, StarIs
<1>6. DestOf(galaxy, p) = c => in[1] = p
  BY <1>4, <1>5
<1> HIDE DEF in, out, k, pa
<1>7. p = out[2] /\ 2 \in 1..Len(out)
  BY <1>5, <1>6 DEF out
<1> QED
  BY <1>2, <1>5, <1>7, <1>3 DEF in, out

LEMMA SentEventIs ==
  ASSUME Configured, NEW f, SoundFiring(f), f.ports \in PortsSet, NEW y, Has(SentBy(f), y)
  PROVE  SentEvent(f, y)
<1> DEFINE s == f.star
           k == galaxy.kind[s]
           in == galaxy.in[s]
           out == galaxy.out[s]
           port == ReadableOf(f)
           r == ResultOf(f)
           t == f.time
           puts == r.puts
<1>1. IsGalaxy(galaxy)
  BY DEF Configured
<1>2. /\ s \in Stars(galaxy) /\ t \in Nat
      /\ Sound(k, galaxy.param[s], Len(in), Len(out), star[s], port, t, r)
      /\ \A i \in 1..Len(in) : port[i].new = f.ports[in[i]].new
  BY DEF SoundFiring
<1>3. /\ puts \in Seq(PutSet) /\ r.star \in StarSet(k)
      /\ \A j \in 1..Len(puts) : SoundPut(k, Len(in), Len(out), star[s], port, t, r.star, puts[j])
  BY <1>2 DEF Sound
<1>4. \A j \in 1..Len(puts) : puts[j].out \in 1..Len(out) /\ puts[j] \in PutSet
  BY <1>3 DEF SoundPut
<1>5. PICK j \in 1..Len(puts) : y = Event(out[puts[j].out], puts[j].time, puts[j].val)
  <2> DEFINE events == SentBy(f)
             order == SendOrder(puts)
  <2>1. events = Events(s, puts)
    BY DEF SentBy
  <2> HIDE DEF puts, events, order
  <2>2. /\ SendingOrder(puts, order) /\ Deep(events) /\ Len(events) = Len(order)
        /\ \A i \in 1..Len(events) :
              /\ order[i] \in 1..Len(puts)
              /\ events[i] = Event(out[puts[order[i]].out], puts[order[i]].time, puts[order[i]].val)
    BY <1>2, <1>3, <1>4, <2>1, EventsAre, SMTT(30) DEF order
  <2>3. PICK i \in 1..Len(events) : events[i] = y
    BY DEF Has, events
  <2> QED
    BY <2>2, <2>3, SMTT(30)
<1> DEFINE put == puts[j]
           a == out[put.out]
<1>6. put \in PutSet /\ put.out \in 1..Len(out) /\ SoundPut(k, Len(in), Len(out), star[s], port, t, r.star, put)
  BY <1>3, <1>4, <1>5
<1> HIDE DEF put, puts
<1>7. /\ galaxy.in[s] \in Seq(Arcs(galaxy)) /\ galaxy.out[s] \in Seq(Arcs(galaxy))
      /\ \A i \in 1..Len(galaxy.out[s]) :
            galaxy.out[s][i] \in Arcs(galaxy) /\ SourceOf(galaxy, galaxy.out[s][i]) = s
  <2> HIDE DEF s
  <2> QED
    BY <1>1, <1>2, Galaxy
<1>8. /\ in \in Seq(Arcs(galaxy)) /\ out \in Seq(Arcs(galaxy))
      /\ a \in Arcs(galaxy) /\ SourceOf(galaxy, a) = s
  BY <1>6, <1>7
<1>9. depth[a] \in Int /\ depth = LongestPath(galaxy)
  BY <1>1, <1>8, Depths DEF Configured
<1>10. /\ y.level = put.time /\ y.fine = depth[a] /\ y.arc = a /\ y \in EventSet
  <2>1. y = [level |-> put.time, fine |-> depth[a], arc |-> a, val |-> put.val]
    BY <1>5 DEF Event, put
  <2> QED
    BY <1>6, <1>8, <1>9, <2>1 DEF EventSet, PutSet
<1> HIDE DEF a
<1>11. y.level >= t
  BY <1>6, <1>10 DEF SoundPut
<1>12. ASSUME galaxy.kind[Dest(y)] = "Clock"
       PROVE  Dest(y) = s /\ y.level <= r.star.completionTime
  <2>1. Dest(y) \in Stars(galaxy) /\ Dest(y) = DestOf(galaxy, a)
    BY <1>10, EventIs DEF Dest
  <2> DEFINE c == Dest(y)
  <2>2. c \in Stars(galaxy) /\ galaxy.kind[c] = "Clock" /\ DestOf(galaxy, a) = c
    BY <1>12, <2>1
  <2> HIDE DEF c
  <2>3. SourceOf(galaxy, a) = c
    BY <1>8, <2>2, ClockArcs
  <2>4. k = "Clock"
    BY <1>8, <1>12, <2>3 DEF c
  <2> QED
    BY <1>6, <1>8, <1>10, <2>3, <2>4 DEF SoundPut, Planned, c
<1>13. ASSUME y.level = t
       PROVE  \E i \in 1..Len(in) : in[i] \in ToSet(in) /\ Causes(f, i, y)
  <2>1. ~DelayType(galaxy, s)
    BY <1>2, <1>6, <1>10, <1>13 DEF SoundPut, DelayType
  <2>2. PICK i \in 1..Len(in) : port[i].new /\ put.out \in Affected(k, i, 1..Len(out))
    BY <1>6 DEF SoundPut
  <2>3. in[i] \in ToSet(in) /\ f.ports[in[i]].new
    BY <1>2, <1>8, <2>2 DEF ToSet
  <2>4. k = "Statistics" => i = 3
    <3> DEFINE n == Len(in)
    <3>1. SUFFICES ASSUME k = "Statistics" PROVE i = 3
      OBVIOUS
    <3>2. n = 3
      <4> DEFINE A == Arcs(galaxy)
                 pa == galaxy.param[s]
      <4>1. in \in Seq(A) /\ out \in Seq(A) /\ IsStar(k, pa, in, out)
        BY <1>1, <1>2, <1>8, Galaxy
      <4> HIDE DEF A, pa, in, out, k
      <4>2. Len(in) = 3
        BY <3>1, <4>1, StarIs
      <4> QED
        BY <4>2
    <3> HIDE DEF n, k
    <3>3. ~(i <= 2)
      BY <2>2, <3>1 DEF Affected, Triggered, Before
    <3> QED
      BY <2>2, <3>2, <3>3 DEF n
  <2>5. CASE a \in galaxy.tokens
    <3>1. galaxy.tokens = {galaxy.out[c][2] : c \in {u \in Stars(galaxy) : galaxy.kind[u] = "Clock"}}
      BY <1>1 DEF IsGalaxy
    <3>2. PICK c \in Stars(galaxy) : galaxy.kind[c] = "Clock" /\ a = galaxy.out[c][2]
      BY <2>5, <3>1
    <3>3. Len(galaxy.in[c]) = 1 /\ galaxy.in[c][1] = a /\ SourceOf(galaxy, a) = c
      BY <1>8, <2>5, <3>2, ClockArcs
    <3>4. c = s
      BY <1>8, <3>3
    <3>5. in[i] = a
      BY <3>3, <3>4
    <3>6. galaxy.kind[Dest(y)] = "Clock"
      <4>1. 1 \in 1..Len(galaxy.in[c])
        BY <3>3
      <4>2. DestOf(galaxy, galaxy.in[c][1]) = c
        BY <1>1, <3>2, <4>1, Galaxy
      <4> QED
        BY <1>10, <3>2, <3>3, <4>2 DEF Dest
    <3>7. Causes(f, i, y)
      <4>1. depth[in[i]] <= y.fine
        BY <1>9, <1>10, <3>5
      <4> QED
        BY <2>3, <2>4, <3>6, <4>1 DEF Causes
    <3> QED
      BY <2>3, <3>7
  <2>6. CASE a \notin galaxy.tokens
    <3> DEFINE o == put.out
               d == depth
    <3>1. d = LongestPath(galaxy) /\ o \in 1..Len(galaxy.out[s]) /\ galaxy.out[s][o] \notin galaxy.tokens
      BY <1>6, <1>9, <2>6 DEF a
    <3>2. i \in 1..Len(galaxy.in[s]) /\ o \in Affected(galaxy.kind[s], i, 1..Len(galaxy.out[s]))
      BY <2>2
    <3> HIDE DEF o, d
    <3>3. d[galaxy.in[s][i]] < d[galaxy.out[s][o]]
      BY <1>1, <1>2, <2>1, <3>1, <3>2, AffectedIsDeeper
    <3>4. depth[in[i]] < depth[a]
      BY <3>3 DEF d, o, a
    <3>5. depth[in[i]] \in Int
      <4> DEFINE b == in[i]
      <4>1. b \in Arcs(galaxy)
        BY <1>8
      <4> HIDE DEF b
      <4>2. depth[b] \in Int
        BY <1>1, <1>9, <4>1, Depths
      <4> QED
        BY <4>2 DEF b
    <3>6. depth[in[i]] <= y.fine /\ depth[in[i]] < y.fine
      BY <1>9, <1>10, <3>4, <3>5
    <3>7. Causes(f, i, y)
      BY <2>3, <2>4, <3>6 DEF Causes
    <3> QED
      BY <2>3, <3>7
  <2> QED
    BY <2>5, <2>6
<1>14. ASSUME y.level = t
       PROVE  \E p \in ToSet(in) : f.ports[p].new /\ depth[p] <= y.fine
  BY <1>13, <1>14 DEF Causes
<1> QED
  BY <1>10, <1>11, <1>12, <1>13, <1>14 DEF SentEvent

\* The configuration never changes, and so do the order and the sets built on it.
LEMMA ConfigIsKept ==
  ASSUME config' = config
  PROVE  /\ galaxy' = galaxy /\ scheduler' = scheduler /\ use' = use /\ address' = address
         /\ depth' = depth /\ (Configured => Configured') /\ EventSet' = EventSet /\ PortsSet' = PortsSet
         /\ (InOrder(queue') => InOrder(queue)')
<1>1. galaxy' = galaxy /\ scheduler' = scheduler /\ use' = use /\ address' = address /\ depth' = depth
  BY DEF config
<1>2. Configured => Configured'
  BY <1>1 DEF Configured
<1>3. EventSet' = EventSet /\ PortsSet' = PortsSet
  BY <1>1 DEF EventSet, PortsSet
<1>4. InOrder(queue') => InOrder(queue)'
  BY <1>1, <1>3 DEF InOrder, Earlier, Dest
<1> QED
  BY <1>1, <1>2, <1>3, <1>4

\* What is sent is recorded with its time and value.
LEMMA RecordedIs ==
  ASSUME NEW q \in Seq(EventSet), NEW p
  PROVE  /\ OnArc(q, p) \in Seq(EventSet) /\ Recorded(OnArc(q, p)) \in Seq(SentSet)
         /\ Len(Recorded(OnArc(q, p))) = Len(OnArc(q, p))
         /\ \A i \in 1..Len(OnArc(q, p)) :
               Recorded(OnArc(q, p))[i] = [time |-> OnArc(q, p)[i].level, val |-> OnArc(q, p)[i].val]
<1> DEFINE S == {i \in DOMAIN q : q[i].arc = p}
           w == Kept(q, S)
<1>1. PICK o : KeptAlong(EventSet, q, S, o)
  BY KeptIs
<1>2. w \in Seq(EventSet)
  BY <1>1 DEF KeptAlong
<1>3. OnArc(q, p) = w
  BY DEF OnArc
<1> HIDE DEF w
<1>4. Recorded(w) = [i \in 1..Len(w) |-> [time |-> w[i].level, val |-> w[i].val]]
  BY <1>2 DEF Recorded
<1>5. \A i \in 1..Len(w) : [time |-> w[i].level, val |-> w[i].val] \in SentSet
  <2>1. \A i \in 1..Len(w) : w[i] \in EventSet
    BY <1>2
  <2>2. \A e \in EventSet : e.level \in Nat /\ e.val \in Int
    BY DEF EventSet
  <2> QED
    BY <2>1, <2>2 DEF SentSet
<1> QED
  BY <1>2, <1>3, <1>4, <1>5

\* Send changes the queue as SendIs says, and appends to what was sent.
LEMMA SentIs ==
  ASSUME sent \in [Arcs(galaxy) -> Seq(SentSet)], NEW q, NEW events \in Seq(EventSet), Send(events, q)
  PROVE  /\ sent' \in [Arcs(galaxy) -> Seq(SentSet)]
         /\ \A p \in Arcs(galaxy) : sent'[p] = sent[p] \o Recorded(OnArc(events, p))
<1>1. sent' = [p \in Arcs(galaxy) |-> sent[p] \o Recorded(OnArc(events, p))]
  BY DEF Send
<1>2. \A p \in Arcs(galaxy) : sent[p] \o Recorded(OnArc(events, p)) \in Seq(SentSet)
  <2>1. SUFFICES ASSUME NEW p \in Arcs(galaxy) PROVE sent[p] \o Recorded(OnArc(events, p)) \in Seq(SentSet)
    OBVIOUS
  <2> DEFINE w == Recorded(OnArc(events, p))
  <2>2. w \in Seq(SentSet) /\ sent[p] \in Seq(SentSet)
    BY RecordedIs
  <2> HIDE DEF w
  <2> QED
    BY <2>2 DEF w
<1> QED
  BY <1>1, <1>2

\* The inputs after a firing.
LEMMA InputAfterIs ==
  ASSUME Configured, NEW f, SoundFiring(f), f.ports \in PortsSet, f.queue \in Seq(EventSet)
  PROVE  /\ InputAfter(f) \in PortsSet
         /\ \A i \in 1..Len(galaxy.in[f.star]) :
               /\ i \in ResultOf(f).drained \cup ResultOf(f).cleared
                  => ~InputAfter(f)[galaxy.in[f.star][i]].new
               /\ i \in ResultOf(f).drained /\ ~Phase(f.star)
                  => InputAfter(f)[galaxy.in[f.star][i]].val = Last(ReadableOf(f)[i].vals)
               /\ i \notin ResultOf(f).drained
                  => InputAfter(f)[galaxy.in[f.star][i]].val = f.ports[galaxy.in[f.star][i]].val
               /\ i \notin ResultOf(f).drained \cup ResultOf(f).cleared
                  => InputAfter(f)[galaxy.in[f.star][i]].new = f.ports[galaxy.in[f.star][i]].new
         /\ \A p \in Arcs(galaxy) : DestOf(galaxy, p) # f.star => InputAfter(f)[p] = f.ports[p]
<1> DEFINE s == f.star
           in == galaxy.in[s]
           k == galaxy.kind[s]
           port == ReadableOf(f)
           r == ResultOf(f)
           readable == [p \in ToSet(in) |-> port[IndexOf(galaxy, p)]]
           ports == f.ports
           D == DrainedBy(f)
           C == ClearedBy(f)
           A == Arcs(galaxy)
           g(p) == IF p \in D
                   THEN [new |-> FALSE, que |-> <<>>, more |-> Min({1, ports[p].more}),
                         val |-> IF Phase(s) THEN ports[p].val ELSE Last(readable[p].vals)]
                   ELSE IF p \in C THEN [ports[p] EXCEPT !.new = FALSE] ELSE ports[p]
<1>1. IsGalaxy(galaxy)
  BY DEF Configured
<1>2. /\ s \in Stars(galaxy) /\ r.drained \subseteq 1..Len(in) /\ r.cleared \subseteq 1..Len(in)
      /\ port \in Seq(ReadableSet) /\ Len(port) = Len(in)
      /\ k # "Statistics" => \A i \in 1..Len(in) : port[i].vals # <<>>
  BY DEF SoundFiring, Sound, Callable
<1>3. /\ \A i \in 1..Len(galaxy.in[s]) : /\ galaxy.in[s][i] \in Arcs(galaxy)
                              /\ DestOf(galaxy, galaxy.in[s][i]) = s /\ IndexOf(galaxy, galaxy.in[s][i]) = i
      /\ galaxy.in[s] \in Seq(Arcs(galaxy))
  <2> HIDE DEF s
  <2> QED
    BY <1>1, <1>2, Galaxy
<1>4. D = {in[i] : i \in r.drained} /\ C = {in[i] : i \in r.cleared}
  BY DEF DrainedBy, ClearedBy
<1>5. ports \in [A -> PortSet] /\ DOMAIN ports = A
  BY DEF PortsSet
<1>6. Phase(s) <=> k = "Statistics"
  BY DEF Phase
<1>7. InputAfter(f) = [p \in A |-> g(p)]
  BY <1>5 DEF InputAfter, Read
<1> HIDE DEF k, port, r, ports, D, C, A
<1>8. \A i \in 1..Len(in) : /\ readable[in[i]] = port[i] /\ port[i].vals \in Seq(Int)
                            /\ in[i] \in D <=> i \in r.drained
                            /\ in[i] \in C <=> i \in r.cleared
                            /\ in[i] \in A
  <2>1. SUFFICES ASSUME NEW i \in 1..Len(in)
                 PROVE  /\ readable[in[i]] = port[i] /\ port[i].vals \in Seq(Int)
                        /\ in[i] \in D <=> i \in r.drained
                        /\ in[i] \in C <=> i \in r.cleared
                        /\ in[i] \in A
    OBVIOUS
  <2>2. in[i] \in ToSet(in) /\ IndexOf(galaxy, in[i]) = i /\ in[i] \in A
    BY <1>3 DEF ToSet, A
  <2>3. port[i] \in ReadableSet
    BY <1>2
  <2>4. in[i] \in D <=> i \in r.drained
    BY <1>2, <1>3, <1>4
  <2>5. in[i] \in C <=> i \in r.cleared
    BY <1>2, <1>3, <1>4
  <2> QED
    BY <2>2, <2>3, <2>4, <2>5 DEF ReadableSet
<1>9. \A p \in D \cup C : DestOf(galaxy, p) = s /\ \E i \in 1..Len(in) : p = in[i]
  BY <1>2, <1>3, <1>4
<1> HIDE DEF readable
<1>10. \A p \in A : g(p) \in PortSet
  <2>1. SUFFICES ASSUME NEW p \in A PROVE g(p) \in PortSet
    OBVIOUS
  <2>2. /\ ports[p] \in PortSet /\ ports[p].more \in Nat /\ ports[p].val \in Int
        /\ ports[p] = [new |-> ports[p].new, val |-> ports[p].val, more |-> ports[p].more, que |-> ports[p].que]
    BY <1>5 DEF PortSet
  <2>3. CASE p \in D
    <3>1. PICK i \in 1..Len(in) : p = in[i]
      BY <1>9, <2>3
    <3>2. readable[p].vals \in Seq(Int) /\ (~Phase(s) => readable[p].vals # <<>>)
      BY <1>2, <1>6, <1>8, <3>1
    <3> DEFINE vals == readable[p].vals
               more == Min({1, ports[p].more})
               val == IF Phase(s) THEN ports[p].val ELSE Last(vals)
    <3>3. more \in Nat
      <4> DEFINE n == ports[p].more
      <4>1. n \in Nat
        BY <2>2
      <4> HIDE DEF n
      <4>2. IsFiniteSet({1}) /\ IsFiniteSet({1} \cup {n})
        BY FS_Singleton, FS_AddElement
      <4>3. {1} \cup {n} = {1, n}
        OBVIOUS
      <4>4. Min({1} \cup {n}) \in {1} \cup {n}
        <5> DEFINE E == {1} \cup {n}
        <5>1. E \subseteq Int /\ E # {}
          BY <4>1
        <5>2. IsFiniteSet(E)
          BY <4>2
        <5> HIDE DEF E
        <5>3. Min(E) \in E
          BY <5>1, <5>2, FiniteMinimum
        <5> QED
          BY <5>3 DEF E
      <4>5. Min({1} \cup {n}) \in Nat
        <5> DEFINE m == Min({1} \cup {n})
        <5>1. m \in {1} \cup {n}
          BY <4>4
        <5> HIDE DEF m
        <5>2. m \in Nat
          BY <4>1, <5>1
        <5> QED
          BY <5>2 DEF m
      <4>6. Min({1, n}) \in Nat
        BY <4>3, <4>5, Zenon
      <4> QED
        BY <4>6 DEF n
    <3>4. val \in Int
      <4>1. ~Phase(s) => Last(vals) \in Int
        <5> HIDE DEF vals
        <5>1. vals \in Seq(Int) /\ (~Phase(s) => vals # <<>>)
          BY <3>2 DEF vals
        <5> QED
          BY <5>1 DEF Last
      <4> QED
        BY <2>2, <4>1
    <3>5. g(p) = [new |-> FALSE, que |-> <<>>, more |-> more, val |-> val]
      BY <2>3
    <3> HIDE DEF more, val, g
    <3>6. <<>> \in Seq(Int) /\ FALSE \in BOOLEAN
      OBVIOUS
    <3>7. [new |-> FALSE, que |-> <<>>, more |-> more, val |-> val] \in PortSet
      BY <3>3, <3>4, <3>6 DEF PortSet
    <3> QED
      BY <3>5, <3>7
  <2>4. CASE p \notin D /\ p \in C
    <3>1. g(p) = [ports[p] EXCEPT !.new = FALSE]
      BY <2>4
    <3> QED
      BY <2>2, <3>1 DEF PortSet
  <2>5. CASE p \notin D /\ p \notin C
    BY <2>2, <2>5
  <2> QED
    BY <2>3, <2>4, <2>5
<1>11. InputAfter(f) \in PortsSet
  BY <1>7, <1>10 DEF PortsSet, A
<1>12. \A p \in A : DestOf(galaxy, p) # s => InputAfter(f)[p] = ports[p]
  BY <1>7, <1>9
<1>13. \A i \in 1..Len(in) :
          /\ i \in r.drained \cup r.cleared => ~InputAfter(f)[in[i]].new
          /\ i \in r.drained /\ ~Phase(s) => InputAfter(f)[in[i]].val = Last(port[i].vals)
          /\ i \notin r.drained => InputAfter(f)[in[i]].val = ports[in[i]].val
          /\ i \notin r.drained \cup r.cleared => InputAfter(f)[in[i]].new = ports[in[i]].new
  <2>1. SUFFICES ASSUME NEW i \in 1..Len(in)
                 PROVE  /\ i \in r.drained \cup r.cleared => ~InputAfter(f)[in[i]].new
                        /\ i \in r.drained /\ ~Phase(s) => InputAfter(f)[in[i]].val = Last(port[i].vals)
                        /\ i \notin r.drained => InputAfter(f)[in[i]].val = ports[in[i]].val
                        /\ i \notin r.drained \cup r.cleared => InputAfter(f)[in[i]].new = ports[in[i]].new
    OBVIOUS
  <2> DEFINE p == in[i]
  <2>2. /\ readable[p] = port[i] /\ (p \in D <=> i \in r.drained) /\ (p \in C <=> i \in r.cleared) /\ p \in A
    BY <1>8, SMTT(30)
  <2>3. InputAfter(f)[p] = g(p) /\ ports[p] \in PortSet
    BY <1>5, <1>7, <2>2
  <2> HIDE DEF p
  <2>4. CASE p \in D
    <3> DEFINE more == Min({1, ports[p].more})
               val == IF Phase(s) THEN ports[p].val ELSE Last(readable[p].vals)
    <3>1. g(p) = [new |-> FALSE, que |-> <<>>, more |-> more, val |-> val]
      BY <2>4
    <3> HIDE DEF g, more
    <3>2. InputAfter(f)[p].new = FALSE /\ InputAfter(f)[p].val = val
      BY <2>3, <3>1
    <3> QED
      BY <2>2, <2>4, <3>2 DEF p
  <2>5. CASE p \notin D /\ p \in C
    <3>1. g(p) = [ports[p] EXCEPT !.new = FALSE]
      BY <2>5
    <3> HIDE DEF g
    <3>2. InputAfter(f)[p].new = FALSE /\ InputAfter(f)[p].val = ports[p].val
      BY <2>3, <3>1 DEF PortSet
    <3> QED
      BY <2>2, <2>5, <3>2 DEF p
  <2>6. CASE p \notin D /\ p \notin C
    <3>1. g(p) = ports[p]
      BY <2>6
    <3> QED
      BY <2>2, <2>3, <2>6, <3>1 DEF p
  <2> QED
    BY <2>4, <2>5, <2>6
<1> QED
  BY <1>11, <1>12, <1>13 DEF s, in, k, port, r, ports, A

\* The events of q are those of the queue that do not leave before its head, and
\* others that are Q.
Behind(y) == LET e == Head(queue)
             IN  Has(queue, y) /\ y \in EventSet /\ e.level <= y.level
                 /\ (e.level = y.level => e.fine <= y.fine)

LEMMA QueueIs ==
  ASSUME Typed, NEW e, e = Head(queue), queue # <<>>
  PROVE  /\ e \in EventSet /\ Has(queue, e) /\ e = queue[1] /\ 1 \in 1..Len(queue)
         /\ e.fine = depth[e.arc] /\ \A y : Has(queue, y) => Behind(y)
<1>1. Configured /\ InOrder(queue)
  BY DEF Typed
<1>2. /\ InOrder(Tail(queue)) /\ e = queue[1] /\ e \in EventSet /\ 1 \in 1..Len(queue)
      /\ \A i \in 1..Len(queue) : ~Earlier(queue[i], e)
  BY <1>1, TailKeepsOrder
<1>3. queue \in Seq(EventSet) /\ queue[1].fine = depth[queue[1].arc]
  BY <1>1, <1>2 DEF InOrder
<1>4. \A y : Has(queue, y) => y \in EventSet /\ ~Earlier(y, e)
  BY <1>2, <1>3 DEF Has
<1>5. \A y : Has(queue, y) => Behind(y)
  <2>1. SUFFICES ASSUME NEW y, Has(queue, y) PROVE Behind(y)
    OBVIOUS
  <2>2. y \in EventSet /\ ~Earlier(y, e)
    BY <1>4, <2>1
  <2>3. e.level <= y.level /\ (e.level = y.level => e.fine <= y.fine)
    BY <1>1, <1>2, <2>2, EarlierIs
  <2> QED
    BY <2>1, <2>2, <2>3 DEF Behind
<1>6. Has(queue, e)
  BY <1>2 DEF Has
<1> QED
  BY <1>2, <1>3, <1>5, <1>6

\* The next state of the queue, the inputs and what was sent.
Advanced(f, e) ==
    /\ SoundFiring(f) /\ f.ports \in PortsSet /\ f.queue \in Seq(EventSet)
    /\ f.time = e.level /\ f.star = Dest(e)
    /\ e.arc \in ToSet(galaxy.in[f.star]) /\ f.ports[e.arc].new
    /\ InOrder(queue') /\ (\A y : Has(queue', y) => Behind(y) \/ SentEvent(f, y))
    /\ input' \in PortsSet /\ sent' \in [Arcs(galaxy) -> Seq(SentSet)]

LEMMA FiredQueue ==
  ASSUME Typed, InTime, Clocked, NEW f, Fired(f), NEW e, e = Head(queue)
  PROVE  Advanced(f, e)
<1>1. f = NextFiring /\ queue # <<>> /\ Configured /\ InOrder(queue) /\ input \in PortsSet
  BY DEF Fired, FiringDue, Typed
<1>2. SoundFiring(f)
  BY <1>1, FiringIsSound
<1>3. /\ f.star = Dest(e) /\ f.time = e.level /\ f.ports \in PortsSet /\ f.ports[e.arc].new
      /\ e.arc \in ToSet(galaxy.in[f.star]) /\ InOrder(f.queue) /\ \A y : Has(f.queue, y) => Has(queue, y)
  BY <1>1, NextFiringIs
<1>4. f.queue \in Seq(EventSet)
  BY <1>3 DEF InOrder
<1>5. input' \in PortsSet
  <2>1. InputAfter(f) \in PortsSet
    BY <1>1, <1>2, <1>3, <1>4, InputAfterIs
  <2> QED
    BY <2>1 DEF Fired
<1> DEFINE w == Remaining(f)
           events == SentBy(f)
<1>6. InOrder(w) /\ \A y : Has(w, y) => Has(f.queue, y)
  BY <1>3, KeptKeepsOrder DEF Remaining
<1>7. Deep(events)
  <2> DEFINE s == f.star
             puts == ResultOf(f).puts
             order == SendOrder(puts)
             in == galaxy.in[s]
             out == galaxy.out[s]
             kind == galaxy.kind[s]
  <2>1. /\ s \in Stars(galaxy)
        /\ Sound(kind, galaxy.param[s], Len(in), Len(out), star[s], ReadableOf(f), f.time, ResultOf(f))
    BY <1>2 DEF SoundFiring
  <2> HIDE DEF in, out, kind
  <2>2. puts \in Seq(PutSet) /\ \A j \in 1..Len(puts) : puts[j].out \in 1..Len(out)
    BY <2>1 DEF Sound, SoundPut
  <2>3. events = Events(s, puts)
    BY DEF SentBy
  <2> HIDE DEF s, puts, order, events
  <2>4. \A j \in 1..Len(puts) : puts[j].out \in 1..Len(galaxy.out[s])
    BY <2>2 DEF out
  <2> QED
    BY <1>1, <2>1, <2>2, <2>3, <2>4, EventsAre DEF order
<1>8. Send(events, w)
  BY DEF Fired
<1> HIDE DEF w, events
<1>9. InOrder(queue') /\ \A y : Has(queue', y) <=> Has(w, y) \/ Has(events, y)
  BY <1>1, <1>6, <1>7, <1>8, SendKeepsOrder
<1>10. \A y : Has(w, y) => Behind(y)
  BY <1>1, <1>3, <1>6, QueueIs
<1>11. \A y : Has(events, y) => SentEvent(f, y)
  BY <1>1, <1>2, <1>3, SentEventIs DEF events
<1>12. sent' \in [Arcs(galaxy) -> Seq(SentSet)]
  <2>1. events \in Seq(EventSet) /\ sent \in [Arcs(galaxy) -> Seq(SentSet)]
    BY <1>7 DEF Deep, Typed
  <2> QED
    BY <1>8, <2>1, SentIs
<1> QED
  BY <1>2, <1>3, <1>4, <1>5, <1>9, <1>10, <1>11, <1>12 DEF Advanced

\* The first events of the clocks are at time 0.
Begun ==
    /\ InOrder(queue') /\ \A y : Has(queue', y) => y \in EventSet /\ y.level = 0
    /\ sent' \in [Arcs(galaxy) -> Seq(SentSet)]

\* The events that the clocks put in Begin.
ClocksOf == Ascending({s \in Stars(galaxy) : galaxy.kind[s] = "Clock"}, Len(galaxy.kind))
FirstPuts == [i \in DOMAIN ClocksOf |-> Event(galaxy.out[ClocksOf[i]][2], 0, 0)]

LEMMA FirstPutsAre ==
  ASSUME Configured
  PROVE  /\ Deep(FirstPuts) /\ Len(FirstPuts) = Len(ClocksOf)
         /\ Enumerates(ClocksOf, {s \in Stars(galaxy) : galaxy.kind[s] = "Clock"})
         /\ \A i \in 1..Len(FirstPuts) :
               /\ ClocksOf[i] \in Stars(galaxy) /\ galaxy.kind[ClocksOf[i]] = "Clock"
               /\ FirstPuts[i].level = 0 /\ FirstPuts[i].val = 0
               /\ FirstPuts[i].arc = galaxy.out[ClocksOf[i]][2]
<1> DEFINE T == {s \in Stars(galaxy) : galaxy.kind[s] = "Clock"}
           n == Len(galaxy.kind)
           o == ClocksOf
<1>1. IsGalaxy(galaxy)
  BY DEF Configured
<1>2. Stars(galaxy) = 1..n /\ n \in Nat
  BY <1>1, Galaxy
<1>3. T \cap (1..n) = T
  BY <1>2
<1>4. o = Ascending(T, n)
  BY DEF ClocksOf
<1> HIDE DEF T, n, o
<1>5. Enumerates(o, T)
  BY <1>2, <1>3, <1>4, AscendingEnumerates
<1>6. o \in Seq(Nat) /\ \A i \in 1..Len(o) : o[i] \in T
  BY <1>5 DEF Enumerates
<1>7. depth = LongestPath(galaxy) /\ depth \in [Arcs(galaxy) -> Int]
  BY <1>1, Depths DEF Configured
<1> DEFINE a(i) == galaxy.out[o[i]][2]
<1>8. \A i \in 1..Len(o) : o[i] \in Stars(galaxy) /\ galaxy.kind[o[i]] = "Clock" /\ a(i) \in Arcs(galaxy)
  <2>1. SUFFICES ASSUME NEW i \in 1..Len(o)
                 PROVE  o[i] \in Stars(galaxy) /\ galaxy.kind[o[i]] = "Clock" /\ a(i) \in Arcs(galaxy)
    OBVIOUS
  <2> DEFINE c == o[i]
             in == galaxy.in[c]
             out == galaxy.out[c]
             k == galaxy.kind[c]
             pa == galaxy.param[c]
  <2>2. c \in Stars(galaxy) /\ k = "Clock"
    BY <1>6 DEF T
  <2> HIDE DEF c
  <2>3. in \in Seq(Arcs(galaxy)) /\ out \in Seq(Arcs(galaxy)) /\ IsStar(k, pa, in, out)
    BY <1>1, <2>2, Galaxy
  <2> HIDE DEF in, out, k, pa
  <2>4. Len(out) = 2
    BY <2>2, <2>3, StarIs
  <2>5. out[2] \in Arcs(galaxy)
    BY <2>3, <2>4
  <2> QED
    BY <2>2, <2>5 DEF out, k, c
<1> DEFINE g == [i \in 1..Len(o) |-> Event(a(i), 0, 0)]
<1>9. FirstPuts = g
  BY <1>6 DEF FirstPuts, o
<1>10. \A i \in 1..Len(o) : /\ Event(a(i), 0, 0) \in EventSet
                            /\ Event(a(i), 0, 0).fine = depth[a(i)] /\ Event(a(i), 0, 0).arc = a(i)
                            /\ Event(a(i), 0, 0).level = 0 /\ Event(a(i), 0, 0).val = 0
  <2>1. \A p \in Arcs(galaxy) : /\ Event(p, 0, 0) \in EventSet /\ Event(p, 0, 0).fine = depth[p]
                                /\ Event(p, 0, 0).arc = p /\ Event(p, 0, 0).level = 0
                                /\ Event(p, 0, 0).val = 0
    BY <1>7 DEF Event, EventSet
  <2> HIDE DEF a
  <2> QED
    BY <1>8, <2>1
<1> HIDE DEF a
<1>11. g \in Seq(EventSet) /\ Len(g) = Len(o) /\ \A i \in 1..Len(o) : g[i] = Event(a(i), 0, 0)
  BY <1>6, <1>10
<1> HIDE DEF g
<1>12. Deep(g)
  BY <1>10, <1>11 DEF Deep
<1>13. \A i \in 1..Len(g) : g[i].level = 0 /\ g[i].val = 0 /\ g[i].arc = a(i)
  BY <1>10, <1>11
<1> QED
  BY <1>5, <1>8, <1>9, <1>11, <1>12, <1>13 DEF o, a, T

LEMMA BeginIs ==
  ASSUME Typed, NotStarted, Begin
  PROVE  /\ Begun /\ pc = "setup" /\ pc' = "ready" /\ queue = <<>> /\ Send(FirstPuts, <<>>)
         /\ UNCHANGED <<config, input, star, currentTime, stopTime, halts, fired>>
<1>1. /\ pc = "setup" /\ pc' = "ready" /\ Send(FirstPuts, <<>>)
      /\ UNCHANGED <<config, input, star, currentTime, stopTime, halts, fired>>
  BY DEF Begin, FirstPuts, ClocksOf
<1>2. queue = <<>> /\ Configured /\ InOrder(queue) /\ sent \in [Arcs(galaxy) -> Seq(SentSet)]
  BY <1>1 DEF NotStarted, Typed
<1>3. /\ Deep(FirstPuts) /\ \A i \in 1..Len(FirstPuts) : FirstPuts[i].level = 0
  BY <1>2, FirstPutsAre
<1> DEFINE q == queue
           events == FirstPuts
<1>4. Send(events, q)
  BY <1>1, <1>2
<1>5. events \in Seq(EventSet)
  BY <1>3 DEF Deep
<1> HIDE DEF q, events
<1>6. InOrder(queue') /\ \A y : Has(queue', y) <=> Has(q, y) \/ Has(events, y)
  BY <1>2, <1>3, <1>4, SendKeepsOrder DEF q, events
<1>7. sent' \in [Arcs(galaxy) -> Seq(SentSet)]
  BY <1>2, <1>4, <1>5, SentIs
<1>8. \A y : Has(queue', y) => y \in EventSet /\ y.level = 0
  <2>1. \A y : ~Has(q, y)
    BY <1>2 DEF q, Has
  <2>2. \A y : Has(events, y) => y \in EventSet /\ y.level = 0
    BY <1>3, <1>5 DEF Has, events
  <2> QED
    BY <1>6, <2>1, <2>2
<1> QED
  BY <1>1, <1>2, <1>6, <1>7, <1>8 DEF Begun

\* A halt before a firing only takes events.
LEMMA HaltIs ==
  ASSUME Typed, HaltBeforeGo, NEW e, e = Head(queue)
  PROVE  /\ queue # <<>> /\ currentTime' = e.level /\ input' \in PortsSet
         /\ InOrder(queue') /\ \A y : Has(queue', y) => Behind(y)
         /\ pc = "running" /\ pc' = "ready" /\ halts' = halts + 1 /\ halts < use.maxHalts
         /\ UNCHANGED <<config, star, stopTime, sent, fired>>
<1> DEFINE f == NextFiring
<1>1. /\ queue # <<>> /\ currentTime' = f.time /\ input' = f.ports /\ queue' = f.queue
      /\ pc = "running" /\ pc' = "ready" /\ halts' = halts + 1 /\ halts < use.maxHalts
      /\ UNCHANGED <<config, star, stopTime, sent, fired>>
  BY DEF HaltBeforeGo, FiringDue
<1> HIDE DEF f
<1>2. /\ f.time = e.level /\ f.ports \in PortsSet /\ InOrder(f.queue) /\ \A y : Has(f.queue, y) => Has(queue, y)
  BY <1>1, NextFiringIs DEF f, Typed
<1>3. \A y : Has(queue, y) => Behind(y)
  BY <1>1, QueueIs
<1> QED
  BY <1>1, <1>2, <1>3

Timely == Typed /\ InTime /\ Clocked /\ NotStarted /\ CausesFirst

\* The configuration typed, and the order of the queue, after a step.
LEMMA TypedAfter ==
  ASSUME Typed, config' = config, InOrder(queue'), input' \in PortsSet,
         DOMAIN star' = Stars(galaxy), \A s \in Stars(galaxy) : star'[s] \in StarSet(galaxy.kind[s]),
         sent' \in [Arcs(galaxy) -> Seq(SentSet)], currentTime' \in Nat, stopTime' \in Nat,
         halts' \in 0..use.maxHalts, pc' \in {"setup", "ready", "running", "dead", "error"},
         fired'.time \in Nat, fired'.ports \subseteq Arcs(galaxy)
  PROVE  Typed'
<1>1. /\ galaxy' = galaxy /\ use' = use /\ Configured' /\ PortsSet' = PortsSet /\ InOrder(queue)'
  BY ConfigIsKept DEF Typed
<1> QED
  BY <1>1 DEF Typed

LEMMA BeginKeepsTimely ==
  ASSUME Timely, Begin
  PROVE  Timely'
<1>1. Typed /\ NotStarted /\ Clocked
  BY DEF Timely
<1>2. /\ Begun /\ pc = "setup" /\ pc' = "ready"
      /\ UNCHANGED <<config, input, star, currentTime, stopTime, halts, fired>>
  BY <1>1, BeginIs
<1>3. fired.time = 0 /\ fired.ports = {} /\ currentTime = 0
  BY <1>1, <1>2 DEF NotStarted
<1>4. InOrder(queue') /\ \A y : Has(queue', y) => y \in EventSet /\ y.level = 0
  BY <1>2 DEF Begun
<1>5. Typed'
  BY <1>1, <1>2, <1>4, TypedAfter DEF Typed, Begun
<1>6. \A i \in 1..Len(queue') : queue'[i] \in EventSet /\ queue'[i].level = 0
  BY <1>4 DEF Has
<1>7. InTime' /\ CausesFirst'
  BY <1>2, <1>3, <1>6 DEF InTime, CausesFirst, Deeper
<1>8. Clocked'
  <2>1. config' = config
    BY <1>2
  <2>2. galaxy' = galaxy /\ Configured
    BY <1>1, <2>1, ConfigIsKept DEF Typed
  <2>3. \A i \in 1..Len(queue') : Dest(queue'[i]) \in Stars(galaxy)
    BY <1>6, <2>2, EventIs
  <2>4. \A s \in Stars(galaxy) : star[s].completionTime \in Nat
    BY <1>1 DEF Typed, StarSet
  <2>5. \A i \in 1..Len(queue') : queue'[i].level <= star[Dest(queue'[i])].completionTime
    BY <1>6, <2>3, <2>4
  <2> QED
    BY <1>1, <1>2, <2>2, <2>5 DEF Clocked, Dest
<1>9. NotStarted'
  BY <1>2 DEF NotStarted
<1> QED
  BY <1>5, <1>7, <1>8, <1>9 DEF Timely

LEMMA FireKeepsTimely ==
  ASSUME Timely, Fire
  PROVE  Timely'
<1> DEFINE f == NextFiring
           e == Head(queue)
           s == f.star
           in == galaxy.in[s]
           r == ResultOf(f)
           k == galaxy.kind[s]
<1>1. Typed /\ InTime /\ Clocked
  BY DEF Timely
<1>2. Fired(f)
  BY FireIs
<1> HIDE DEF f
<1>3. /\ f = NextFiring /\ FiringDue /\ currentTime' = f.time
      /\ fired' = [star |-> s, time |-> f.time, ports |-> {p \in ToSet(in) : f.ports[p].new}]
      /\ star' = [star EXCEPT ![s] = r.star]
      /\ config' = config /\ stopTime' = stopTime
  BY <1>2 DEF Fired
<1>4. /\ pc = "running" /\ queue # <<>>
      /\ (pc' = "error" \/ pc' = pc \/ pc' = "ready")
      /\ (halts' = halts \/ (halts < use.maxHalts /\ halts' = halts + 1))
  <2>1. pc = "running" /\ queue # <<>>
    BY <1>3 DEF FiringDue
  <2>2. IF ~r.ok THEN pc' = "error" /\ halts' = halts
        ELSE \/ pc' = pc /\ halts' = halts
             \/ halts < use.maxHalts /\ pc' = "ready" /\ halts' = halts + 1
    BY <1>2 DEF Fired
  <2> HIDE DEF r
  <2> QED
    BY <2>1, <2>2
<1>5. Advanced(f, e)
  BY <1>1, <1>2, FiredQueue
<1>6. /\ SoundFiring(f) /\ f.ports \in PortsSet /\ f.time = e.level /\ s = Dest(e)
      /\ e.arc \in ToSet(in) /\ f.ports[e.arc].new
      /\ InOrder(queue') /\ (\A y : Has(queue', y) => Behind(y) \/ SentEvent(f, y))
      /\ input' \in PortsSet /\ sent' \in [Arcs(galaxy) -> Seq(SentSet)]
  BY <1>5 DEF Advanced
<1>7. /\ e \in EventSet /\ Has(queue, e) /\ e = queue[1] /\ 1 \in 1..Len(queue) /\ e.fine = depth[e.arc]
  BY <1>1, <1>4, QueueIs
<1>8. /\ s \in Stars(galaxy) /\ f.time \in Nat /\ star[s] \in StarSet(k)
      /\ Sound(k, galaxy.param[s], Len(in), Len(galaxy.out[s]), star[s], ReadableOf(f), f.time, r)
  BY <1>6 DEF SoundFiring
<1>9. /\ r.star \in StarSet(k) /\ (k = "Delay" => r.star.completionTime <= f.time + galaxy.param[s])
      /\ (k \in Planned => star[s].completionTime <= r.star.completionTime)
  <2> HIDE DEF k, in, s, r
  <2> QED
    BY <1>8 DEF Sound
<1>10. /\ Configured /\ use.maxHalts \in Nat /\ IsGalaxy(galaxy) /\ galaxy' = galaxy /\ use' = use /\ depth' = depth
       /\ DOMAIN star = Stars(galaxy) /\ (\A u \in Stars(galaxy) : star[u] \in StarSet(galaxy.kind[u]))
       /\ fired.time \in Nat /\ stopTime \in Nat /\ halts \in 0..use.maxHalts
  BY <1>1, <1>3, ConfigIsKept DEF Typed, Configured
<1>11. /\ DOMAIN star' = Stars(galaxy) /\ star'[s] = r.star
       /\ (\A u \in Stars(galaxy) : u # s => star'[u] = star[u])
       /\ \A u \in Stars(galaxy) : star'[u] \in StarSet(galaxy.kind[u])
  BY <1>3, <1>8, <1>9, <1>10
<1>12. ToSet(in) \subseteq Arcs(galaxy)
  BY <1>8 DEF Arcs
<1>13. fired'.time = f.time /\ fired'.ports = {p \in ToSet(in) : f.ports[p].new}
       /\ fired'.ports \subseteq Arcs(galaxy)
  BY <1>3, <1>12
<1>14. Typed'
  <2>1. halts' \in 0..use.maxHalts
    BY <1>4, <1>10
  <2>2. currentTime' \in Nat /\ stopTime' \in Nat /\ fired'.time \in Nat
    BY <1>3, <1>8, <1>10, <1>13
  <2>3. pc' \in {"setup", "ready", "running", "dead", "error"}
    BY <1>4
  <2>4. config' = config
    BY <1>3
  <2> QED
    BY <1>1, <1>6, <1>11, <1>13, <2>1, <2>2, <2>3, <2>4, TypedAfter
<1>15. \A i \in 1..Len(queue') : Behind(queue'[i]) \/ SentEvent(f, queue'[i])
  BY <1>6 DEF Has
<1>16. \A i \in 1..Len(queue') : queue'[i] \in EventSet /\ queue'[i].level >= f.time
  BY <1>6, <1>15 DEF Behind, SentEvent
<1>17. InTime'
  BY <1>3, <1>8, <1>13, <1>16 DEF InTime
<1>18. Clocked'
  <2>1. ASSUME NEW i \in 1..Len(queue'), galaxy.kind[Dest(queue'[i])] = "Clock"
        PROVE  queue'[i].level <= star'[Dest(queue'[i])].completionTime
    <3> DEFINE y == queue'[i]
               c == Dest(y)
    <3>1. y \in EventSet /\ (Behind(y) \/ SentEvent(f, y)) /\ galaxy.kind[c] = "Clock"
      BY <1>15, <1>16, <2>1
    <3> HIDE DEF y
    <3>2. c \in Stars(galaxy) /\ y.level \in Nat
      BY <1>10, <3>1, EventIs
    <3>3. CASE SentEvent(f, y)
      BY <1>11, <3>1, <3>2, <3>3 DEF SentEvent, y
    <3>4. CASE Behind(y)
      <4>1. PICK j \in 1..Len(queue) : queue[j] = y
        BY <3>4 DEF Behind, Has
      <4>2. y.level <= star[c].completionTime
        BY <1>1, <3>1, <4>1 DEF Clocked
      <4>3. CASE c # s
        BY <1>11, <3>2, <4>2, <4>3 DEF y
      <4>4. CASE c = s
        <5>1. star[s].completionTime <= r.star.completionTime
          BY <1>9, <3>1, <4>4 DEF Planned
        <5>2. star[s].completionTime \in Nat /\ r.star.completionTime \in Nat
          BY <1>8, <1>9 DEF StarSet
        <5>3. y.level <= r.star.completionTime
          BY <3>2, <4>2, <4>4, <5>1, <5>2
        <5> QED
          BY <1>11, <4>4, <5>3 DEF y
      <4> QED
        BY <4>3, <4>4
    <3> QED
      BY <3>1, <3>3, <3>4
  <2>2. ASSUME NEW u \in Stars(galaxy), galaxy.kind[u] = "Delay"
        PROVE  star'[u].completionTime <= fired'.time + galaxy.param[u]
    <3>1. CASE u = s
      BY <1>9, <1>11, <1>13, <2>2, <3>1
    <3>2. CASE u # s
      <4> DEFINE pa == galaxy.param[u]
                 kd == galaxy.kind[u]
                 inu == galaxy.in[u]
                 out == galaxy.out[u]
      <4>1. star'[u] = star[u] /\ star[u].completionTime \in Nat
        BY <1>10, <1>11, <3>2 DEF StarSet
      <4>2. star[u].completionTime <= fired.time + pa
        BY <1>1, <2>2 DEF Clocked
      <4>3. inu \in Seq(Arcs(galaxy)) /\ out \in Seq(Arcs(galaxy)) /\ IsStar(kd, pa, inu, out)
        BY <1>10, Galaxy
      <4>4. kd = "Delay"
        BY <2>2
      <4> HIDE DEF kd, pa, inu, out
      <4>5. pa \in Nat
        BY <4>3, <4>4, StarIs
      <4>6. fired.time <= f.time
        BY <1>1, <1>6, <1>7 DEF InTime
      <4>7. star[u].completionTime <= f.time + pa
        BY <1>8, <1>10, <4>1, <4>2, <4>5, <4>6
      <4> QED
        BY <1>13, <4>1, <4>7 DEF pa
    <3> QED
      BY <3>1, <3>2
  <2>3. \A i \in 1..Len(queue') : Dest(queue'[i]) = Dest(queue[i])'
    BY <1>10 DEF Dest
  <2> QED
    BY <1>10, <2>1, <2>2, <2>3 DEF Clocked
<1>19. CausesFirst'
  <2>1. ASSUME NEW i \in 1..Len(queue'), queue'[i].level = fired'.time
        PROVE  \E q \in fired'.ports : depth[q] <= queue'[i].fine
    <3> DEFINE y == queue'[i]
    <3>1. y.level = f.time /\ (Behind(y) \/ SentEvent(f, y))
      BY <1>13, <1>15, <2>1
    <3> HIDE DEF y
    <3>2. CASE SentEvent(f, y)
      BY <1>13, <3>1, <3>2 DEF SentEvent, y
    <3>3. CASE Behind(y)
      <4>1. e.fine <= y.fine
        BY <1>6, <3>1, <3>3 DEF Behind
      <4> QED
        BY <1>6, <1>7, <1>13, <4>1 DEF y
    <3> QED
      BY <3>1, <3>2, <3>3
  <2> QED
    BY <1>10, <2>1 DEF CausesFirst, Deeper
<1>20. NotStarted'
  BY <1>4 DEF NotStarted
<1> QED
  BY <1>14, <1>17, <1>18, <1>19, <1>20 DEF Timely

LEMMA OthersKeepTimely ==
  ASSUME Timely,
         \/ \E stop \in use.stops : Run(stop)
         \/ StopBeforeDead \/ EventInThePast \/ NoMoreEvents \/ HaltBeforeGo
  PROVE  Timely'
<1> DEFINE e == Head(queue)
<1>1. Typed /\ InTime /\ Clocked /\ NotStarted /\ CausesFirst
  BY DEF Timely
<1>2. /\ Configured /\ InOrder(queue) /\ input \in PortsSet /\ DOMAIN star = Stars(galaxy)
      /\ (\A s \in Stars(galaxy) : star[s] \in StarSet(galaxy.kind[s]))
      /\ sent \in [Arcs(galaxy) -> Seq(SentSet)] /\ currentTime \in Nat /\ stopTime \in Nat
      /\ halts \in 0..use.maxHalts /\ fired.time \in Nat /\ fired.ports \subseteq Arcs(galaxy)
      /\ use.stops \subseteq Nat /\ use.maxHalts \in Nat /\ use.inverseTimeScale \in Nat
  BY <1>1 DEF Typed, Configured
<1>3. /\ config' = config /\ star' = star /\ sent' = sent /\ fired' = fired
      /\ pc' \in {"ready", "running", "dead", "error"}
  BY HaltIs, <1>1 DEF Run, StopBeforeDead, EventInThePast, NoMoreEvents
<1>4. /\ galaxy' = galaxy /\ use' = use /\ depth' = depth
  BY <1>3, ConfigIsKept
<1>5. stopTime' \in Nat
  BY <1>1, <1>2, HaltIs DEF Run, StopBeforeDead, EventInThePast, NoMoreEvents
<1>6. halts' \in 0..use.maxHalts
  BY <1>1, <1>2, HaltIs DEF Run, StopBeforeDead, EventInThePast, NoMoreEvents
<1>7. input' \in PortsSet /\ InOrder(queue') /\ \A y : Has(queue', y) => Has(queue, y)
  BY <1>1, <1>2, HaltIs DEF Run, StopBeforeDead, EventInThePast, NoMoreEvents, Behind
<1>8. /\ currentTime' \in Nat
      /\ use.inverseTimeScale = 1 => \A y : Has(queue', y) => currentTime' <= y.level
  <2>1. CASE currentTime' = currentTime
    BY <1>1, <1>2, <1>7, <2>1 DEF InTime, Has
  <2>2. CASE HaltBeforeGo
    <3>1. /\ queue # <<>> /\ currentTime' = e.level /\ \A y : Has(queue', y) => Behind(y)
      BY <1>1, <2>2, HaltIs
    <3>2. e \in EventSet
      BY <1>1, <3>1, QueueIs
    <3> QED
      BY <3>1, <3>2 DEF Behind, EventSet
  <2>3. CASE StopBeforeDead
    <3>1. queue # <<>> /\ e.level > stopTime /\ currentTime' = stopTime * use.inverseTimeScale /\ queue' = queue
      BY <2>3 DEF StopBeforeDead
    <3>2. e \in EventSet /\ e.level \in Nat /\ \A y : Has(queue, y) => Behind(y)
      BY <1>1, <3>1, QueueIs DEF EventSet
    <3>3. currentTime' \in Nat
      BY <1>2, <3>1
    <3>4. \A y : Has(queue', y) => e.level <= y.level /\ y.level \in Nat
      BY <3>1, <3>2 DEF Behind, EventSet
    <3> QED
      BY <1>2, <3>1, <3>2, <3>3, <3>4
  <2> QED
    BY <2>1, <2>2, <2>3 DEF Run, EventInThePast, NoMoreEvents
<1>9. Typed'
  BY <1>1, <1>2, <1>3, <1>5, <1>6, <1>7, <1>8, TypedAfter
<1>10. \A i \in 1..Len(queue') : Has(queue', queue'[i]) /\ \E j \in 1..Len(queue) : queue'[i] = queue[j]
  BY <1>7 DEF Has
<1>11. InTime'
  BY <1>1, <1>3, <1>4, <1>8, <1>10 DEF InTime
<1>12. Clocked'
  BY <1>1, <1>3, <1>4, <1>10 DEF Clocked, Dest
<1>13. CausesFirst'
  BY <1>1, <1>3, <1>4, <1>10 DEF CausesFirst, Deeper
<1>14. NotStarted'
  BY <1>3 DEF NotStarted
<1> QED
  BY <1>9, <1>11, <1>12, <1>13, <1>14 DEF Timely

NoFault == use.inverseTimeScale = 1 /\ StarsOf("Statistics") = {} => pc # "error"

\* The state that the setup leaves.
LEMMA SetupIsTimely ==
  ASSUME Init
  PROVE  Timely /\ NoFault
<1>1. PICK c \in Cases : Setup(c.galaxy, c.scheduler, c.address, c.use)
  BY DEF Init
<1>2. /\ galaxy = c.galaxy /\ scheduler = c.scheduler /\ address = c.address /\ use = c.use
      /\ depth = LongestPath(galaxy) /\ queue = <<>> /\ input = [p \in Arcs(galaxy) |-> EmptyPort]
      /\ star = [s \in Stars(galaxy) |-> [completionTime |-> 0, memory |-> Memory(galaxy.kind[s])]]
      /\ currentTime = 0 /\ stopTime = 0 /\ halts = 0 /\ pc = "setup"
      /\ sent = [p \in Arcs(galaxy) |-> <<>>] /\ fired = [star |-> 0, time |-> 0, ports |-> {}]
  BY <1>1 DEF Setup
<1>3. Configured
  BY <1>2, CasesAssumption DEF Configured
<1>4. InOrder(queue)
  BY <1>2 DEF InOrder
<1>5. EmptyPort \in PortSet
  <2>1. <<>> \in Seq(Int) /\ FALSE \in BOOLEAN /\ 0 \in Nat /\ 0 \in Int
    OBVIOUS
  <2> QED
    BY <2>1 DEF EmptyPort, PortSet
<1>6. input \in PortsSet
  BY <1>2, <1>5 DEF PortsSet
<1>7. \A s \in Stars(galaxy) : star[s].completionTime = 0 /\ star[s] \in StarSet(galaxy.kind[s])
  <2>1. SUFFICES ASSUME NEW s \in Stars(galaxy)
                 PROVE  star[s].completionTime = 0 /\ star[s] \in StarSet(galaxy.kind[s])
    OBVIOUS
  <2> DEFINE k == galaxy.kind[s]
             m == Memory(k)
  <2>2. star[s] = [completionTime |-> 0, memory |-> m]
    BY <1>2
  <2>3. m \in MemorySet(k)
    <3> HIDE DEF k
    <3>1. CASE k = "FIFOQueue"
      <4>1. m = [queue |-> <<>>, pending |-> 1]
        BY <3>1 DEF Memory
      <4>2. <<>> \in Seq(Int)
        OBVIOUS
      <4>3. m \in [queue : Seq(Int), pending : Nat] /\ m.queue = <<>>
        BY <4>1, <4>2
      <4> HIDE DEF m
      <4> QED
        BY <3>1, <4>3 DEF MemorySet, QueueMemory
    <3>2. CASE k = "Statistics"
      <4>1. m = [start |-> -1, sum |-> 0, squares |-> 0, previous |-> 0]
        BY <3>2 DEF Memory
      <4> QED
        BY <3>2, <4>1 DEF MemorySet, SumsMemory
    <3>3. CASE k # "FIFOQueue" /\ k # "Statistics"
      BY <3>3 DEF Memory, MemorySet
    <3> QED
      BY <3>1, <3>2, <3>3
  <2> HIDE DEF k, m
  <2> QED
    BY <2>2, <2>3 DEF StarSet, k
<1>8. sent \in [Arcs(galaxy) -> Seq(SentSet)] /\ \A p \in Arcs(galaxy) : sent[p] = <<>>
  BY <1>2
<1>9. DOMAIN star = Stars(galaxy) /\ fired.time = 0 /\ fired.ports = {} /\ Len(queue) = 0
  BY <1>2
<1>10. use.maxHalts \in Nat
  BY <1>3 DEF Configured
<1>11. Typed
  BY <1>2, <1>3, <1>4, <1>6, <1>7, <1>8, <1>9, <1>10 DEF Typed
<1>12. InTime /\ CausesFirst /\ NotStarted
  BY <1>2, <1>8, <1>9 DEF InTime, CausesFirst, NotStarted
<1>13. Clocked
  <2>1. ASSUME NEW s \in Stars(galaxy), galaxy.kind[s] = "Delay"
        PROVE  star[s].completionTime <= fired.time + galaxy.param[s]
    <3> DEFINE pa == galaxy.param[s]
               k == galaxy.kind[s]
               in == galaxy.in[s]
               out == galaxy.out[s]
    <3>1. in \in Seq(Arcs(galaxy)) /\ out \in Seq(Arcs(galaxy)) /\ IsStar(k, pa, in, out)
      BY <1>3, Galaxy DEF Configured
    <3>2. k = "Delay"
      BY <2>1
    <3> HIDE DEF pa, k, in, out
    <3>3. pa \in Nat
      BY <3>1, <3>2, StarIs
    <3> QED
      BY <1>7, <1>9, <3>3 DEF pa
  <2> QED
    BY <1>9, <2>1 DEF Clocked
<1> QED
  BY <1>2, <1>11, <1>12, <1>13 DEF Timely, NoFault

\* A fault is an event in the past, or a Statistics star without a particle.
LEMMA NextIsWithoutFault ==
  ASSUME Timely, NoFault, Next
  PROVE  NoFault'
<1>1. Typed /\ InTime /\ Clocked
  BY DEF Timely
<1>2. SUFFICES ASSUME use.inverseTimeScale = 1, StarsOf("Statistics") = {}, pc' = "error" PROVE FALSE
  <2>1. config' = config
    BY Zenon DEF Next, Begin, Run, StopBeforeDead, EventInThePast, NoMoreEvents, Fire, HaltBeforeGo
  <2>2. use' = use /\ galaxy' = galaxy
    BY <2>1, ConfigIsKept
  <2>3. StarsOf("Statistics")' = StarsOf("Statistics")
    BY <2>2 DEF StarsOf
  <2> QED
    BY <1>2, <2>2, <2>3 DEF NoFault
<1>3. pc # "error"
  BY <1>2 DEF NoFault
<1>4. CASE EventInThePast
  <2>1. queue # <<>> /\ Head(queue).level < currentTime
    BY <1>4 DEF EventInThePast
  <2>2. Head(queue) = queue[1] /\ 1 \in 1..Len(queue) /\ Head(queue) \in EventSet
    BY <1>1, <2>1, QueueIs
  <2>3. queue[1].level >= currentTime /\ queue[1].level \in Nat /\ currentTime \in Nat
    BY <1>1, <1>2, <2>2 DEF InTime, EventSet, Typed
  <2> QED
    BY <2>1, <2>2, <2>3
<1>5. CASE Fire
  <2> DEFINE f == NextFiring
             r == ResultOf(f)
             k == galaxy.kind[f.star]
  <2>1. Fired(f)
    BY <1>5, FireIs
  <2> HIDE DEF f
  <2>2. Advanced(f, Head(queue))
    BY <1>1, <2>1, FiredQueue
  <2>3. /\ f.star \in Stars(galaxy)
        /\ Sound(k, galaxy.param[f.star], Len(galaxy.in[f.star]), Len(galaxy.out[f.star]), star[f.star],
                 ReadableOf(f), f.time, r)
    BY <2>2 DEF Advanced, SoundFiring
  <2>4. k # "Statistics"
    BY <1>2, <2>3 DEF StarsOf
  <2>5. r.ok
    <3> HIDE DEF k, r
    <3> QED
      BY <2>3, <2>4 DEF Sound
  <2>6. IF ~r.ok THEN pc' = "error" /\ halts' = halts
        ELSE \/ pc' = pc /\ halts' = halts
             \/ halts < use.maxHalts /\ pc' = "ready" /\ halts' = halts + 1
    BY <2>1 DEF Fired
  <2> HIDE DEF r
  <2> QED
    BY <1>2, <1>3, <2>5, <2>6
<1>6. CASE Begin \/ StopBeforeDead \/ NoMoreEvents \/ HaltBeforeGo \/ \E stop \in use.stops : Run(stop)
  BY <1>2, <1>6 DEF Begin, StopBeforeDead, NoMoreEvents, HaltBeforeGo, Run
<1> QED
  BY <1>4, <1>5, <1>6 DEF Next

LEMMA StepIsTimely ==
  ASSUME Timely, [Next]_vars
  PROVE  Timely'
<1>1. CASE UNCHANGED vars
  <2>1. /\ galaxy' = galaxy /\ scheduler' = scheduler /\ use' = use /\ address' = address
        /\ depth' = depth /\ queue' = queue /\ input' = input /\ star' = star
        /\ currentTime' = currentTime /\ stopTime' = stopTime /\ halts' = halts /\ pc' = pc
        /\ sent' = sent /\ fired' = fired
    BY <1>1 DEF vars
  <2>2. config' = config
    BY <2>1 DEF config
  <2>3. Typed /\ InTime /\ Clocked /\ NotStarted /\ CausesFirst
    BY DEF Timely
  <2>4. Typed'
    BY <2>1, <2>2, <2>3, TypedAfter DEF Typed
  <2> QED
    BY <2>1, <2>3, <2>4 DEF Timely, InTime, Clocked, NotStarted, CausesFirst, Deeper, Dest
<1>2. CASE Next
  BY <1>2, BeginKeepsTimely, FireKeepsTimely, OthersKeepTimely DEF Next
<1> QED
  BY <1>1, <1>2

LEMMA StepIsWithoutFault ==
  ASSUME Timely, NoFault, [Next]_vars
  PROVE  NoFault'
<1>1. CASE UNCHANGED vars
  BY <1>1 DEF vars, NoFault, StarsOf
<1>2. CASE Next
  BY <1>2, NextIsWithoutFault
<1> QED
  BY <1>1, <1>2

LEMMA TimelyHolds == Spec => []Timely
<1>1. Init => Timely
  BY SetupIsTimely
<1>2. Timely /\ [Next]_vars => Timely'
  BY StepIsTimely
<1> QED
  BY <1>1, <1>2, PTL DEF Spec

\* Where the scheduler's time is that of its events, no event is ever found to be
\* in its past, whatever the galaxy, the scheduler, the addresses, the stop times
\* and the halts, and no star but a Statistics star reads a particle that is not
\* there (NoError).
THEOREM NoEventIsInThePast == Spec => []NoError
<1>1. Init => NoFault
  BY SetupIsTimely
<1>2. Timely /\ NoFault /\ [Next]_vars => NoFault'
  BY StepIsWithoutFault
<1>3. Timely /\ NoFault => NoError
  <2>1. SUFFICES ASSUME Timely, NoFault PROVE NoError
    OBVIOUS
  <2>2. Typed
    BY <2>1 DEF Timely
  <2>3. IsGalaxy(galaxy) /\ scheduler \in {"DE", "CQ"} /\ depth = LongestPath(galaxy) /\ InOrder(queue)
    BY <2>2 DEF Typed, Configured
  <2>4. galaxy.tokens \subseteq Arcs(galaxy)
    <3>1. ASSUME NEW c \in Stars(galaxy), galaxy.kind[c] = "Clock" PROVE galaxy.out[c][2] \in Arcs(galaxy)
      <4> DEFINE in == galaxy.in[c]
                 out == galaxy.out[c]
                 k == galaxy.kind[c]
                 pa == galaxy.param[c]
      <4>1. in \in Seq(Arcs(galaxy)) /\ out \in Seq(Arcs(galaxy)) /\ IsStar(k, pa, in, out) /\ k = "Clock"
        BY <2>3, <3>1, Galaxy
      <4> HIDE DEF in, out, k, pa
      <4>2. Len(out) = 2
        BY <4>1, StarIs
      <4>3. out[2] \in Arcs(galaxy)
        <5>1. out \in Seq(Arcs(galaxy)) /\ 2 \in 1..Len(out)
          BY <4>1, <4>2
        <5> QED
          BY <5>1
      <4> QED
        BY <4>3 DEF out
    <3>2. galaxy.tokens = {galaxy.out[s][2] : s \in {u \in Stars(galaxy) : galaxy.kind[u] = "Clock"}}
      BY <2>3 DEF IsGalaxy
    <3> QED
      BY <3>1, <3>2
  <2>5. \A i \in DOMAIN queue : queue[i].arc \in Arcs(galaxy) /\ queue[i].fine < 0
    <3>1. \A p \in Arcs(galaxy) : depth[p] \in Int /\ depth[p] <= -1
      BY <2>3, Depths
    <3>2. \A i \in DOMAIN queue : queue[i] \in EventSet /\ queue[i].fine = depth[queue[i].arc]
      BY <2>3 DEF InOrder
    <3> QED
      BY <3>1, <3>2 DEF EventSet
  <2>6. \A p \in Arcs(galaxy) : input[p].new \in BOOLEAN /\ input[p].more \in Nat
    BY <2>2 DEF Typed, PortsSet, PortSet
  <2>7. TypeOK
    BY <2>2, <2>3, <2>4, <2>5, <2>6 DEF TypeOK, Typed
  <2> QED
    BY <2>1, <2>7 DEF NoError, NoFault
<1> QED
  BY <1>1, <1>2, <1>3, TimelyHolds, PTL DEF Spec

\* When a star fires on the earliest of its new inputs, no event that is left can
\* still cause one there in no time (CausesComeFirst): for every galaxy that
\* setup() accepts, either scheduler, and any stops and halts.
THEOREM SimultaneousEventsAreOrdered == Spec => []CausesComeFirst
<1>1. Timely => CausesComeFirst
  <2>1. SUFFICES ASSUME Timely, NEW p \in fired.ports, NEW i \in DOMAIN queue,
                        queue[i].level = fired.time,
                        \A q \in fired.ports : depth[p] <= depth[q],
                        p \in AllReached(galaxy)[queue[i].arc]
                 PROVE  FALSE
    BY DEF CausesComeFirst
  <2>2. /\ IsGalaxy(galaxy) /\ depth = LongestPath(galaxy) /\ InOrder(queue)
        /\ fired.ports \subseteq Arcs(galaxy) /\ CausesFirst
    BY <2>1 DEF Timely, Typed, Configured
  <2> DEFINE a == queue[i].arc
             d == depth
  <2>3. i \in 1..Len(queue) /\ a \in Arcs(galaxy) /\ queue[i].fine = d[a]
    <3>1. queue \in Seq(EventSet) /\ \A j \in 1..Len(queue) : queue[j].fine = depth[queue[j].arc]
      BY <2>2 DEF InOrder
    <3>2. i \in 1..Len(queue) /\ queue[i] \in EventSet
      BY <3>1
    <3> QED
      BY <3>1, <3>2 DEF EventSet
  <2>4. PICK q \in fired.ports : d[q] <= queue[i].fine
    BY <2>1, <2>2, <2>3 DEF CausesFirst, Deeper
  <2>5. d \in [Arcs(galaxy) -> Int] /\ d = LongestPath(galaxy) /\ p \in AllReached(galaxy)[a]
    BY <2>1, <2>2, Depths
  <2> HIDE DEF a, d
  <2>6. d[a] < d[p]
    BY <2>2, <2>3, <2>5, ReachedIsDeeper
  <2>7. d[p] <= d[q] /\ d[q] \in Int /\ d[p] \in Int /\ d[a] \in Int
    BY <2>1, <2>2, <2>3, <2>4, <2>5 DEF d
  <2> QED
    BY <2>3, <2>4, <2>6, <2>7
<1> QED
  BY <1>1, TimelyHolds, PTL

-----------------------------------------------------------------------------
(* The events of an arc *)

Places(q, p) == {i \in 1..Len(q) : q[i].arc = p}

\* The events of arc p in q are those at the places o.
AlongArc(q, p, o) ==
    /\ Enumerates(o, Places(q, p)) /\ Len(OnArc(q, p)) = Len(o) /\ OnArc(q, p) \in Seq(EventSet)
    /\ \A i \in 1..Len(o) : o[i] \in 1..Len(q) /\ OnArc(q, p)[i] = q[o[i]] /\ q[o[i]].arc = p

LEMMA OnArcFrom ==
  ASSUME NEW q \in Seq(EventSet), NEW p, NEW o, Enumerates(o, Places(q, p))
  PROVE  AlongArc(q, p, o)
<1> DEFINE S == Places(q, p)
<1>1. OnArc(q, p) = Kept(q, S)
  <2>1. {i \in DOMAIN q : q[i].arc = p} = S
    BY DEF Places
  <2> QED
    BY <2>1 DEF OnArc
<1>2. S \cap (1..Len(q)) = S
  BY DEF Places
<1> HIDE DEF S
<1>3. PICK u : KeptAlong(EventSet, q, S, u)
  BY KeptIs
<1>4. Enumerates(u, S)
  BY <1>2, <1>3 DEF KeptAlong
<1>5. u = o
  BY <1>4, EnumerationIsUnique DEF S
<1>6. /\ Kept(q, S) \in Seq(EventSet) /\ Len(Kept(q, S)) = Len(o)
      /\ \A i \in 1..Len(o) : o[i] \in 1..Len(q) /\ Kept(q, S)[i] = q[o[i]]
  BY <1>3, <1>5 DEF KeptAlong
<1>7. \A i \in 1..Len(o) : q[o[i]].arc = p
  BY DEF Enumerates, Places
<1> QED
  BY <1>1, <1>6, <1>7 DEF AlongArc

LEMMA OnArcIs ==
  ASSUME NEW q \in Seq(EventSet), NEW p
  PROVE  \E o : AlongArc(q, p, o)
<1> DEFINE S == Places(q, p)
           n == Len(q)
<1>1. n \in Nat /\ S \cap (1..n) = S
  BY DEF Places
<1> HIDE DEF S, n
<1>2. Enumerates(Ascending(S, n), S)
  BY <1>1, AscendingEnumerates
<1> QED
  BY <1>2, OnArcFrom DEF S

LEMMA OnArcCounts ==
  ASSUME NEW q \in Seq(EventSet), NEW p
  PROVE  Cardinality({i \in DOMAIN q : q[i].arc = p}) = Len(OnArc(q, p))
<1>1. PICK o : AlongArc(q, p, o)
  BY OnArcIs
<1>2. Enumerates(o, Places(q, p)) /\ Len(OnArc(q, p)) = Len(o)
  BY <1>1 DEF AlongArc
<1>3. Cardinality(Places(q, p)) = Len(o)
  BY <1>2, EnumerationCounts
<1>4. {i \in DOMAIN q : q[i].arc = p} = Places(q, p)
  BY DEF Places
<1> QED
  BY <1>2, <1>3, <1>4

\* An event appended to q.
LEMMA OnArcAppended ==
  ASSUME NEW q \in Seq(EventSet), NEW x \in EventSet, NEW p
  PROVE  OnArc(Append(q, x), p) = IF x.arc = p THEN Append(OnArc(q, p), x) ELSE OnArc(q, p)
<1> DEFINE w == Append(q, x)
           S == Places(w, p)
           T == Places(q, p)
<1>1. w \in Seq(EventSet) /\ Len(w) = Len(q) + 1 /\ Len(q) \in Nat /\ w[Len(q) + 1] = x
      /\ \A i \in 1..Len(q) : w[i] = q[i]
  BY AppendIs
<1>2. OnArc(w, p) = Kept(w, S) /\ OnArc(q, p) = Kept(q, T)
  <2>1. {i \in DOMAIN w : w[i].arc = p} = S /\ {i \in DOMAIN q : q[i].arc = p} = T
    BY <1>1 DEF Places
  <2> QED
    BY <2>1 DEF OnArc
<1> HIDE DEF w
<1>3. S \cap (1..Len(q)) = T \cap (1..Len(q)) /\ (Len(q) + 1 \in S <=> x.arc = p)
  BY <1>1 DEF Places
<1> HIDE DEF S, T
<1>4. Kept(q, S) = Kept(q, T)
  BY <1>3, KeptSame
<1>5. Kept(w, S) = IF Len(q) + 1 \in S THEN Append(Kept(q, S), x) ELSE Kept(q, S)
  BY KeptAppend DEF w
<1> QED
  BY <1>2, <1>3, <1>4, <1>5 DEF w

\* An event put into q at n, behind the other events of its arc.
LEMMA OnArcInserted ==
  ASSUME NEW q \in Seq(EventSet), NEW e \in EventSet, NEW n, NEW r, Pushed(q, e, n, r), NEW p,
         \A i \in n..Len(q) : q[i].arc # e.arc
  PROVE  OnArc(r, p) = IF e.arc = p THEN Append(OnArc(q, p), e) ELSE OnArc(q, p)
<1>1. /\ n \in 1..(Len(q) + 1) /\ r \in Seq(EventSet) /\ Inserted(q, n, e, r) /\ Len(q) \in Nat
  BY DEF Pushed
<1>2. /\ Len(r) = Len(q) + 1
      /\ \A i \in 1..(Len(q) + 1) :
            \/ i < n /\ i \in 1..Len(q) /\ r[i] = q[i]
            \/ i = n /\ r[i] = e
            \/ i > n /\ i - 1 \in 1..Len(q) /\ r[i] = q[i - 1]
      /\ \A i \in 1..Len(q) :
            \/ i < n /\ i \in 1..(Len(q) + 1) /\ r[i] = q[i]
            \/ i >= n /\ i + 1 \in 1..(Len(q) + 1) /\ r[i + 1] = q[i]
  BY <1>1, InsertedPlaces
<1>3. PICK o : AlongArc(q, p, o)
  BY OnArcIs
<1>4. /\ Enumerates(o, Places(q, p)) /\ Len(OnArc(q, p)) = Len(o) /\ OnArc(q, p) \in Seq(EventSet)
      /\ \A i \in 1..Len(o) : o[i] \in 1..Len(q) /\ OnArc(q, p)[i] = q[o[i]]
      /\ o \in Seq(Nat) /\ Len(o) \in Nat
  BY <1>3 DEF AlongArc, Enumerates
<1>5. CASE e.arc = p
  <2>1. \A y \in Places(q, p) : y < n /\ y \in 1..Len(q)
    BY <1>1, <1>5 DEF Places
  <2>2. Places(r, p) = Places(q, p) \cup {n}
    <3>1. \A y \in Places(q, p) \cup {n} : y \in Places(r, p)
      <4>1. \A y \in Places(q, p) : y \in 1..(Len(q) + 1) /\ r[y].arc = p
        BY <1>1, <1>2, <2>1 DEF Places
      <4>2. n \in 1..(Len(q) + 1) /\ r[n].arc = p
        BY <1>1, <1>2, <1>5
      <4> QED
        BY <1>2, <4>1, <4>2 DEF Places
    <3>2. \A y \in Places(r, p) : y \in Places(q, p) \cup {n}
      <4>1. SUFFICES ASSUME NEW y \in Places(r, p), y # n PROVE y \in Places(q, p)
        OBVIOUS
      <4>2. y \in 1..(Len(q) + 1) /\ r[y].arc = p
        BY <1>2 DEF Places
      <4>3. y > n => y - 1 \in n..Len(q) /\ r[y] = q[y - 1]
        BY <1>1, <1>2, <4>2
      <4>4. ~(y > n)
        BY <1>5, <4>2, <4>3
      <4> QED
        BY <1>1, <1>2, <4>1, <4>2, <4>4 DEF Places
    <3> QED
      BY <3>1, <3>2
  <2> DEFINE u == Append(o, n)
             T == Places(q, p)
  <2>3. n \in Nat /\ \A y \in T : y < n
    BY <1>1, <2>1
  <2> HIDE DEF T
  <2>4. Enumerates(u, T \cup {n})
    BY <1>4, <2>3, EnumeratesAppended DEF T
  <2>5. u \in Seq(Nat) /\ Len(u) = Len(o) + 1 /\ (\A i \in 1..Len(o) : u[i] = o[i]) /\ u[Len(o) + 1] = n
    BY <1>4, <2>3, AppendIs
  <2> HIDE DEF u
  <2>6. AlongArc(r, p, u)
    BY <1>1, <2>2, <2>4, OnArcFrom DEF T
  <2> DEFINE a == OnArc(r, p)
             b == OnArc(q, p)
             c == Append(b, e)
  <2>7. /\ c \in Seq(EventSet) /\ Len(c) = Len(o) + 1
        /\ (\A i \in 1..Len(o) : c[i] = b[i]) /\ c[Len(o) + 1] = e
    BY <1>4, AppendIs
  <2>8. a \in Seq(EventSet) /\ Len(a) = Len(o) + 1 /\ \A i \in 1..(Len(o) + 1) : a[i] = r[u[i]]
    BY <2>5, <2>6 DEF AlongArc
  <2> HIDE DEF a, b, c
  <2>9. \A i \in 1..Len(o) : o[i] \in 1..Len(q) /\ o[i] < n
    <3>1. \A i \in 1..Len(o) : o[i] \in Places(q, p)
      BY <1>4 DEF Enumerates
    <3> QED
      BY <2>1, <3>1
  <2>10. \A i \in 1..(Len(o) + 1) : a[i] = c[i]
    <3>1. SUFFICES ASSUME NEW i \in 1..(Len(o) + 1) PROVE a[i] = c[i]
      OBVIOUS
    <3>2. CASE i = Len(o) + 1
      BY <1>1, <1>2, <2>5, <2>7, <2>8, <3>2
    <3>3. CASE i # Len(o) + 1
      <4>1. i \in 1..Len(o)
        BY <1>4, <3>3
      <4>2. r[o[i]] = q[o[i]]
        BY <1>1, <1>2, <2>9, <4>1
      <4> QED
        BY <1>4, <2>5, <2>7, <2>8, <4>1, <4>2 DEF b
    <3> QED
      BY <3>2, <3>3
  <2>11. a = c
    BY <2>7, <2>8, <2>10, SequencesEqual
  <2> QED
    BY <1>5, <2>11 DEF a, b, c
<1>6. CASE e.arc # p
  <2> DEFINE T == Places(q, p)
             g == [i \in T |-> IF i < n THEN i ELSE i + 1]
             u == [k \in 1..Len(o) |-> g[o[k]]]
  <2>1. T \subseteq 1..Len(q) /\ n \in Nat
    BY <1>1 DEF Places
  <2>2. (\A x \in T : g[x] \in Nat) /\ \A x, y \in T : x < y => g[x] < g[y]
    BY <2>1
  <2>3. {g[x] : x \in T} = Places(r, p)
    <3>1. \A x \in T : g[x] \in Places(r, p)
      BY <1>1, <1>2, <2>1 DEF Places
    <3>2. \A y \in Places(r, p) : \E x \in T : y = g[x]
      <4>1. SUFFICES ASSUME NEW y \in Places(r, p) PROVE \E x \in T : y = g[x]
        OBVIOUS
      <4>2. y \in 1..(Len(q) + 1) /\ r[y].arc = p
        BY <1>2 DEF Places
      <4>3. CASE y < n
        <5>1. y \in T
          BY <1>1, <1>2, <4>2, <4>3 DEF Places
        <5> QED
          BY <4>3, <5>1
      <4>4. CASE y > n
        <5>1. y - 1 \in T /\ ~(y - 1 < n)
          BY <1>1, <1>2, <4>2, <4>4 DEF Places
        <5> QED
          BY <4>2, <5>1
      <4>5. y # n
        BY <1>1, <1>2, <1>6, <4>2
      <4> QED
        BY <1>1, <4>2, <4>3, <4>4, <4>5
    <3> QED
      BY <3>1, <3>2
  <2>4. \A i \in 1..Len(o) : o[i] \in T /\ r[g[o[i]]] = q[o[i]]
    <3>1. \A i \in 1..Len(o) : o[i] \in T
      BY <1>4 DEF Enumerates
    <3>2. \A x \in T : r[g[x]] = q[x]
      BY <1>1, <1>2, <2>1
    <3> QED
      BY <3>1, <3>2
  <2> HIDE DEF g
  <2>5. \A i \in 1..Len(o) : u[i] = g[o[i]]
    OBVIOUS
  <2> DEFINE R == Places(r, p)
  <2>6. Len(u) = Len(o) /\ u \in Seq(Nat)
    BY <1>4, <2>2, <2>4
  <2>7. Enumerates(o, T)
    BY <1>4
  <2>8. \A y : y \in R <=> \E x \in T : y = g[x]
    BY <2>3
  <2> HIDE DEF u, T, R
  <2>9. /\ \A x \in T : g[x] \in Nat
        /\ \A x, y \in T : x < y => g[x] < g[y]
    BY <2>2
  <2>10. u \in Seq(Nat) /\ Len(u) = Len(o) /\ \A k \in 1..Len(o) : u[k] = g[o[k]]
    BY <2>5, <2>6
  <2>11. Increasing(o, T, g, u, R)
    BY <2>8, <2>9, <2>10 DEF Increasing
  <2>12. Enumerates(u, R)
    BY <2>7, <2>11, EnumerationMapped
  <2>13. AlongArc(r, p, u)
    BY <1>1, <2>12, OnArcFrom DEF R
  <2> DEFINE a == OnArc(r, p)
             b == OnArc(q, p)
  <2>14. a \in Seq(EventSet) /\ Len(a) = Len(o) /\ \A i \in 1..Len(o) : a[i] = r[u[i]]
    BY <2>6, <2>13 DEF AlongArc
  <2>15. b \in Seq(EventSet) /\ Len(b) = Len(o) /\ \A i \in 1..Len(o) : b[i] = q[o[i]]
    BY <1>4
  <2> HIDE DEF a, b
  <2>16. \A i \in 1..Len(a) : a[i] = b[i]
    BY <2>4, <2>5, <2>14, <2>15
  <2>17. a = b
    BY <2>14, <2>15, <2>16, SequencesEqual
  <2> QED
    BY <1>6, <2>17 DEF a, b
<1> QED
  BY <1>5, <1>6

\* M is L without its first k elements.
Dropped(L, k, M) ==
    /\ L \in Seq(EventSet) /\ M \in Seq(EventSet) /\ k \in 0..Len(L) /\ Len(M) = Len(L) - k
    /\ \A i \in 1..Len(M) : i + k \in 1..Len(L) /\ M[i] = L[i + k]

LEMMA DroppedAgain ==
  ASSUME NEW L, NEW k, NEW M, NEW m, NEW N, Dropped(L, k, M), Dropped(M, m, N)
  PROVE  Dropped(L, k + m, N)
<1>1. /\ L \in Seq(EventSet) /\ M \in Seq(EventSet) /\ k \in 0..Len(L) /\ Len(M) = Len(L) - k
      /\ \A i \in 1..Len(M) : i + k \in 1..Len(L) /\ M[i] = L[i + k]
  BY DEF Dropped
<1>2. /\ N \in Seq(EventSet) /\ m \in 0..Len(M) /\ Len(N) = Len(M) - m
      /\ \A i \in 1..Len(N) : i + m \in 1..Len(M) /\ N[i] = M[i + m]
  BY DEF Dropped
<1>3. \A i \in 1..Len(N) : i + (k + m) \in 1..Len(L) /\ N[i] = L[i + (k + m)]
  <2>1. SUFFICES ASSUME NEW i \in 1..Len(N) PROVE i + (k + m) \in 1..Len(L) /\ N[i] = L[i + (k + m)]
    OBVIOUS
  <2>2. i + m \in 1..Len(M) /\ N[i] = M[i + m]
    BY <1>2
  <2>3. (i + m) + k \in 1..Len(L) /\ M[i + m] = L[(i + m) + k]
    BY <1>1, <2>2
  <2>4. (i + m) + k = i + (k + m)
    BY <1>1, <1>2
  <2> QED
    BY <2>2, <2>3, <2>4
<1> QED
  BY <1>1, <1>2, <1>3 DEF Dropped

\* Of the events of an arc, the later ones are kept.
LEMMA KeptDrops ==
  ASSUME NEW q \in Seq(EventSet), NEW S, NEW p, NEW o, AlongArc(q, p, o), NEW k \in 0..Len(o),
         \A i \in 1..Len(o) : o[i] \in S <=> i > k
  PROVE  Dropped(OnArc(q, p), k, OnArc(Kept(q, S), p))
<1> DEFINE w == Kept(q, S)
           n == Len(q)
           R == S \cap Places(q, p)
           L == OnArc(q, p)
           M == OnArc(w, p)
<1>1. PICK u : KeptAlong(EventSet, q, S, u)
  BY KeptIs
<1>2. /\ Enumerates(u, S \cap (1..n)) /\ w \in Seq(EventSet) /\ Len(w) = Len(u)
      /\ \A i \in 1..Len(u) : u[i] \in 1..n /\ w[i] = q[u[i]]
  BY <1>1 DEF KeptAlong
<1> HIDE DEF w
<1>3. PICK v : AlongArc(w, p, v)
  BY <1>2, OnArcIs
<1>4. /\ Enumerates(v, Places(w, p)) /\ Len(M) = Len(v) /\ M \in Seq(EventSet)
      /\ \A i \in 1..Len(v) : v[i] \in 1..Len(w) /\ M[i] = w[v[i]] /\ w[v[i]].arc = p
  BY <1>3 DEF AlongArc
<1>5. /\ Enumerates(o, Places(q, p)) /\ Len(L) = Len(o) /\ L \in Seq(EventSet)
      /\ \A i \in 1..Len(o) : o[i] \in 1..n /\ L[i] = q[o[i]] /\ q[o[i]].arc = p
  BY DEF AlongArc
<1>6. /\ u \in Seq(Nat) /\ v \in Seq(Nat) /\ o \in Seq(Nat) /\ Len(o) \in Nat /\ Len(v) \in Nat
      /\ (\A i, j \in 1..Len(u) : i < j => u[i] < u[j])
      /\ (\A i, j \in 1..Len(o) : i < j => o[i] < o[j])
      /\ (\A i \in 1..Len(u) : u[i] \in S) /\ \A x \in S \cap (1..n) : \E i \in 1..Len(u) : u[i] = x
  BY <1>2, <1>4, <1>5 DEF Enumerates
<1> HIDE DEF L, M
<1> DEFINE x == [j \in 1..Len(v) |-> u[v[j]]]
<1>7. Enumerates(x, R)
  <2> DEFINE T == Places(w, p)
  <2>1. T \subseteq 1..Len(u) /\ \A i \in T : q[u[i]].arc = p
    BY <1>2 DEF Places
  <2>2. (\A i \in T : u[i] \in Nat) /\ \A i, j \in T : i < j => u[i] < u[j]
    BY <1>6, <2>1
  <2>3. x \in Seq(Nat) /\ Len(x) = Len(v) /\ \A j \in 1..Len(v) : x[j] = u[v[j]]
    BY <1>2, <1>4, <1>6
  <2>4. \A y : y \in R <=> \E i \in T : y = u[i]
    <3>1. ASSUME NEW i \in T PROVE u[i] \in R
      BY <1>2, <1>6, <2>1 DEF Places
    <3>2. ASSUME NEW y \in R PROVE \E i \in T : y = u[i]
      <4>1. y \in S \cap (1..n) /\ q[y].arc = p
        BY DEF Places
      <4>2. PICK i \in 1..Len(u) : u[i] = y
        BY <1>6, <4>1
      <4>3. i \in T
        BY <1>2, <4>1, <4>2 DEF Places
      <4> QED
        BY <4>2, <4>3
    <3> QED
      BY <3>1, <3>2
  <2> HIDE DEF x, R, T
  <2>5. Increasing(v, T, u, x, R)
    BY <2>2, <2>3, <2>4 DEF Increasing
  <2>6. Enumerates(v, T)
    BY <1>4 DEF T
  <2> QED
    BY <2>5, <2>6, EnumerationMapped
<1> DEFINE y == [j \in 1..(Len(o) - k) |-> o[j + k]]
<1>8. y \in Seq(Nat) /\ Len(y) = Len(o) - k /\ (\A j \in 1..Len(y) : j + k \in 1..Len(o) /\ y[j] = o[j + k])
  BY <1>6
<1>9. Enumerates(y, R)
  <2> HIDE DEF y
  <2>1. \A i, j \in 1..Len(y) : i < j => y[i] < y[j]
    <3>1. SUFFICES ASSUME NEW i \in 1..Len(y), NEW j \in 1..Len(y), i < j PROVE y[i] < y[j]
      OBVIOUS
    <3>2. i + k \in 1..Len(o) /\ j + k \in 1..Len(o) /\ i + k < j + k /\ y[i] = o[i + k] /\ y[j] = o[j + k]
      BY <1>8, <3>1
    <3> QED
      BY <1>6, <3>2
  <2>2. \A j \in 1..Len(y) : y[j] \in R
    <3>1. SUFFICES ASSUME NEW j \in 1..Len(y) PROVE y[j] \in R
      OBVIOUS
    <3>2. j + k \in 1..Len(o) /\ y[j] = o[j + k] /\ j + k > k
      BY <1>8, SMTT(30)
    <3>3. o[j + k] \in Places(q, p)
      BY <1>5, <3>2 DEF Places
    <3> QED
      BY <3>2, <3>3
  <2>3. ASSUME NEW z \in R PROVE \E j \in 1..Len(y) : y[j] = z
    <3>1. PICK i \in 1..Len(o) : o[i] = z
      BY <1>5 DEF Enumerates
    <3>2. i > k
      BY <3>1
    <3>3. i - k \in 1..Len(y) /\ (i - k) + k = i
      BY <1>6, <1>8, <3>2
    <3>4. y[i - k] = o[i]
      BY <1>8, <3>3
    <3> QED
      BY <3>1, <3>3, <3>4
  <2> QED
    BY <1>8, <2>1, <2>2, <2>3 DEF Enumerates
<1>10. Len(x) = Len(v) /\ \A j \in 1..Len(v) : x[j] = u[v[j]]
  BY <1>6
<1> HIDE DEF x, y, R
<1>11. x = y
  BY <1>7, <1>9, EnumerationIsUnique
<1>12. Len(M) = Len(o) - k
  BY <1>4, <1>8, <1>10, <1>11
<1>13. \A j \in 1..Len(M) : j + k \in 1..Len(L) /\ M[j] = L[j + k]
  <2>1. SUFFICES ASSUME NEW j \in 1..Len(M) PROVE j + k \in 1..Len(L) /\ M[j] = L[j + k]
    OBVIOUS
  <2>2. j + k \in 1..Len(o) /\ y[j] = o[j + k] /\ j \in 1..Len(v)
    BY <1>4, <1>8, <1>12
  <2>3. v[j] \in 1..Len(w) /\ M[j] = w[v[j]] /\ x[j] = u[v[j]]
    BY <1>4, <1>10, <2>2
  <2>4. M[j] = q[u[v[j]]]
    BY <1>2, <2>3
  <2>5. u[v[j]] = o[j + k] /\ L[j + k] = q[o[j + k]]
    BY <1>5, <1>11, <2>2, <2>3
  <2> QED
    BY <1>5, <2>2, <2>4, <2>5
<1> QED
  BY <1>4, <1>5, <1>12, <1>13 DEF Dropped, L, M, w

LEMMA TailDrops ==
  ASSUME NEW q \in Seq(EventSet), q # <<>>, NEW p
  PROVE  /\ Dropped(OnArc(q, p), IF Head(q).arc = p THEN 1 ELSE 0, OnArc(Tail(q), p))
         /\ Head(q).arc = p => 1 \in 1..Len(OnArc(q, p)) /\ OnArc(q, p)[1] = Head(q)
<1> DEFINE n == Len(q)
           w == Tail(q)
           S == 2..n
           u == [i \in 1..(n - 1) |-> i + 1]
<1>1. /\ w \in Seq(EventSet) /\ Len(w) = n - 1 /\ n \in Nat /\ n >= 1
      /\ (\A i \in 1..n - 1 : w[i] = q[i + 1]) /\ Head(q) = q[1]
  BY TailIs, HeadIs
<1>2. w = Kept(q, S)
  <2>1. PICK v : KeptAlong(EventSet, q, S, v)
    BY KeptIs
  <2>2. S \cap (1..n) = S
    BY <1>1
  <2>3. u \in Seq(Nat) /\ Len(u) = n - 1 /\ \A i \in 1..(n - 1) : u[i] = i + 1
    BY <1>1
  <2>4. Enumerates(v, S)
    BY <2>1, <2>2 DEF KeptAlong
  <2>5. Enumerates(u, S)
    <3> HIDE DEF u
    <3>1. \A i \in 1..(n - 1) : u[i] \in S
      BY <1>1, <2>3
    <3>2. \A x \in S : x - 1 \in 1..(n - 1) /\ u[x - 1] = x
      BY <1>1, <2>3
    <3>3. \A i, j \in 1..(n - 1) : i < j => u[i] < u[j]
      BY <1>1, <2>3
    <3> HIDE DEF n, S
    <3> QED
      BY <2>3, <3>1, <3>2, <3>3 DEF Enumerates
  <2> DEFINE r == Kept(q, S)
  <2>6. r \in Seq(EventSet) /\ Len(r) = Len(v) /\ \A i \in 1..Len(v) : r[i] = q[v[i]]
    BY <2>1 DEF KeptAlong
  <2> HIDE DEF u, S, r, w, n
  <2>7. v = u
    BY <2>4, <2>5, EnumerationIsUnique
  <2>8. Len(r) = n - 1 /\ \A i \in 1..(n - 1) : r[i] = w[i]
    BY <1>1, <2>3, <2>6, <2>7
  <2> QED
    BY <1>1, <2>6, <2>8, SequencesEqual DEF r
<1>3. PICK o : AlongArc(q, p, o)
  BY OnArcIs
<1>4. /\ Enumerates(o, Places(q, p)) /\ Len(OnArc(q, p)) = Len(o)
      /\ \A i \in 1..Len(o) : o[i] \in 1..n /\ OnArc(q, p)[i] = q[o[i]] /\ q[o[i]].arc = p
  BY <1>3 DEF AlongArc
<1>5. /\ o \in Seq(Nat) /\ Len(o) \in Nat /\ (\A i, j \in 1..Len(o) : i < j => o[i] < o[j])
      /\ \A x \in Places(q, p) : \E i \in 1..Len(o) : o[i] = x
  BY <1>4 DEF Enumerates
<1> HIDE DEF w, u
<1>6. CASE Head(q).arc = p
  <2>1. 1 \in Places(q, p)
    BY <1>1, <1>6 DEF Places
  <2>2. PICK i \in 1..Len(o) : o[i] = 1
    BY <1>5, <2>1
  <2>3. 1 \in 1..Len(o) /\ o[1] = 1
    BY <1>1, <1>4, <1>5, <2>2
  <2>4. \A j \in 1..Len(o) : o[j] \in S <=> j > 1
    <3>1. SUFFICES ASSUME NEW j \in 1..Len(o) PROVE o[j] \in S <=> j > 1
      OBVIOUS
    <3>2. o[j] \in 1..n /\ (j > 1 => o[j] > 1)
      BY <1>4, <1>5, <2>3
    <3> QED
      BY <1>1, <2>3, <3>2
  <2> HIDE DEF S
  <2>5. 1 \in 0..Len(o)
    BY <1>5, <2>3
  <2>6. Dropped(OnArc(q, p), 1, OnArc(Kept(q, S), p))
    BY <1>3, <2>4, <2>5, KeptDrops
  <2>7. Dropped(OnArc(q, p), 1, OnArc(Tail(q), p))
    BY <1>2, <2>6 DEF w
  <2>8. 1 \in 1..Len(OnArc(q, p)) /\ OnArc(q, p)[1] = Head(q)
    BY <1>1, <1>4, <2>3
  <2> QED
    BY <1>6, <2>7, <2>8
<1>7. CASE Head(q).arc # p
  <2>1. \A j \in 1..Len(o) : o[j] \in S <=> j > 0
    <3>1. \A j \in 1..Len(o) : o[j] \in 1..n /\ o[j] # 1
      BY <1>1, <1>4, <1>7
    <3> QED
      BY <1>1, <1>5, <3>1
  <2>2. 0 \in 0..Len(o)
    BY <1>5
  <2> HIDE DEF S
  <2>3. Dropped(OnArc(q, p), 0, OnArc(Kept(q, S), p))
    BY <1>3, <2>1, <2>2, KeptDrops
  <2>4. Dropped(OnArc(q, p), 0, OnArc(Tail(q), p))
    BY <1>2, <2>3 DEF w
  <2> QED
    BY <1>7, <2>4
<1> QED
  BY <1>6, <1>7

\* The events are simultaneous, and those of their arcs in q are no later.
Follow(q, events) ==
    /\ \A i, j \in 1..Len(events) : events[i].level = events[j].level
    /\ \A i \in 1..Len(q), j \in 1..Len(events) : q[i].arc = events[j].arc => q[i].level <= events[j].level

\* An event pushed behind the others of its arc.
LEMMA PushOnArc ==
  ASSUME Configured, NEW q, InOrder(q), NEW e \in EventSet, e.fine = depth[e.arc], NEW p,
         \A i \in 1..Len(q) : q[i].arc = e.arc => q[i].level <= e.level
  PROVE  OnArc(Push(q, e), p) = IF e.arc = p THEN Append(OnArc(q, p), e) ELSE OnArc(q, p)
<1>1. q \in Seq(EventSet) /\ \A i \in 1..Len(q) : q[i].fine = depth[q[i].arc]
  BY DEF InOrder
<1> DEFINE r == Push(q, e)
<1>2. PICK n : Pushed(q, e, n, r)
  BY <1>1, PushIs
<1> HIDE DEF r
<1>3. \A i \in n..Len(q) : Earlier(e, q[i])
  BY <1>2, PushKeepsOrder
<1>4. n \in 1..(Len(q) + 1) /\ Len(q) \in Nat
  BY <1>1, <1>2 DEF Pushed
<1>5. ASSUME NEW i \in n..Len(q), q[i].arc = e.arc PROVE FALSE
  <2> DEFINE y == q[i]
  <2>1. i \in 1..Len(q)
    BY <1>4
  <2>2. y \in EventSet /\ y.fine = e.fine /\ y.level <= e.level /\ Earlier(e, y) /\ e.arc = y.arc
    BY <1>1, <1>3, <1>5, <2>1
  <2> HIDE DEF y
  <2>3. e.level < y.level
    BY <2>2, EarlierIs
  <2> QED
    BY <2>2, <2>3 DEF EventSet
<1>6. \A i \in n..Len(q) : q[i].arc # e.arc
  BY <1>5
<1>7. OnArc(r, p) = IF e.arc = p THEN Append(OnArc(q, p), e) ELSE OnArc(q, p)
  BY <1>1, <1>2, <1>6, OnArcInserted
<1> QED
  BY <1>7 DEF r

LEMMA OnArcNone ==
  ASSUME NEW p
  PROVE  OnArc(<<>>, p) = <<>>
<1>1. OnArc(<<>>, p) = Kept(<<>>, {i \in DOMAIN <<>> : <<>>[i].arc = p})
  BY DEF OnArc
<1> DEFINE S == {i \in DOMAIN <<>> : <<>>[i].arc = p}
<1> HIDE DEF S
<1>2. Kept(<<>>, S) = <<>>
  BY KeptNone
<1> QED
  BY <1>1, <1>2 DEF S

LEMMA PushesOnArc ==
  ASSUME Configured, NEW q, InOrder(q), NEW events, Deep(events), Follow(q, events),
         NEW f, Pushes(q, events, f), NEW p
  PROVE  OnArc(f[Len(events)], p) = OnArc(q, p) \o OnArc(events, p)
<1> DEFINE n == Len(events)
           A == OnArc(q, p)
           B(i) == OnArc(SubSeq(events, 1, i), p)
           Good(i) == OnArc(f[i], p) = A \o B(i)
           T == {i \in 0..n : ~Good(i)}
<1>1. /\ f[0] = q /\ (\A i \in 1..n : f[i] = Push(f[i - 1], events[i]))
      /\ \A i \in 0..n : f[i] \in Seq(EventSet)
  BY DEF Pushes
<1>2. /\ n \in Nat /\ events \in Seq(EventSet) /\ q \in Seq(EventSet)
      /\ \A i \in 1..n : events[i] \in EventSet /\ events[i].fine = depth[events[i].arc]
  BY DEF Deep, InOrder
<1>3. \A r \in Seq(EventSet) : OnArc(r, p) \in Seq(EventSet)
  BY OnArcIs DEF AlongArc
<1>4. A \in Seq(EventSet)
  BY <1>2, <1>3
<1> HIDE DEF A
<1>5. Good(0)
  <2>1. SubSeq(events, 1, 0) = <<>>
    BY <1>2
  <2>2. B(0) = <<>>
    BY <2>1, OnArcNone
  <2>3. A \o <<>> = A
    BY <1>4
  <2> QED
    BY <1>1, <2>2, <2>3 DEF A
<1>6. \A i \in 1..n : Good(i - 1) => Good(i)
  <2>1. SUFFICES ASSUME NEW i \in 1..n, Good(i - 1) PROVE Good(i)
    OBVIOUS
  <2> DEFINE w == f[i - 1]
             e == events[i]
             s == SubSeq(events, 1, i - 1)
  <2>2. i - 1 \in 0..n /\ e \in EventSet /\ e.fine = depth[e.arc] /\ f[i] = Push(w, e)
    BY <1>1, <1>2
  <2>3. InOrder(w) /\ \A y : Has(w, y) <=> Has(q, y) \/ \E j \in 1..(i - 1) : events[j] = y
    <3> DEFINE k == i - 1
    <3>1. k \in 0..Len(events)
      BY <2>2
    <3> HIDE DEF k
    <3>2. InOrder(f[k]) /\ \A y : Has(f[k], y) <=> Has(q, y) \/ \E j \in 1..k : events[j] = y
      BY <3>1, PushesKeepOrder
    <3> QED
      BY <3>2 DEF k
  <2>4. SubSeq(events, 1, i) = Append(s, e) /\ s \in Seq(EventSet)
    BY <1>2, PrefixStep
  <2> HIDE DEF w, e, s
  <2>5. ASSUME NEW j \in 1..Len(w), w[j].arc = e.arc PROVE w[j].level <= e.level
    <3>1. Has(w, w[j])
      BY DEF Has
    <3>2. CASE Has(q, w[j])
      <4>1. PICK k \in 1..Len(q) : q[k] = w[j]
        BY <3>2 DEF Has
      <4> QED
        BY <2>5, <4>1 DEF Follow, e
    <3>3. CASE \E k \in 1..(i - 1) : events[k] = w[j]
      <4>1. PICK k \in 1..(i - 1) : events[k] = w[j]
        BY <3>3
      <4>2. k \in 1..n
        BY <1>2, <2>2
      <4>3. w[j].level = e.level
        BY <4>1, <4>2 DEF Follow, e
      <4>4. e.level \in Nat
        BY <2>2 DEF EventSet
      <4> QED
        BY <4>3, <4>4
    <3> QED
      BY <2>3, <3>1, <3>2, <3>3
  <2>6. OnArc(Push(w, e), p) = IF e.arc = p THEN Append(OnArc(w, p), e) ELSE OnArc(w, p)
    BY <2>2, <2>3, <2>5, PushOnArc
  <2>7. OnArc(Append(s, e), p) = IF e.arc = p THEN Append(OnArc(s, p), e) ELSE OnArc(s, p)
    BY <2>2, <2>4, OnArcAppended
  <2> DEFINE b == OnArc(s, p)
  <2>8. OnArc(w, p) = A \o b
    BY <2>1 DEF w, s
  <2>9. b \in Seq(EventSet)
    BY <1>3, <2>4
  <2> HIDE DEF b
  <2>10. A \o Append(b, e) = Append(A \o b, e)
    BY <1>4, <2>2, <2>9, ConcatenateAppended
  <2>11. OnArc(f[i], p) = A \o OnArc(Append(s, e), p)
    BY <2>2, <2>6, <2>7, <2>8, <2>10 DEF b
  <2> QED
    BY <2>4, <2>11
<1> HIDE DEF Good
<1>7. T = {}
  <2>1. SUFFICES ASSUME T # {} PROVE FALSE
    OBVIOUS
  <2>2. PICK i \in T : \A j \in T : i <= j
    <3>1. T \subseteq Nat
      OBVIOUS
    <3> HIDE DEF T
    <3> QED
      BY <2>1, <3>1, SmallestOne
  <2>3. i # 0
    BY <1>5, <2>2
  <2>4. i \in 1..n /\ i - 1 \in 0..n /\ ~(i <= i - 1)
    BY <1>2, <2>2, <2>3
  <2>5. Good(i - 1)
    BY <2>2, <2>4
  <2>6. Good(i)
    BY <1>6, <2>4, <2>5
  <2> QED
    BY <2>2, <2>6
<1>8. Good(n)
  BY <1>2, <1>7
<1>9. SubSeq(events, 1, n) = events
  BY <1>2
<1> QED
  BY <1>8, <1>9 DEF Good, A

\* What Send does to the events of an arc, and to what was sent along it.
LEMMA SendOnArc ==
  ASSUME Configured, NEW q, InOrder(q), NEW events, Deep(events), Follow(q, events),
         Send(events, q), NEW p
  PROVE  OnArc(queue', p) = OnArc(q, p) \o OnArc(events, p)
<1>1. q \in Seq(EventSet) /\ events \in Seq(EventSet)
  BY DEF InOrder, Deep
<1>2. PICK f : Pushes(q, events, f) /\ queue' = f[Len(events)]
  BY <1>1, SendIs
<1> QED
  BY <1>2, PushesOnArc

-----------------------------------------------------------------------------
(* What a firing takes of the events of an arc *)

\* All inputs of the star are as deep.
EvenStar(s) == \A p, q \in ToSet(galaxy.in[s]) : depth[p] = depth[q]

\* The first c of the places o of arc p are those of simultaneous events.
FirstOf(q, s, t, p, o, c) ==
    /\ c \in 0..Len(o) /\ \A i \in 1..Len(o) : o[i] \in Simultaneous(q, s, t) <=> i <= c
    /\ DestOf(galaxy, p) # s => c = 0
    /\ \A i \in 1..c : q[o[i]].level <= t

LEMMA SimultaneousAreFirst ==
  ASSUME NEW q \in Seq(EventSet), NEW s, NEW t, NEW p, NEW o, AlongArc(q, p, o)
  PROVE  \E c : FirstOf(q, s, t, p, o, c)
<1> DEFINE sim == Simultaneous(q, s, t)
           T == {0} \cup {i \in 1..Len(o) : o[i] \in sim}
<1>1. /\ Enumerates(o, Places(q, p)) /\ \A i \in 1..Len(o) : o[i] \in 1..Len(q) /\ q[o[i]].arc = p
  BY DEF AlongArc
<1>2. o \in Seq(Nat) /\ Len(o) \in Nat /\ (\A i, j \in 1..Len(o) : i < j => o[i] < o[j])
  BY <1>1 DEF Enumerates
<1>3. \A x \in sim : /\ x \in 1..Len(q) /\ DestOf(galaxy, q[x].arc) = s /\ q[x].level <= t
                     /\ \A y \in 1..x : DestOf(galaxy, q[y].arc) = s => y \in sim
  <2>1. CASE scheduler = "DE"
    <3>1. sim = {i \in 1..Len(q) : DestOf(galaxy, q[i].arc) = s /\ \A j \in 1..i : q[j].level <= t}
      BY <2>1 DEF Simultaneous, Dest
    <3> HIDE DEF sim
    <3> QED
      BY <3>1
  <2>2. CASE scheduler # "DE"
    <3>1. sim = {i \in 1..Len(q) : \A j \in 1..i : q[j].level <= t /\ DestOf(galaxy, q[j].arc) = s}
      BY <2>2 DEF Simultaneous, Dest
    <3> HIDE DEF sim
    <3> QED
      BY <3>1
  <2> QED
    BY <2>1, <2>2
<1> HIDE DEF sim
<1>4. T \subseteq 0..Len(o) /\ T # {}
  BY <1>2
<1>5. PICK c \in T : \A y \in T : y <= c
  <2> HIDE DEF T
  <2>1. Max(T) \in T /\ \A y \in T : y <= Max(T)
    BY <1>2, <1>4, LargestOne
  <2> QED
    BY <2>1
<1>6. ASSUME NEW i \in 1..Len(o) PROVE o[i] \in sim <=> i <= c
  <2>1. o[i] \in sim => i <= c
    BY <1>5
  <2>2. ASSUME i <= c PROVE o[i] \in sim
    <3>1. c \in 1..Len(o) /\ o[c] \in sim
      BY <1>2, <1>5, <2>2
    <3>2. o[i] <= o[c] /\ o[i] \in 1..Len(q) /\ o[c] \in 1..Len(q)
      BY <1>1, <1>2, <2>2, <3>1
    <3>3. o[i] \in 1..o[c]
      BY <3>2
    <3>4. q[o[i]].arc = p /\ q[o[c]].arc = p
      BY <1>1, <3>1
    <3> QED
      BY <1>3, <3>1, <3>3, <3>4
  <2> QED
    BY <2>1, <2>2
<1>7. c \in 0..Len(o)
  BY <1>4, <1>5
<1>8. ASSUME DestOf(galaxy, p) # s PROVE c = 0
  <2>1. SUFFICES ASSUME c # 0 PROVE FALSE
    OBVIOUS
  <2>2. c \in 1..Len(o) /\ o[c] \in sim
    BY <1>5, <1>7, <2>1
  <2> QED
    BY <1>1, <1>3, <1>8, <2>2
<1>9. \A i \in 1..c : q[o[i]].level <= t
  <2>1. SUFFICES ASSUME NEW i \in 1..c PROVE q[o[i]].level <= t
    OBVIOUS
  <2>2. i \in 1..Len(o) /\ i <= c
    BY <1>7
  <2> QED
    BY <1>3, <1>6, <2>2
<1> QED
  BY <1>6, <1>7, <1>8, <1>9 DEF FirstOf, sim

\* At inputs that are as deep, the simultaneous events are all together.
LEMMA SimultaneousAreAll ==
  ASSUME Configured, NEW e \in EventSet, NEW q, InOrder(q), e.fine = depth[e.arc],
         \A i \in 1..Len(q) : ~Earlier(q[i], e),
         NEW p, NEW o, AlongArc(q, p, o), NEW s, s = Dest(e), s = DestOf(galaxy, p), EvenStar(s),
         p \in Arcs(galaxy), NEW c, FirstOf(q, s, e.level, p, o, c), NEW i \in 1..Len(o), i > c
  PROVE  q[o[i]].level > e.level
<1> DEFINE y == q[o[i]]
           n == Len(q)
           x == o[i]
<1>1. q \in Seq(EventSet) /\ (\A j \in 1..n : q[j].fine = depth[q[j].arc])
      /\ \A j, k \in 1..n : j < k => ~Earlier(q[k], q[j])
  BY DEF InOrder
<1>2. x \in 1..n /\ y.arc = p /\ o[i] \notin Simultaneous(q, s, e.level)
  BY DEF AlongArc, FirstOf
<1>3. y \in EventSet /\ y.fine = depth[p] /\ Dest(y) = s
  BY <1>1, <1>2 DEF Dest
<1>4. y.fine = e.fine
  <2>1. e.arc \in Arcs(galaxy)
    BY DEF EventSet
  <2> DEFINE a == e.arc
  <2>2. a \in Arcs(galaxy) /\ DestOf(galaxy, a) = s
    BY <2>1 DEF Dest
  <2> HIDE DEF a
  <2>3. a \in ToSet(galaxy.in[s]) /\ p \in ToSet(galaxy.in[s])
    BY <2>2, ArcIs
  <2> QED
    BY <1>3, <2>3 DEF EvenStar, a
<1>5. SUFFICES ASSUME ~(y.level > e.level) PROVE FALSE
  OBVIOUS
<1>6. \A z \in EventSet : z.level \in Nat /\ z.fine \in Int
  BY DEF EventSet
<1> HIDE DEF y
<1>7. ASSUME NEW j \in 1..x
      PROVE  q[j].level <= e.level /\ (scheduler = "CQ" => Dest(q[j]) = s)
  <2> DEFINE z == q[j]
  <2>1. j \in 1..n /\ z \in EventSet /\ ~Earlier(z, e)
    BY <1>1, <1>2
  <2>2. ~Earlier(y, z)
    <3>1. CASE j < x
      BY <1>1, <1>2, <2>1, <3>1 DEF y
    <3>2. CASE j = x
      <4>1. z = y
        BY <3>2 DEF y
      <4> QED
        BY <2>1, <4>1, EarlierIs
    <3> QED
      BY <1>2, <3>1, <3>2
  <2> HIDE DEF z
  <2>3. z.level <= y.level /\ (z.level = y.level => z.fine <= y.fine)
    BY <1>3, <2>1, <2>2, EarlierIs
  <2>4. e.level <= z.level /\ (e.level = z.level => e.fine <= z.fine)
    BY <2>1, EarlierIs
  <2>5. z.level = e.level /\ y.level = e.level /\ z.fine = e.fine
    <3>1. /\ z.level \in Nat /\ z.fine \in Int /\ y.level \in Nat /\ y.fine \in Int
          /\ e.level \in Nat /\ e.fine \in Int
      BY <1>3, <1>6, <2>1
    <3> QED
      BY <1>4, <1>5, <2>3, <2>4, <3>1
  <2>6. ASSUME scheduler = "CQ" PROVE Dest(z) = s
    <3>1. ~(address[Dest(z)] < address[Dest(e)])
      BY <2>1, <2>5, <2>6 DEF Earlier
    <3>2. ~(address[Dest(y)] < address[Dest(z)])
      BY <1>4, <2>2, <2>5, <2>6 DEF Earlier
    <3>3. Dest(z) \in Stars(galaxy) /\ Dest(e) \in Stars(galaxy) /\ address[Dest(z)] \in Int /\ address[Dest(e)] \in Int
      BY <2>1, EventIs
    <3>4. address[Dest(z)] = address[Dest(e)]
      BY <1>3, <3>1, <3>2, <3>3
    <3> QED
      BY <3>3, <3>4 DEF Configured
  <2> QED
    BY <1>6, <2>5, <2>6 DEF z
<1>8. scheduler \in {"DE", "CQ"}
  BY DEF Configured
<1>9. x \in Simultaneous(q, s, e.level)
  <2>1. CASE scheduler = "DE"
    <3>1. Dest(q[x]) = s /\ x \in DOMAIN q
      BY <1>1, <1>2, <1>3 DEF y
    <3> QED
      BY <1>7, <2>1, <3>1 DEF Simultaneous
  <2>2. CASE scheduler = "CQ"
    <3>1. x \in DOMAIN q
      BY <1>1, <1>2
    <3> QED
      BY <1>7, <2>2, <3>1 DEF Simultaneous
  <2> QED
    BY <1>8, <2>1, <2>2
<1> QED
  BY <1>2, <1>9

\* What the offers up to place k make of a port that was u, at the arc with the
\* places o of which c are offered, when d of them are behind.
PortFilled(q, o, c, u, v, left, k, d) ==
    /\ d \in 0..c /\ \A i \in 1..c : o[i] <= k <=> i <= d
    /\ v.more = u.more + d /\ v.new = (u.new \/ d > 0)
    /\ v.val = IF d = 0 \/ u.more > 0 THEN u.val ELSE q[o[1]].val
    /\ d = 0 => v = u
    /\ \A i \in 1..Len(o) : o[i] \in left <=> ~(i = 1 /\ d > 0 /\ u.more = 0)

\* The first c of the events of arc p in q are offered to star s at time t.
Offering(q, p, o, s, t, c) ==
    /\ q \in Seq(EventSet) /\ p \in Arcs(galaxy) /\ AlongArc(q, p, o)
    /\ FirstOf(q, s, t, p, o, c) /\ (c > 0 => ~Phase(s))

\* Port b is port u with one more event, of value v.
OneMore(b, u, v) ==
    b \in PortSet /\ b.new /\ b.more = u.more + 1 /\ b.val = IF u.more = 0 THEN v ELSE u.val

LEMMA PortTakes ==
  ASSUME NEW s, ~Phase(s), NEW u \in PortSet, NEW v \in Int
  PROVE  OneMore(GetFromQueue(s, u, v), u, v)
<1> DEFINE g == GetFromQueue(s, u, v)
<1>1. /\ g \in PortSet /\ g.new
      /\ ~Phase(s) => g.more = u.more + 1 /\ g.val = IF u.more = 0 THEN v ELSE u.val
  BY GetFromQueueIs
<1> HIDE DEF g
<1> QED
  BY <1>1 DEF OneMore, g

LEMMA OfferOnArc ==
  ASSUME NEW q, NEW p, NEW o, NEW s, NEW t, NEW c, Offering(q, p, o, s, t, c), NEW u \in PortSet,
         NEW k \in 1..Len(q), NEW acc \in Offered(q), NEW r, OfferStep(q, s, Simultaneous(q, s, t), k, acc, r),
         NEW d, PortFilled(q, o, c, u, acc.ports[p], acc.left, k - 1, d)
  PROVE  \E e : PortFilled(q, o, c, u, r.ports[p], r.left, k, e)
<1> DEFINE sim == Simultaneous(q, s, t)
           a == acc.ports[p]
           b == r.ports[p]
<1>1. /\ q \in Seq(EventSet) /\ p \in Arcs(galaxy) /\ AlongArc(q, p, o)
      /\ FirstOf(q, s, t, p, o, c) /\ (c > 0 => ~Phase(s))
  BY DEF Offering
<1>2. /\ Enumerates(o, Places(q, p)) /\ o \in Seq(Nat) /\ (\A i, j \in 1..Len(o) : i < j => o[i] < o[j])
      /\ (\A i \in 1..Len(o) : o[i] \in 1..Len(q) /\ q[o[i]].arc = p)
      /\ \A x \in 1..Len(q) : q[x].arc = p => \E i \in 1..Len(o) : o[i] = x
  BY <1>1 DEF AlongArc, Enumerates, Places
<1>3. c \in 0..Len(o) /\ \A i \in 1..Len(o) : o[i] \in sim <=> i <= c
  BY <1>1 DEF FirstOf
<1>4. /\ d \in 0..c /\ (\A i \in 1..c : o[i] <= k - 1 <=> i <= d)
      /\ a.more = u.more + d /\ a.new = (u.new \/ d > 0)
      /\ a.val = (IF d = 0 \/ u.more > 0 THEN u.val ELSE q[o[1]].val)
      /\ (d = 0 => a = u)
      /\ \A i \in 1..Len(o) : o[i] \in acc.left <=> ~(i = 1 /\ d > 0 /\ u.more = 0)
  BY DEF PortFilled
<1>5. /\ r \in Offered(q) /\ (~(k \in sim /\ q[k].arc = p) => b = a)
      /\ (k \notin sim => r.left = acc.left)
      /\ k \in sim => /\ r.ports[q[k].arc] = GetFromQueue(s, acc.ports[q[k].arc], q[k].val)
                      /\ r.left = IF Accepts(s, acc.ports[q[k].arc]) THEN acc.left \ {k} ELSE acc.left
  BY <1>1 DEF OfferStep
<1>6. a \in PortSet /\ u.more \in Nat /\ u.new \in BOOLEAN /\ k \in Nat
  <2>1. acc.ports \in [Arcs(galaxy) -> PortSet]
    BY DEF Offered, PortsSet
  <2> QED
    BY <1>1, <2>1 DEF PortSet
<1> HIDE DEF a, b, sim
<1>7. CASE ~(k \in sim /\ q[k].arc = p)
  <2>1. \A i \in 1..Len(o) : o[i] \in sim => o[i] # k
    BY <1>2, <1>7
  <2>2. \A i \in 1..c : i \in 1..Len(o) /\ o[i] \in Nat /\ o[i] # k
    BY <1>2, <1>3, <2>1
  <2>3. \A i \in 1..c : o[i] <= k <=> i <= d
    BY <1>4, <1>6, <2>2
  <2>4. b = a
    BY <1>5, <1>7
  <2>5. \A i \in 1..Len(o) : o[i] \in r.left <=> o[i] \in acc.left
    <3>1. CASE k \notin sim
      BY <1>5, <3>1
    <3>2. CASE k \in sim
      <4>1. \A i \in 1..Len(o) : o[i] # k
        BY <1>2, <1>7, <3>2
      <4>2. r.left = acc.left \ {k} \/ r.left = acc.left
        BY <1>5, <3>2
      <4> QED
        BY <4>1, <4>2
    <3> QED
      BY <3>1, <3>2
  <2>6. PortFilled(q, o, c, u, b, r.left, k, d)
    BY <1>4, <2>3, <2>4, <2>5 DEF PortFilled
  <2> QED
    BY <2>6 DEF b
<1>8. CASE k \in sim /\ q[k].arc = p
  <2>1. PICK j \in 1..Len(o) : o[j] = k
    BY <1>2, <1>8
  <2>2. j <= c /\ j \in 1..c /\ c > 0 /\ ~Phase(s)
    <3>1. c > 0 => ~Phase(s)
      BY <1>1
    <3>2. j <= c
      BY <1>3, <1>8, <2>1
    <3> QED
      BY <1>3, <3>1, <3>2
  <2>3. j > d
    BY <1>4, <1>6, <2>1, <2>2
  <2>4. j = d + 1
    <3>1. SUFFICES ASSUME j > d + 1 PROVE FALSE
      BY <1>4, <2>2, <2>3
    <3>2. d + 1 \in 1..c /\ d + 1 \in 1..Len(o) /\ d + 1 < j
      BY <1>3, <1>4, <2>2, <3>1
    <3>3. o[d + 1] < k /\ o[d + 1] \in Nat
      BY <1>2, <2>1, <3>2
    <3>4. o[d + 1] <= k - 1
      BY <1>6, <3>3
    <3>5. d + 1 <= d
      BY <1>4, <3>2, <3>4
    <3> QED
      BY <1>4, <3>5
  <2>5. \A i \in 1..c : o[i] <= k <=> i <= j
    <3>1. SUFFICES ASSUME NEW i \in 1..c PROVE o[i] <= k <=> i <= j
      OBVIOUS
    <3>2. i \in 1..Len(o) /\ o[i] \in Nat
      BY <1>2, <1>3
    <3>3. (i < j => o[i] < k) /\ (j < i => k < o[i]) /\ (i = j => o[i] = k)
      BY <1>2, <2>1, <3>2
    <3> QED
      BY <1>6, <2>2, <3>2, <3>3
  <2>6. /\ b = GetFromQueue(s, a, q[k].val)
        /\ r.left = IF Accepts(s, a) THEN acc.left \ {k} ELSE acc.left
    BY <1>5, <1>8 DEF a, b
  <2>7. q[k].val \in Int
    <3>1. q[k] \in EventSet
      BY <1>1
    <3> QED
      BY <3>1 DEF EventSet
  <2>8. b.new /\ b \in PortSet /\ b.more = a.more + 1 /\ b.val = IF a.more = 0 THEN q[k].val ELSE a.val
    <3> DEFINE w == q[k].val
    <3>1. w \in Int /\ b = GetFromQueue(s, a, w) /\ ~Phase(s) /\ a \in PortSet
      BY <1>6, <2>2, <2>6, <2>7
    <3> HIDE DEF w
    <3>2. OneMore(b, a, w)
      BY <3>1, PortTakes
    <3> QED
      BY <3>2 DEF w, OneMore
  <2>9. Accepts(s, a) <=> d = 0 /\ u.more = 0
    <3>1. Accepts(s, a) <=> a.more = 0
      BY <2>2 DEF Accepts
    <3> QED
      BY <1>4, <1>6, <3>1
  <2>10. \A i \in 1..Len(o) : o[i] \in r.left <=> ~(i = 1 /\ u.more = 0)
    <3>1. CASE d = 0 /\ u.more = 0
      <4>1. r.left = acc.left \ {k} /\ j = 1
        BY <2>4, <2>6, <2>9, <3>1
      <4>2. \A i \in 1..Len(o) : o[i] \in acc.left
        BY <1>4, <3>1
      <4>3. \A i \in 1..Len(o) : o[i] = k <=> i = 1
        <5>1. 1 \in 1..Len(o) /\ o[1] = k
          BY <2>1, <4>1
        <5>2. \A i \in 1..Len(o) : i # 1 => o[1] < o[i]
          BY <1>2, <5>1
        <5> QED
          BY <1>6, <5>1, <5>2
      <4> QED
        BY <3>1, <4>1, <4>2, <4>3
    <3>2. CASE ~(d = 0 /\ u.more = 0)
      <4>1. r.left = acc.left
        BY <2>6, <2>9, <3>2
      <4>2. d > 0 \/ u.more # 0
        BY <1>4, <3>2
      <4> QED
        BY <1>4, <4>1, <4>2
    <3> QED
      BY <3>1, <3>2
  <2>11. b.val = IF u.more > 0 THEN u.val ELSE q[o[1]].val
    <3>1. CASE a.more = 0
      <4>1. d = 0 /\ u.more = 0 /\ j = 1
        BY <1>4, <1>6, <2>4, <3>1
      <4> QED
        BY <2>1, <2>8, <3>1, <4>1
    <3>2. CASE a.more # 0
      <4>1. d # 0 \/ u.more > 0
        BY <1>4, <1>6, <3>2
      <4> QED
        BY <1>4, <2>8, <3>2, <4>1
    <3> QED
      BY <3>1, <3>2
  <2>12. PortFilled(q, o, c, u, b, r.left, k, j)
    <3>1. j \in 0..c /\ j > 0 /\ b.more = u.more + j /\ b.new = (u.new \/ j > 0)
      <4>1. j \in 0..c /\ j > 0
        BY <2>2
      <4>2. b.more = u.more + j
        <5>1. d \in Nat
          BY <1>3, <1>4
        <5>2. a.more = u.more + d
          BY <1>4
        <5>3. b.more = a.more + 1
          BY <2>8
        <5> QED
          BY <1>6, <2>4, <5>1, <5>2, <5>3
      <4>3. b.new = TRUE
        BY <2>8 DEF PortSet
      <4> QED
        BY <4>1, <4>2, <4>3
    <3>2. b.val = IF j = 0 \/ u.more > 0 THEN u.val ELSE q[o[1]].val
      BY <2>11, <3>1
    <3>3. \A i \in 1..Len(o) : o[i] \in r.left <=> ~(i = 1 /\ j > 0 /\ u.more = 0)
      BY <2>10, <3>1
    <3>4. j = 0 => b = u
      BY <3>1
    <3> QED
      BY <2>5, <3>1, <3>2, <3>3, <3>4 DEF PortFilled
  <2> QED
    BY <2>12 DEF b
<1> QED
  BY <1>7, <1>8

LEMMA GatherOnArc ==
  ASSUME NEW q \in Seq(EventSet), NEW s, NEW t, NEW ports \in PortsSet, NEW p \in Arcs(galaxy),
         NEW o, AlongArc(q, p, o), NEW c, FirstOf(q, s, t, p, o, c), c > 0 => ~Phase(s),
         NEW g, g = Gather(q, s, t, ports)
  PROVE  PortFilled(q, o, c, ports[p], g.ports[p], g.left, Len(q), c)
<1> DEFINE n == Len(q)
           sim == Simultaneous(q, s, t)
           u == ports[p]
<1>1. Offering(q, p, o, s, t, c)
  BY DEF Offering
<1>2. PICK f : Offers(q, s, sim, ports, f) /\ g = f[n]
  BY OffersExist
<1>3. n \in Nat /\ n \in 0..n /\ c \in 0..Len(o)
  BY DEF FirstOf
<1>4. u \in PortSet /\ u.more \in Nat /\ u.new \in BOOLEAN
  <2>1. ports \in [Arcs(galaxy) -> PortSet]
    BY DEF PortsSet
  <2>2. u \in PortSet
    BY <2>1
  <2> HIDE DEF u
  <2> QED
    BY <2>2 DEF PortSet
<1>5. \A i \in 1..Len(o) : o[i] \in 1..n /\ o[i] \in Nat
  BY DEF AlongArc
<1> DEFINE Good(k) == \E d : PortFilled(q, o, c, u, f[k].ports[p], f[k].left, k, d)
           T == {k \in 0..n : ~Good(k)}
<1>6. Good(0)
  <2>1. f[0].ports[p] = u /\ f[0].left = 1..n
    BY <1>2 DEF Offers
  <2>2. \A i \in 1..c : o[i] <= 0 <=> i <= 0
    BY <1>3, <1>5
  <2>3. \A i \in 1..Len(o) : o[i] \in f[0].left
    BY <1>5, <2>1
  <2> DEFINE v == f[0].ports[p]
             left == f[0].left
  <2>4. v = u /\ \A i \in 1..Len(o) : o[i] \in left
    BY <2>1, <2>3
  <2> HIDE DEF u, v, left
  <2>5. PortFilled(q, o, c, u, v, left, 0, 0)
    <3>1. 0 \in 0..c /\ ~(0 > 0) /\ u.more + 0 = u.more
      BY <1>3, <1>4
    <3>2. v.new = (u.new \/ FALSE)
      BY <1>4, <2>4
    <3> QED
      BY <2>2, <2>4, <3>1, <3>2 DEF PortFilled
  <2> QED
    BY <2>5 DEF v, left
<1>7. \A k \in 1..n : Good(k - 1) => Good(k)
  <2>1. SUFFICES ASSUME NEW k \in 1..n, Good(k - 1) PROVE Good(k)
    OBVIOUS
  <2> DEFINE acc == f[k - 1]
             r == f[k]
  <2>2. acc \in Offered(q) /\ r = OfferTo(q, s, sim, k, acc)
    <3>1. k - 1 \in 0..n
      BY <1>3
    <3> QED
      BY <1>2, <3>1 DEF Offers
  <2>3. PICK d : PortFilled(q, o, c, u, acc.ports[p], acc.left, k - 1, d)
    BY <2>1
  <2>4. sim = Simultaneous(q, s, t) /\ k \in 1..Len(q)
    OBVIOUS
  <2> HIDE DEF acc, r, Good, u
  <2>5. OfferStep(q, s, sim, k, acc, r)
    <3> HIDE DEF sim
    <3> QED
      BY <2>2, <2>4, OfferToIs
  <2>6. \E e : PortFilled(q, o, c, u, r.ports[p], r.left, k, e)
    <3>1. u \in PortSet /\ acc \in Offered(q) /\ k \in 1..Len(q)
      BY <1>4, <2>2, <2>4
    <3>2. OfferStep(q, s, Simultaneous(q, s, t), k, acc, r)
      BY <2>4, <2>5
    <3> HIDE DEF sim, n, T
    <3> QED
      BY <1>1, <2>3, <3>1, <3>2, OfferOnArc, SMTT(30)
  <2> QED
    BY <2>6 DEF r, Good
<1> HIDE DEF Good, u
<1>8. T = {}
  <2>1. SUFFICES ASSUME T # {} PROVE FALSE
    OBVIOUS
  <2>2. PICK k \in T : \A j \in T : k <= j
    <3>1. T \subseteq Nat
      OBVIOUS
    <3> HIDE DEF T
    <3> QED
      BY <2>1, <3>1, SmallestOne
  <2>3. k # 0
    BY <1>6, <2>2
  <2>4. k \in 1..n /\ k - 1 \in 0..n /\ ~(k <= k - 1)
    BY <1>3, <2>2, <2>3
  <2>5. Good(k - 1)
    BY <2>2, <2>4
  <2> QED
    BY <1>7, <2>2, <2>4, <2>5
<1>9. PICK d : PortFilled(q, o, c, u, g.ports[p], g.left, n, d)
  <2>1. Good(n)
    BY <1>3, <1>8
  <2> QED
    BY <1>2, <2>1 DEF Good
<1>10. d = c
  <2>1. d \in 0..c /\ \A i \in 1..c : o[i] <= n <=> i <= d
    BY <1>9 DEF PortFilled
  <2>2. \A i \in 1..c : i \in 1..Len(o) /\ o[i] <= n
    BY <1>3, <1>5
  <2>3. c > 0 => c <= d
    BY <1>3, <2>1, <2>2
  <2> QED
    BY <1>3, <2>1, <2>3
<1> QED
  BY <1>9, <1>10 DEF u, n

\* The firing f takes n of the events of arc p, the first of them from the queue.
Taking(f, p, n) ==
    LET L == OnArc(queue, p)
    IN  /\ n \in 0..Len(L) /\ \A i \in 1..n : L[i].level = f.time
        /\ Head(queue).arc = p => n > 0
        /\ DestOf(galaxy, p) # f.star => n = 0 /\ f.ports[p] = input[p]
        /\ DestOf(galaxy, p) = f.star => f.ports[p].more = n
        /\ Dropped(L, IF n = 0 THEN 0 ELSE 1, OnArc(f.queue, p))
        /\ n = 0 => f.ports[p].new = input[p].new /\ f.ports[p].val = input[p].val
        /\ n > 0 => f.ports[p].new /\ f.ports[p].val = L[1].val
        /\ EvenStar(f.star) /\ DestOf(galaxy, p) = f.star => \A i \in 1..Len(L) : i > n => L[i].level > f.time

\* The queue without its head, where c events of arc p are offered to star s.
OfferedNext(e, q, p, o, s, c) ==
    /\ e \in EventSet /\ q = Tail(queue) /\ InOrder(q) /\ s = Dest(e) /\ Offering(q, p, o, s, e.level, c)
    /\ \A i \in 1..c : q[o[i]].level = e.level
    /\ EvenStar(s) /\ DestOf(galaxy, p) = s => \A i \in 1..Len(o) : i > c => q[o[i]].level > e.level

LEMMA SomeAreOffered ==
  ASSUME Typed, queue # <<>>, NEW e, e = Head(queue), NEW p \in Arcs(galaxy), NEW s, s = Dest(e),
         DestOf(galaxy, p) # s \/ ~Phase(s)
  PROVE  \E o, c : OfferedNext(e, Tail(queue), p, o, s, c)
<1> DEFINE q == Tail(queue)
           t == e.level
<1>1. Configured /\ InOrder(queue)
  BY DEF Typed
<1>2. e \in EventSet /\ e.fine = depth[e.arc] /\ \A y : Has(queue, y) => Behind(y)
  BY QueueIs
<1>3. InOrder(q) /\ \A y : Has(q, y) => Has(queue, y)
  BY <1>1, TailKeepsOrder
<1>4. \A i \in 1..Len(q) : ~Earlier(q[i], e) /\ q[i].level >= t
  <2>1. ASSUME NEW i \in 1..Len(q) PROVE Behind(q[i])
    <3>1. Has(q, q[i])
      BY DEF Has
    <3> QED
      BY <1>2, <1>3, <3>1
  <2>2. \A i \in 1..Len(queue) : ~Earlier(queue[i], e)
    BY <1>1, TailKeepsOrder
  <2>3. Len(q) = Len(queue) - 1 /\ \A i \in 1..Len(q) : q[i] = queue[i + 1] /\ i + 1 \in 1..Len(queue)
    BY <1>1, TailKeepsOrder
  <2>4. \A i \in 1..Len(q) : ~Earlier(q[i], e)
    BY <2>2, <2>3
  <2>5. \A i \in 1..Len(q) : q[i].level >= t
    BY <2>1 DEF Behind
  <2> QED
    BY <2>4, <2>5
<1>5. q \in Seq(EventSet)
  BY <1>3 DEF InOrder
<1> HIDE DEF q
<1>6. PICK o : AlongArc(q, p, o)
  BY <1>5, OnArcIs
<1> HIDE DEF t
<1>7. PICK c : FirstOf(q, s, t, p, o, c)
  BY <1>5, <1>6, SimultaneousAreFirst
<1>8. Offering(q, p, o, s, t, c)
  <2>1. DestOf(galaxy, p) # s => c = 0
    BY <1>7 DEF FirstOf
  <2>2. c > 0 => ~Phase(s)
    BY <2>1
  <2> QED
    BY <1>5, <1>6, <1>7, <2>2 DEF Offering
<1>9. \A i \in 1..c : q[o[i]].level = t
  <2>1. SUFFICES ASSUME NEW i \in 1..c PROVE q[o[i]].level = t
    OBVIOUS
  <2>2. q[o[i]].level <= t /\ c \in 0..Len(o)
    BY <1>7 DEF FirstOf
  <2>3. o[i] \in 1..Len(q)
    BY <1>6, <2>2 DEF AlongArc
  <2>4. q[o[i]].level >= t /\ q[o[i]] \in EventSet
    BY <1>4, <1>5, <2>3
  <2>5. q[o[i]].level \in Nat /\ t \in Nat
    BY <1>2, <2>4 DEF EventSet, t
  <2> QED
    BY <2>2, <2>4, <2>5
<1>10. EvenStar(s) /\ DestOf(galaxy, p) = s => \A i \in 1..Len(o) : i > c => q[o[i]].level > t
  <2>1. SUFFICES ASSUME EvenStar(s), DestOf(galaxy, p) = s, NEW i \in 1..Len(o), i > c
                 PROVE  q[o[i]].level > t
    OBVIOUS
  <2>2. FirstOf(q, s, e.level, p, o, c) /\ s = DestOf(galaxy, p)
    BY <1>7, <2>1 DEF t
  <2> QED
    BY <1>1, <1>2, <1>3, <1>4, <1>6, <2>1, <2>2, SimultaneousAreAll DEF t
<1>11. OfferedNext(e, q, p, o, s, c)
  BY <1>2, <1>3, <1>8, <1>9, <1>10 DEF OfferedNext, q, t
<1> QED
  BY <1>11 DEF q

LEMMA TakingIs ==
  ASSUME Typed, queue # <<>>, NEW f, f = NextFiring, NEW p \in Arcs(galaxy),
         DestOf(galaxy, p) # f.star \/ ~Phase(f.star)
  PROVE  \E n : Taking(f, p, n)
<1> DEFINE e == Head(queue)
           s == f.star
           q == Tail(queue)
           t == e.level
           L == OnArc(queue, p)
           M == OnArc(q, p)
           u == Fresh(e)[p]
           v == f.ports[p]
           h == IF e.arc = p THEN 1 ELSE 0
<1>1. Configured /\ InOrder(queue) /\ input \in PortsSet
  BY DEF Typed
<1>2. /\ e \in EventSet /\ s = Dest(e) /\ f.time = t
      /\ f.ports = Gather(q, s, t, Fresh(e)).ports
      /\ f.queue = Kept(q, Gather(q, s, t, Fresh(e)).left)
  BY <1>1, NextFiringIs
<1>3. /\ Fresh(e) \in PortsSet /\ Fresh(e)[e.arc].new
      /\ \A a \in Arcs(galaxy) : a # e.arc => Fresh(e)[a].new = input[a].new
      /\ \A a \in Arcs(galaxy) : a # e.arc => Fresh(e)[a].val = input[a].val
      /\ \A a \in ToSet(galaxy.in[s]) : ~Phase(s) /\ a # e.arc => Fresh(e)[a].more = 0
      /\ \A a \in Arcs(galaxy) : a \notin ToSet(galaxy.in[s]) => Fresh(e)[a] = input[a]
      /\ ~Phase(s) => Fresh(e)[e.arc].more = 1 /\ Fresh(e)[e.arc].val = e.val
  BY <1>1, <1>2, FreshIs
<1>4. p \in ToSet(galaxy.in[s]) <=> DestOf(galaxy, p) = s
  <2>1. DestOf(galaxy, p) = s => p \in ToSet(galaxy.in[s])
    BY <1>1, ArcIs
  <2>2. s \in Stars(galaxy)
    BY <1>1, <1>2, EventIs
  <2>3. \A i \in 1..Len(galaxy.in[s]) : DestOf(galaxy, galaxy.in[s][i]) = s
    BY <1>1, <2>2, Galaxy DEF Configured
  <2>4. galaxy.in[s] \in Seq(Arcs(galaxy))
    BY <1>1, <2>2, Galaxy DEF Configured
  <2>5. p \in ToSet(galaxy.in[s]) => DestOf(galaxy, p) = s
    BY <2>3, <2>4 DEF ToSet
  <2> QED
    BY <2>1, <2>5
<1>5. /\ Dropped(L, h, M) /\ (e.arc = p => 1 \in 1..Len(L) /\ L[1] = e)
  <2>1. queue \in Seq(EventSet)
    BY <1>1 DEF InOrder
  <2> QED
    BY <2>1, TailDrops
<1>6. PICK o, c : OfferedNext(e, q, p, o, s, c)
  BY <1>2, SomeAreOffered
<1>7. /\ InOrder(q) /\ Offering(q, p, o, s, t, c) /\ (\A i \in 1..c : q[o[i]].level = t)
      /\ (EvenStar(s) /\ DestOf(galaxy, p) = s => \A i \in 1..Len(o) : i > c => q[o[i]].level > t)
  BY <1>6 DEF OfferedNext
<1>8. /\ q \in Seq(EventSet) /\ AlongArc(q, p, o) /\ FirstOf(q, s, t, p, o, c) /\ (c > 0 => ~Phase(s))
      /\ c \in 0..Len(o) /\ (DestOf(galaxy, p) # s => c = 0)
  BY <1>7 DEF Offering, FirstOf
<1>9. Len(M) = Len(o) /\ M \in Seq(EventSet) /\ \A i \in 1..Len(o) : M[i] = q[o[i]]
  BY <1>8 DEF AlongArc
<1>10. PICK left : /\ PortFilled(q, o, c, u, v, left, Len(q), c)
                   /\ f.queue = Kept(q, left)
  <2> DEFINE g == Gather(q, s, t, Fresh(e))
             ports == Fresh(e)
  <2>1. g = Gather(q, s, t, ports) /\ ports \in PortsSet
    BY <1>3
  <2>2. v = g.ports[p] /\ f.queue = Kept(q, g.left) /\ u = ports[p]
    BY <1>2
  <2> HIDE DEF g, ports, q, s, t, u, v
  <2>3. PortFilled(q, o, c, ports[p], g.ports[p], g.left, Len(q), c)
    BY <1>8, <2>1, GatherOnArc
  <2> QED
    BY <2>2, <2>3
<1>11. /\ v.more = u.more + c /\ v.new = (u.new \/ c > 0)
       /\ v.val = (IF c = 0 \/ u.more > 0 THEN u.val ELSE q[o[1]].val)
       /\ (c = 0 => v = u)
       /\ \A i \in 1..Len(o) : o[i] \in left <=> ~(i = 1 /\ c > 0 /\ u.more = 0)
  BY <1>10 DEF PortFilled
<1> DEFINE N == OnArc(f.queue, p)
           k == IF c > 0 /\ u.more = 0 THEN 1 ELSE 0
<1>12. Dropped(M, k, N)
  <2>1. k \in 0..Len(o)
    BY <1>8
  <2>2. \A i \in 1..Len(o) : o[i] \in left <=> i > k
    BY <1>11
  <2>3. N = OnArc(Kept(q, left), p)
    BY <1>10
  <2> HIDE DEF k, N
  <2> QED
    BY <1>8, <2>1, <2>2, <2>3, KeptDrops
<1>13. Dropped(L, h + k, N)
  <2> HIDE DEF L, M, N, h, k
  <2> QED
    BY <1>5, <1>12, DroppedAgain
<1>14. /\ Len(L) = Len(M) + h /\ (\A i \in 1..Len(M) : M[i] = L[i + h])
       /\ L \in Seq(EventSet) /\ Len(L) \in Nat /\ Len(M) \in Nat
  <2>1. L \in Seq(EventSet) /\ M \in Seq(EventSet) /\ h \in 0..Len(L) /\ Len(M) = Len(L) - h
        /\ \A i \in 1..Len(M) : M[i] = L[i + h]
    BY <1>5 DEF Dropped
  <2> HIDE DEF L, M
  <2> QED
    BY <2>1
<1> DEFINE n == c + h
<1>15. n \in 0..Len(L) /\ (n = 0 <=> c = 0 /\ e.arc # p)
  <2> HIDE DEF L, M
  <2> QED
    BY <1>8, <1>9, <1>14
<1>16. e.arc = p => n > 0
  BY <1>8
<1>17. \A i \in 1..n : L[i].level = t
  <2>1. SUFFICES ASSUME NEW i \in 1..n PROVE L[i].level = t
    OBVIOUS
  <2> HIDE DEF L, M, t
  <2>2. CASE i = 1 /\ e.arc = p
    BY <1>5, <2>2 DEF t
  <2>3. CASE i - h \in 1..c
    <3> DEFINE j == i - h
    <3>1. j \in 1..c /\ j \in 1..Len(M) /\ j + h = i /\ j \in 1..Len(o)
      BY <1>8, <1>9, <2>3
    <3> HIDE DEF j
    <3>2. M[j] = L[i]
      BY <1>14, <3>1
    <3>3. M[j] = q[o[j]]
      BY <1>9, <3>1
    <3>4. q[o[j]].level = t
      BY <1>7, <3>1
    <3> QED
      BY <3>2, <3>3, <3>4
  <2>4. (i = 1 /\ e.arc = p) \/ i - h \in 1..c
    BY <1>8
  <2> QED
    BY <2>2, <2>3, <2>4
<1>18. DestOf(galaxy, p) # s => n = 0 /\ v = input[p]
  <2>1. SUFFICES ASSUME DestOf(galaxy, p) # s PROVE n = 0 /\ v = input[p]
    OBVIOUS
  <2>2. c = 0 /\ e.arc # p
    BY <1>2, <1>8, <2>1 DEF Dest
  <2>3. v = u /\ u = input[p]
    BY <1>3, <1>4, <1>11, <2>1, <2>2
  <2> QED
    BY <2>2, <2>3
<1>19. DestOf(galaxy, p) = s => ~Phase(s) /\ u.more = h
  <2>1. SUFFICES ASSUME DestOf(galaxy, p) = s PROVE ~Phase(s) /\ u.more = h
    OBVIOUS
  <2> QED
    BY <1>3, <1>4, <2>1
<1>20. DestOf(galaxy, p) = s => v.more = n
  <2>1. c \in Int /\ h \in Int
    BY <1>8
  <2> HIDE DEF u, v, h
  <2> QED
    BY <1>11, <1>19, <2>1
<1>21. h + k = IF n = 0 THEN 0 ELSE 1
  <2>1. CASE DestOf(galaxy, p) # s
    <3>1. c = 0 /\ h = 0 /\ n = 0
      BY <1>15, <1>18, <2>1
    <3>2. k = 0
      BY <3>1
    <3> HIDE DEF h, k, n
    <3> QED
      BY <3>1, <3>2
  <2>2. CASE DestOf(galaxy, p) = s
    <3>1. u.more = h
      BY <1>19, <2>2
    <3> HIDE DEF u
    <3> QED
      BY <1>8, <3>1
  <2> QED
    BY <2>1, <2>2
<1>22. n = 0 => v.new = input[p].new /\ v.val = input[p].val
  <2>1. SUFFICES ASSUME n = 0 PROVE v.new = input[p].new /\ v.val = input[p].val
    OBVIOUS
  <2>2. v = u /\ e.arc # p
    BY <1>11, <1>15, <2>1
  <2> QED
    BY <1>3, <2>2
<1>23. n > 0 => v.new /\ v.val = L[1].val
  <2>1. SUFFICES ASSUME n > 0 PROVE v.new /\ v.val = L[1].val
    OBVIOUS
  <2>2. DestOf(galaxy, p) = s /\ u.more = h
    BY <1>18, <1>19, <2>1
  <2>3. CASE e.arc = p
    <3>1. u.more = 1 /\ u.new /\ u.val = e.val /\ L[1] = e
      BY <1>3, <1>5, <1>19, <2>2, <2>3
    <3> HIDE DEF u, v, L
    <3>2. v.new
      BY <1>11, <3>1
    <3>3. v.val = e.val
      BY <1>11, <3>1
    <3> QED
      BY <3>1, <3>2, <3>3
  <2>4. CASE e.arc # p
    <3>1. u.more = 0 /\ c > 0 /\ h = 0
      BY <1>8, <2>1, <2>2, <2>4
    <3> HIDE DEF u, v, L, M, h
    <3>2. v.new
      BY <1>11, <3>1
    <3>3. 1 \in 1..Len(o) /\ 1 \in 1..Len(M) /\ 1 + h = 1
      BY <1>8, <1>9, <3>1
    <3>4. v.val = q[o[1]].val
      <4>1. ~(c = 0 \/ u.more > 0)
        BY <3>1
      <4> QED
        BY <1>11, <4>1
    <3>5. M[1] = q[o[1]] /\ M[1] = L[1 + h]
      BY <1>9, <1>14, <3>3
    <3> QED
      BY <3>2, <3>3, <3>4, <3>5
  <2> QED
    BY <2>3, <2>4
<1>24. EvenStar(s) /\ DestOf(galaxy, p) = s => \A i \in 1..Len(L) : i > n => L[i].level > t
  <2>1. SUFFICES ASSUME EvenStar(s), DestOf(galaxy, p) = s, NEW i \in 1..Len(L), i > n
                 PROVE  L[i].level > t
    OBVIOUS
  <2> HIDE DEF L, M, t
  <2>2. i - h \in 1..Len(o) /\ i - h > c /\ (i - h) + h = i
    BY <1>8, <1>9, <1>14, <2>1
  <2>3. L[i] = q[o[i - h]]
    BY <1>9, <1>14, <2>2
  <2>4. q[o[i - h]].level > t
    BY <1>7, <2>1, <2>2
  <2> QED
    BY <2>3, <2>4
<1> HIDE DEF L, M, N, h, k, u, v, n
<1>25. Dropped(L, IF n = 0 THEN 0 ELSE 1, N)
  BY <1>13, <1>21
<1>26. Taking(f, p, n)
  BY <1>2, <1>15, <1>17, <1>18, <1>20, <1>22, <1>23, <1>24, <1>25, <1>16 DEF Taking, L, N, v
<1> QED
  BY <1>26

\* The places that getSimulEvent would fetch of arc p.
FetchedAt(f, p) == EventsAt(f.queue, p, f.ports[p].more - 1)

\* They are the first l of the places o of arc p in the queue.
Fetches(f, p, o, l) ==
    /\ AlongArc(f.queue, p, o) /\ l \in 0..Len(o) /\ FetchedAt(f, p) \in Seq(Nat) /\ Len(FetchedAt(f, p)) = l
    /\ \A k \in 1..l : FetchedAt(f, p)[k] = o[k]

LEMMA FetchedAre ==
  ASSUME Configured, NEW f, f.queue \in Seq(EventSet), f.ports \in PortsSet, NEW p \in Arcs(galaxy)
  PROVE  \E o, l : /\ Fetches(f, p, o, l)
                   /\ l = IF f.ports[p].more <= 1 THEN 0
                          ELSE IF f.ports[p].more - 1 <= Len(o) THEN f.ports[p].more - 1 ELSE Len(o)
<1> DEFINE q == f.queue
           m == f.ports[p].more - 1
<1>1. f.ports[p].more \in Nat /\ m \in Int
  <2>1. f.ports[p] \in PortSet
    BY DEF PortsSet
  <2> QED
    BY <2>1 DEF PortSet
<1>2. PICK o : FirstEvents(q, p, m, o, EventsAt(q, p, m))
  <2> HIDE DEF m
  <2> QED
    BY <1>1, EventsAtIs
<1> DEFINE places == EventsAt(q, p, m)
<1>3. FetchedAt(f, p) = places
  BY DEF FetchedAt
<1> HIDE DEF m, places
<1>4. /\ Enumerates(o, Places(q, p)) /\ places \in Seq(Nat)
      /\ Len(places) = (IF m <= 0 THEN 0 ELSE IF m <= Len(o) THEN m ELSE Len(o))
      /\ \A k \in 1..Len(places) : k \in 1..Len(o) /\ places[k] = o[k]
  BY <1>2 DEF FirstEvents, Places, places
<1>5. o \in Seq(Nat) /\ Len(o) \in Nat
  BY <1>4 DEF Enumerates
<1>6. AlongArc(q, p, o)
  BY <1>4, OnArcFrom
<1>7. Len(places) \in 0..Len(o)
  BY <1>1, <1>4, <1>5
<1>8. Fetches(f, p, o, Len(places))
  BY <1>3, <1>4, <1>6, <1>7 DEF Fetches
<1>9. Len(places) = IF f.ports[p].more <= 1 THEN 0
                    ELSE IF f.ports[p].more - 1 <= Len(o) THEN f.ports[p].more - 1 ELSE Len(o)
  BY <1>1, <1>4, <1>5 DEF m
<1> QED
  BY <1>8, <1>9

\* What the firing leaves of arc p when it has taken n events.
Leaving(f, p, n) ==
    Dropped(OnArc(queue, p), IF p \in DrainedBy(f) \/ n = 0 THEN n ELSE 1, OnArc(Remaining(f), p))

LEMMA LeavingIs ==
  ASSUME Configured, NEW f, SoundFiring(f), f.queue \in Seq(EventSet), f.ports \in PortsSet,
         NEW p \in Arcs(galaxy), NEW n, Taking(f, p, n)
  PROVE  Leaving(f, p, n)
<1> DEFINE q == f.queue
           s == f.star
           L == OnArc(queue, p)
           M == OnArc(q, p)
           a == IF n = 0 THEN 0 ELSE 1
           S == DOMAIN q \ FetchedBy(f)
<1>1. /\ n \in 0..Len(L) /\ (DestOf(galaxy, p) # s => n = 0) /\ Dropped(L, a, M)
      /\ (DestOf(galaxy, p) = s => f.ports[p].more = n)
  BY DEF Taking
<1>2. PICK o, l : /\ Fetches(f, p, o, l)
                  /\ l = IF f.ports[p].more <= 1 THEN 0
                         ELSE IF f.ports[p].more - 1 <= Len(o) THEN f.ports[p].more - 1 ELSE Len(o)
  BY FetchedAre
<1>3. /\ AlongArc(q, p, o) /\ l \in 0..Len(o) /\ FetchedAt(f, p) \in Seq(Nat) /\ Len(FetchedAt(f, p)) = l
      /\ \A k \in 1..l : FetchedAt(f, p)[k] = o[k]
  BY <1>2 DEF Fetches
<1>4. /\ Enumerates(o, Places(q, p)) /\ Len(M) = Len(o) /\ o \in Seq(Nat) /\ Len(o) \in Nat
      /\ (\A i \in 1..Len(o) : o[i] \in 1..Len(q) /\ q[o[i]].arc = p)
      /\ \A i, j \in 1..Len(o) : o[i] = o[j] => i = j
  <2>1. Enumerates(o, Places(q, p)) /\ Len(M) = Len(o)
        /\ \A i \in 1..Len(o) : o[i] \in 1..Len(q) /\ q[o[i]].arc = p
    BY <1>3 DEF AlongArc
  <2>2. o \in Seq(Nat) /\ Len(o) \in Nat /\ \A i, j \in 1..Len(o) : i < j => o[i] < o[j]
    BY <2>1 DEF Enumerates
  <2>3. \A i, j \in 1..Len(o) : o[i] = o[j] => i = j
    <3>1. SUFFICES ASSUME NEW i \in 1..Len(o), NEW j \in 1..Len(o), o[i] = o[j] PROVE i = j
      OBVIOUS
    <3>2. o[i] \in Nat /\ o[j] \in Nat /\ (i < j => o[i] < o[j]) /\ (j < i => o[j] < o[i])
      BY <2>2
    <3> QED
      BY <2>2, <3>1, <3>2
  <2> QED
    BY <2>1, <2>2, <2>3
<1>5. Len(L) \in Nat /\ Len(M) = Len(L) - a /\ L \in Seq(EventSet)
  <2> HIDE DEF L, M
  <2> QED
    BY <1>1 DEF Dropped
<1>6. p \in DrainedBy(f) => DestOf(galaxy, p) = s
  <2>1. s \in Stars(galaxy) /\ ResultOf(f).drained \subseteq 1..Len(galaxy.in[s])
    BY DEF SoundFiring, Sound
  <2>2. \A i \in 1..Len(galaxy.in[s]) : DestOf(galaxy, galaxy.in[s][i]) = s
    BY <2>1, Galaxy, SMTT(30) DEF Configured
  <2> QED
    BY <2>1, <2>2 DEF DrainedBy
<1>7. \A x \in FetchedBy(f) : \E w \in DrainedBy(f) : x \in ToSet(FetchedAt(f, w)) /\ q[x].arc = w
  <2>1. SUFFICES ASSUME NEW w \in DrainedBy(f), NEW x \in ToSet(FetchedAt(f, w)) PROVE q[x].arc = w
    BY DEF FetchedBy, FetchedAt
  <2>2. w \in Arcs(galaxy)
    <3>1. s \in Stars(galaxy) /\ ResultOf(f).drained \subseteq 1..Len(galaxy.in[s])
      BY DEF SoundFiring, Sound
    <3>2. \A i \in 1..Len(galaxy.in[s]) : galaxy.in[s][i] \in Arcs(galaxy)
      BY <3>1, Galaxy DEF Configured
    <3> QED
      BY <3>1, <3>2 DEF DrainedBy
  <2>3. PICK r, m : Fetches(f, w, r, m)
    BY <2>2, FetchedAre
  <2>4. /\ AlongArc(q, w, r) /\ m \in 0..Len(r) /\ FetchedAt(f, w) \in Seq(Nat) /\ Len(FetchedAt(f, w)) = m
        /\ \A k \in 1..m : FetchedAt(f, w)[k] = r[k]
    BY <2>3 DEF Fetches
  <2>5. PICK k \in 1..m : x = r[k]
    BY <2>4 DEF ToSet
  <2>6. k \in 1..Len(r)
    BY <2>4
  <2> QED
    BY <2>4, <2>5, <2>6 DEF AlongArc
<1>8. CASE p \in DrainedBy(f) /\ n # 0
  <2>1. l = n - 1 /\ l \in 0..Len(o)
    <3>1. f.ports[p].more = n /\ Len(o) = Len(L) - 1
      BY <1>1, <1>4, <1>5, <1>6, <1>8
    <3> HIDE DEF L
    <3> QED
      BY <1>1, <1>2, <1>5, <1>8, <3>1
  <2>2. \A i \in 1..Len(o) : o[i] \in S <=> i > l
    <3>1. SUFFICES ASSUME NEW i \in 1..Len(o) PROVE o[i] \in FetchedBy(f) <=> ~(i > l)
      BY <1>4
    <3>2. ASSUME ~(i > l) PROVE o[i] \in FetchedBy(f)
      <4>1. i \in 1..l /\ FetchedAt(f, p)[i] = o[i]
        BY <1>3, <2>1, <3>2
      <4>2. o[i] \in ToSet(FetchedAt(f, p))
        BY <1>3, <4>1 DEF ToSet
      <4> QED
        BY <1>8, <4>2 DEF FetchedBy, FetchedAt
    <3>3. ASSUME o[i] \in FetchedBy(f) PROVE ~(i > l)
      <4>1. PICK w \in DrainedBy(f) : o[i] \in ToSet(FetchedAt(f, w)) /\ q[o[i]].arc = w
        BY <1>7, <3>3
      <4>2. w = p
        BY <1>4, <4>1
      <4>3. PICK k \in 1..l : o[i] = FetchedAt(f, p)[k]
        BY <1>3, <4>1, <4>2 DEF ToSet
      <4>4. k \in 1..Len(o) /\ o[i] = o[k]
        BY <1>3, <2>1, <4>3
      <4>5. i = k
        BY <1>4, <4>4
      <4> QED
        BY <2>1, <4>5
    <3> QED
      BY <3>2, <3>3
  <2>3. Dropped(M, l, OnArc(Kept(q, S), p))
    <3> HIDE DEF M, S, q
    <3>1. q \in Seq(EventSet)
      BY DEF q
    <3> QED
      BY <1>3, <2>1, <2>2, <3>1, KeptDrops DEF M
  <2>4. Dropped(L, a + l, OnArc(Remaining(f), p))
    <3>1. OnArc(Kept(q, S), p) = OnArc(Remaining(f), p)
      BY DEF Remaining
    <3> HIDE DEF L, M, S, a
    <3> QED
      BY <1>1, <2>3, <3>1, DroppedAgain
  <2>5. a + l = n
    BY <1>1, <1>5, <1>8, <2>1
  <2>6. Dropped(L, n, OnArc(Remaining(f), p))
    BY <2>4, <2>5
  <2> QED
    BY <1>8, <2>6 DEF Leaving
<1>9. CASE ~(p \in DrainedBy(f) /\ n # 0)
  <2>1. \A i \in 1..Len(o) : o[i] \in S <=> i > 0
    <3>1. SUFFICES ASSUME NEW i \in 1..Len(o), o[i] \in FetchedBy(f) PROVE FALSE
      BY <1>4
    <3>2. PICK w \in DrainedBy(f) : o[i] \in ToSet(FetchedAt(f, w)) /\ q[o[i]].arc = w
      BY <1>7, <3>1
    <3>3. w = p /\ n = 0
      BY <1>4, <1>9, <3>2
    <3>4. f.ports[p].more = 0 /\ l = 0
      BY <1>1, <1>2, <1>6, <3>2, <3>3
    <3> QED
      BY <1>3, <3>2, <3>3, <3>4 DEF ToSet
  <2>2. Dropped(M, 0, OnArc(Kept(q, S), p))
    <3>1. q \in Seq(EventSet) /\ 0 \in 0..Len(o)
      BY <1>4
    <3> HIDE DEF M, S, q
    <3> QED
      BY <1>3, <2>1, <3>1, KeptDrops DEF M
  <2>3. Dropped(L, a + 0, OnArc(Remaining(f), p))
    <3>1. OnArc(Kept(q, S), p) = OnArc(Remaining(f), p)
      BY DEF Remaining
    <3> HIDE DEF L, M, S, a
    <3> QED
      BY <1>1, <2>2, <3>1, DroppedAgain
  <2>4. a + 0 = IF p \in DrainedBy(f) \/ n = 0 THEN n ELSE 1
    BY <1>9
  <2> QED
    BY <2>3, <2>4 DEF Leaving
<1> QED
  BY <1>8, <1>9

\* r is what is read at port u with the events at places of q.
ReadAs(q, places, u, r) ==
    /\ r \in ReadableSet /\ r.new = u.new /\ Len(r.vals) = Len(places) + 1 /\ r.vals[1] = u.val
    /\ \A k \in 1..Len(places) : r.vals[k + 1] = q[places[k]].val

LEMMA PortIsRead ==
  ASSUME NEW q \in Seq(EventSet), NEW s, NEW p, NEW u \in PortSet, ~Phase(s)
  PROVE  ReadAs(q, EventsAt(q, p, u.more - 1), u, Readable(q, s, p, u))
<1> DEFINE r == Readable(q, s, p, u)
           places == EventsAt(q, p, u.more - 1)
<1>1. /\ r \in ReadableSet /\ r.new = u.new
      /\ ~Phase(s) => /\ r.vals # <<>> /\ Len(r.vals) = Len(places) + 1
                      /\ r.vals[1] = u.val
                      /\ \A k \in 1..Len(places) : r.vals[k + 1] = q[places[k]].val
  BY ReadableIs
<1> HIDE DEF r, places
<1>2. ReadAs(q, places, u, r)
  BY <1>1 DEF ReadAs
<1> QED
  BY <1>2 DEF r, places

\* What the star of the firing f sees at its i-th input when n events are taken.
Seen(f, i, n) ==
    LET p == galaxy.in[f.star][i]
        port == ReadableOf(f)[i]
    IN  /\ port.vals \in Seq(Int) /\ port.new \in BOOLEAN
        /\ n = 0 => port.new = input[p].new /\ Len(port.vals) = 1 /\ port.vals[1] = input[p].val
        /\ n > 0 => /\ port.new /\ Len(port.vals) = n
                    /\ \A k \in 1..n : port.vals[k] = OnArc(queue, p)[k].val

LEMMA SeenIs ==
  ASSUME Configured, NEW f, SoundFiring(f), ~Phase(f.star), f.queue \in Seq(EventSet), f.ports \in PortsSet,
         NEW i \in 1..Len(galaxy.in[f.star]), NEW p, p = galaxy.in[f.star][i], NEW n, Taking(f, p, n)
  PROVE  Seen(f, i, n)
<1> DEFINE q == f.queue
           s == f.star
           L == OnArc(queue, p)
           M == OnArc(q, p)
           a == IF n = 0 THEN 0 ELSE 1
           v == f.ports[p]
           port == ReadableOf(f)[i]
           places == EventsAt(q, p, v.more - 1)
<1>1. s \in Stars(galaxy) /\ p \in Arcs(galaxy) /\ DestOf(galaxy, p) = s /\ galaxy.in[s] \in Seq(Arcs(galaxy))
  <2>1. s \in Stars(galaxy)
    BY DEF SoundFiring
  <2> QED
    BY <2>1, Galaxy DEF Configured
<1>2. /\ n \in 0..Len(L) /\ Dropped(L, a, M) /\ v.more = n
      /\ (n = 0 => v.new = input[p].new /\ v.val = input[p].val)
      /\ (n > 0 => v.new /\ v.val = L[1].val)
  BY <1>1, Zenon DEF Taking
<1>3. port = Readable(q, s, p, v)
  BY <1>1 DEF ReadableOf
<1>4. v \in PortSet
  BY <1>1 DEF PortsSet
<1>5. /\ port \in ReadableSet /\ port.new = v.new
      /\ Len(port.vals) = Len(places) + 1 /\ port.vals[1] = v.val
      /\ \A k \in 1..Len(places) : port.vals[k + 1] = q[places[k]].val
  <2>1. q \in Seq(EventSet) /\ ~Phase(s)
    OBVIOUS
  <2>2. ReadAs(q, places, v, port)
    <3> HIDE DEF q, s, v, port
    <3> QED
      BY <1>3, <1>4, <2>1, PortIsRead
  <2> HIDE DEF q, s, v, port, places
  <2> QED
    BY <2>2 DEF ReadAs
<1>6. port.vals \in Seq(Int) /\ port.new \in BOOLEAN
  BY <1>5, ZenonT(40) DEF ReadableSet
<1>7. PICK o, l : /\ Fetches(f, p, o, l)
                  /\ l = IF f.ports[p].more <= 1 THEN 0
                         ELSE IF f.ports[p].more - 1 <= Len(o) THEN f.ports[p].more - 1 ELSE Len(o)
  BY <1>1, FetchedAre
<1>8. /\ AlongArc(q, p, o) /\ l \in 0..Len(o) /\ places \in Seq(Nat) /\ Len(places) = l
      /\ \A k \in 1..l : places[k] = o[k]
  BY <1>7, Zenon DEF Fetches, FetchedAt
<1>9. Len(M) = Len(o) /\ Len(o) \in Nat /\ \A k \in 1..Len(o) : M[k] = q[o[k]]
  <2>1. Enumerates(o, Places(q, p)) /\ Len(M) = Len(o) /\ \A k \in 1..Len(o) : M[k] = q[o[k]]
    BY <1>8, Zenon DEF AlongArc
  <2>2. o \in Seq(Nat)
    BY <2>1 DEF Enumerates
  <2> QED
    BY <2>1, <2>2
<1>10. L \in Seq(EventSet) /\ Len(L) \in Nat /\ Len(M) = Len(L) - a /\ \A k \in 1..Len(M) : M[k] = L[k + a]
  <2> HIDE DEF L, M
  <2> QED
    BY <1>2 DEF Dropped
<1> HIDE DEF q, v, port, places, L, M
<1>11. ASSUME n = 0 PROVE port.new = input[p].new /\ Len(port.vals) = 1 /\ port.vals[1] = input[p].val
  <2>1. l = 0
    BY <1>2, <1>7, <1>11 DEF v
  <2>2. Len(port.vals) = 1
    BY <1>5, <1>8, <2>1
  <2>3. port.new = input[p].new
    BY <1>2, <1>5, <1>11
  <2>4. port.vals[1] = input[p].val
    BY <1>2, <1>5, <1>11
  <2> QED
    BY <2>2, <2>3, <2>4
<1>12. ASSUME n > 0 PROVE port.new /\ Len(port.vals) = n /\ \A k \in 1..n : port.vals[k] = L[k].val
  <2>1. l = n - 1 /\ a = 1
    BY <1>2, <1>7, <1>9, <1>10, <1>12 DEF v, a
  <2>2. Len(port.vals) = n
    BY <1>2, <1>5, <1>8, <2>1
  <2>3. ASSUME NEW k \in 1..n PROVE port.vals[k] = L[k].val
    <3>1. CASE k = 1
      BY <1>2, <1>5, <1>12, <3>1
    <3>2. CASE k # 1
      <4> DEFINE j == k - 1
      <4>1. j \in 1..l /\ j \in 1..Len(M) /\ j \in 1..Len(o) /\ j + 1 = k
        BY <1>2, <1>8, <1>9, <2>1, <2>3, <3>2
      <4> HIDE DEF j
      <4>2. port.vals[j + 1] = q[places[j]].val
        BY <1>5, <1>8, <4>1
      <4>3. places[j] = o[j] /\ M[j] = q[o[j]] /\ M[j] = L[j + 1]
        BY <1>8, <1>9, <1>10, <2>1, <4>1
      <4> QED
        BY <4>1, <4>2, <4>3
    <3> QED
      BY <3>1, <3>2
  <2> QED
    BY <1>2, <1>5, <1>12, <2>2, <2>3
<1> QED
  BY <1>6, <1>11, <1>12 DEF Seen, port, L

-----------------------------------------------------------------------------
(* What a firing sends along an arc *)

OutPlaces(puts, o) == {i \in 1..Len(puts) : puts[i].out = o}

\* N are the events of the puts at the o-th output, whose arc is p, in order.
PutAlong(puts, o, p, c, N) ==
    /\ Enumerates(c, OutPlaces(puts, o)) /\ N \in Seq(EventSet) /\ Len(N) = Len(c)
    /\ \A k \in 1..Len(c) : /\ c[k] \in 1..Len(puts) /\ puts[c[k]].out = o
                            /\ N[k].level = puts[c[k]].time /\ N[k].val = puts[c[k]].val /\ N[k].arc = p

\* The puts of a go() are of the outputs of the star.
PutsOf(s, puts) ==
    s \in Stars(galaxy) /\ puts \in Seq(PutSet) /\ \A j \in 1..Len(puts) : puts[j].out \in 1..Len(galaxy.out[s])

LEMMA EventsOfPuts ==
  ASSUME Configured, NEW s, NEW puts, PutsOf(s, puts)
  PROVE  /\ SendingOrder(puts, SendOrder(puts)) /\ Deep(Events(s, puts))
         /\ Len(Events(s, puts)) = Len(SendOrder(puts))
         /\ \A k \in 1..Len(Events(s, puts)) :
               /\ SendOrder(puts)[k] \in 1..Len(puts)
               /\ Events(s, puts)[k].arc = galaxy.out[s][puts[SendOrder(puts)[k]].out]
               /\ Events(s, puts)[k].level = puts[SendOrder(puts)[k]].time
               /\ Events(s, puts)[k].val = puts[SendOrder(puts)[k]].val
<1> DEFINE order == SendOrder(puts)
           events == Events(s, puts)
<1>1. s \in Stars(galaxy) /\ puts \in Seq(PutSet) /\ \A j \in 1..Len(puts) : puts[j].out \in 1..Len(galaxy.out[s])
  BY DEF PutsOf
<1> HIDE DEF order, events
<1>2. /\ SendingOrder(puts, order) /\ Deep(events) /\ Len(events) = Len(order)
      /\ \A k \in 1..Len(events) :
            /\ order[k] \in 1..Len(puts)
            /\ events[k] = Event(galaxy.out[s][puts[order[k]].out], puts[order[k]].time, puts[order[k]].val)
  BY <1>1, EventsAre DEF order, events
<1>3. \A k \in 1..Len(events) : /\ events[k].arc = galaxy.out[s][puts[order[k]].out]
                                /\ events[k].level = puts[order[k]].time
                                /\ events[k].val = puts[order[k]].val
  <2>1. SUFFICES ASSUME NEW k \in 1..Len(events)
                 PROVE  /\ events[k].arc = galaxy.out[s][puts[order[k]].out]
                        /\ events[k].level = puts[order[k]].time
                        /\ events[k].val = puts[order[k]].val
    OBVIOUS
  <2>2. events[k] = Event(galaxy.out[s][puts[order[k]].out], puts[order[k]].time, puts[order[k]].val)
    BY <1>2
  <2> QED
    BY <2>2 DEF Event
<1> QED
  BY <1>2, <1>3 DEF order, events

LEMMA SentOnOutput ==
  ASSUME Configured, NEW s, NEW puts, PutsOf(s, puts), NEW o \in 1..Len(galaxy.out[s]),
         NEW p, p = galaxy.out[s][o], NEW c, Enumerates(c, OutPlaces(puts, o))
  PROVE  PutAlong(puts, o, p, c, OnArc(Events(s, puts), p))
<1> DEFINE order == SendOrder(puts)
           events == Events(s, puts)
           N == OnArc(events, p)
           T == Places(events, p)
           R == OutPlaces(puts, o)
<1>1. s \in Stars(galaxy) /\ puts \in Seq(PutSet) /\ \A j \in 1..Len(puts) : puts[j].out \in 1..Len(galaxy.out[s])
  BY DEF PutsOf
<1>2. /\ SendingOrder(puts, order) /\ Deep(events) /\ Len(events) = Len(order)
      /\ \A k \in 1..Len(events) : /\ order[k] \in 1..Len(puts)
                                   /\ events[k].arc = galaxy.out[s][puts[order[k]].out]
                                   /\ events[k].level = puts[order[k]].time
                                   /\ events[k].val = puts[order[k]].val
  BY EventsOfPuts
<1> HIDE DEF order, events
<1>3. \A i \in 1..Len(galaxy.out[s]) : galaxy.out[s][i] = p <=> i = o
  <2>1. IsGalaxy(galaxy)
    BY DEF Configured
  <2>2. \A i \in 1..Len(galaxy.out[s]), j \in 1..Len(galaxy.out[s]) :
           galaxy.out[s][i] = galaxy.out[s][j] => i = j
    BY <1>1, <2>1, Galaxy
  <2> QED
    BY <2>2
<1>4. events \in Seq(EventSet)
  BY <1>2 DEF Deep
<1>5. /\ order \in Seq(Nat)
      /\ \A j, k \in 1..Len(order) :
            j < k /\ puts[order[j]].out = puts[order[k]].out => order[j] < order[k]
      /\ \A i \in 1..Len(puts) : \E k \in 1..Len(order) : order[k] = i
  BY <1>2 DEF SendingOrder
<1>6. \A k \in 1..Len(events) : k \in T <=> puts[order[k]].out = o
  <2>1. \A k \in 1..Len(events) : k \in T <=> events[k].arc = p
    BY DEF Places
  <2>2. \A k \in 1..Len(events) : puts[order[k]].out \in 1..Len(galaxy.out[s])
    BY <1>1, <1>2
  <2> QED
    BY <1>2, <1>3, <2>1, <2>2
<1>7. T \subseteq 1..Len(events)
  BY DEF Places
<1>8. PICK w : AlongArc(events, p, w)
  BY <1>4, OnArcIs
<1>9. /\ Enumerates(w, T) /\ Len(N) = Len(w) /\ N \in Seq(EventSet)
      /\ \A i \in 1..Len(w) : w[i] \in 1..Len(events) /\ N[i] = events[w[i]] /\ events[w[i]].arc = p
  BY <1>8 DEF AlongArc
<1> HIDE DEF T, N
<1> DEFINE r == [k \in 1..Len(w) |-> order[w[k]]]
<1>10. Increasing(w, T, order, r, R)
  <2>1. w \in Seq(Nat) /\ Len(w) \in Nat
    BY <1>9 DEF Enumerates
  <2>2. \A x \in T : order[x] \in Nat
    BY <1>2, <1>5, <1>7
  <2>3. \A x, y \in T : x < y => order[x] < order[y]
    BY <1>2, <1>5, <1>6, <1>7
  <2>4. ASSUME NEW y PROVE y \in R <=> \E x \in T : y = order[x]
    <3>1. ASSUME y \in R PROVE \E x \in T : y = order[x]
      <4>1. y \in 1..Len(puts) /\ puts[y].out = o
        BY <3>1 DEF OutPlaces
      <4>2. PICK x \in 1..Len(order) : order[x] = y
        BY <1>5, <4>1
      <4> QED
        BY <1>2, <1>6, <4>1, <4>2
    <3>2. ASSUME NEW x \in T, y = order[x] PROVE y \in R
      BY <1>2, <1>6, <1>7, <3>2 DEF OutPlaces
    <3> QED
      BY <3>1, <3>2
  <2>5. r \in Seq(Nat) /\ Len(r) = Len(w) /\ \A k \in 1..Len(w) : r[k] = order[w[k]]
    <3>1. \A k \in 1..Len(w) : order[w[k]] \in Nat
      BY <1>2, <1>9
    <3> QED
      BY <2>1, <3>1
  <2> HIDE DEF r, R
  <2> QED
    BY <2>2, <2>3, <2>4, <2>5 DEF Increasing
<1>11. Enumerates(r, R)
  <2> HIDE DEF r, R
  <2> QED
    BY <1>9, <1>10, EnumerationMapped
<1>12. r = c
  <2> HIDE DEF r, R
  <2>1. Enumerates(c, R)
    BY DEF R
  <2> QED
    BY <1>11, <2>1, EnumerationIsUnique
<1>13. Len(c) = Len(w) /\ \A k \in 1..Len(c) : c[k] = order[w[k]]
  <2>1. w \in Seq(Nat)
    BY <1>9 DEF Enumerates
  <2>2. Len(r) = Len(w) /\ \A k \in 1..Len(w) : r[k] = order[w[k]]
    BY <2>1
  <2> HIDE DEF r
  <2> QED
    BY <1>12, <2>2
<1> HIDE DEF r, R
<1>14. \A k \in 1..Len(c) : /\ c[k] \in 1..Len(puts) /\ puts[c[k]].out = o
                            /\ N[k].level = puts[c[k]].time /\ N[k].val = puts[c[k]].val /\ N[k].arc = p
  <2>1. SUFFICES ASSUME NEW k \in 1..Len(c)
                 PROVE  /\ c[k] \in 1..Len(puts) /\ puts[c[k]].out = o
                        /\ N[k].level = puts[c[k]].time /\ N[k].val = puts[c[k]].val /\ N[k].arc = p
    OBVIOUS
  <2> DEFINE x == w[k]
  <2>2. x \in 1..Len(events) /\ N[k] = events[x] /\ events[x].arc = p /\ c[k] = order[x] /\ x \in T
    <3>1. k \in 1..Len(w)
      BY <1>13
    <3>2. w[k] \in T
      BY <1>9, <3>1 DEF Enumerates
    <3> QED
      BY <1>9, <1>13, <3>1, <3>2
  <2> HIDE DEF x
  <2> QED
    BY <1>2, <1>6, <2>2
<1>15. PutAlong(puts, o, p, c, N)
  BY <1>9, <1>13, <1>14 DEF PutAlong, R
<1> QED
  BY <1>15 DEF N, events

LEMMA NothingElsewhere ==
  ASSUME Configured, NEW s, NEW puts, PutsOf(s, puts), NEW p, SourceOf(galaxy, p) # s
  PROVE  OnArc(Events(s, puts), p) = <<>>
<1> DEFINE events == Events(s, puts)
           order == SendOrder(puts)
<1>1. Deep(events) /\ \A k \in 1..Len(events) : /\ order[k] \in 1..Len(puts)
                                                /\ events[k].arc = galaxy.out[s][puts[order[k]].out]
  BY EventsOfPuts
<1> HIDE DEF events, order
<1>2. \A i \in 1..Len(galaxy.out[s]) : SourceOf(galaxy, galaxy.out[s][i]) = s
  BY Galaxy DEF Configured, PutsOf
<1>3. \A k \in 1..Len(events) : events[k].arc # p
  BY <1>1, <1>2, ZenonT(40) DEF PutsOf
<1>4. events \in Seq(EventSet)
  BY <1>1 DEF Deep
<1>5. PICK w : AlongArc(events, p, w)
  BY <1>4, OnArcIs
<1>6. OnArc(events, p) \in Seq(EventSet) /\ Len(OnArc(events, p)) = Len(w)
      /\ \A i \in 1..Len(w) : w[i] \in 1..Len(events) /\ events[w[i]].arc = p
  BY <1>5 DEF AlongArc
<1>7. Len(w) \in Nat
  BY <1>5 DEF AlongArc, Enumerates
<1>8. Len(w) = 0
  <2>1. Len(w) # 0 => 1 \in 1..Len(w)
    BY <1>7
  <2> QED
    BY <1>3, <1>6, <2>1
<1>9. OnArc(events, p) = <<>>
  BY <1>6, <1>8
<1> QED
  BY <1>9 DEF events

-----------------------------------------------------------------------------
(* What passes along an arc in a step *)

\* The latest time for which the star has put anything.
Bound(s) == IF galaxy.kind[s] \in Planned THEN star[s].completionTime ELSE fired.time
Bounded == \A i \in 1..Len(queue) : queue[i].level <= Bound(SourceOf(galaxy, queue[i].arc))

\* An event that the firing f puts.
PutBy(f, y) ==
    /\ y \in EventSet /\ SourceOf(galaxy, y.arc) = f.star
    /\ IF galaxy.kind[f.star] \in Planned
       THEN star[f.star].completionTime <= y.level /\ y.level <= ResultOf(f).star.completionTime
       ELSE y.level = f.time

LEMMA PutsAre ==
  ASSUME Configured, NEW f, SoundFiring(f)
  PROVE  /\ PutsOf(f.star, ResultOf(f).puts) /\ Deep(SentBy(f))
         /\ \A i \in 1..Len(SentBy(f)) : PutBy(f, SentBy(f)[i])
         /\ \A i, j \in 1..Len(SentBy(f)) : SentBy(f)[i].level = SentBy(f)[j].level
<1> DEFINE s == f.star
           k == galaxy.kind[s]
           in == galaxy.in[s]
           out == galaxy.out[s]
           r == ResultOf(f)
           puts == r.puts
           order == SendOrder(puts)
           events == SentBy(f)
<1>1. IsGalaxy(galaxy)
  BY DEF Configured
<1>2. /\ s \in Stars(galaxy)
      /\ Sound(k, galaxy.param[s], Len(in), Len(out), star[s], ReadableOf(f), f.time, r)
  BY DEF SoundFiring
<1>3. /\ puts \in Seq(PutSet)
      /\ (\A j \in 1..Len(puts) : SoundPut(k, Len(in), Len(out), star[s], ReadableOf(f), f.time, r.star, puts[j]))
      /\ \A i, j \in 1..Len(puts) : puts[i].time = puts[j].time
  BY <1>2 DEF Sound
<1>4. PutsOf(s, puts)
  BY <1>2, <1>3 DEF PutsOf, SoundPut
<1>5. events = Events(s, puts)
  BY DEF SentBy
<1> HIDE DEF puts, order, events
<1>6. /\ Deep(events) /\ Len(events) = Len(order)
      /\ \A i \in 1..Len(events) : /\ order[i] \in 1..Len(puts)
                                   /\ events[i].arc = out[puts[order[i]].out]
                                   /\ events[i].level = puts[order[i]].time
  <2> HIDE DEF s
  <2> QED
    BY <1>4, <1>5, EventsOfPuts DEF order, s
<1>7. \A o \in 1..Len(out) : SourceOf(galaxy, out[o]) = s
  <2> HIDE DEF s
  <2> QED
    BY <1>1, <1>2, Galaxy
<1>8. ASSUME NEW i \in 1..Len(events) PROVE PutBy(f, events[i])
  <2> DEFINE y == events[i]
             put == puts[order[i]]
  <2>1. y \in EventSet /\ y.arc = out[put.out] /\ y.level = put.time /\ order[i] \in 1..Len(puts)
    BY <1>6 DEF Deep
  <2>2. SoundPut(k, Len(in), Len(out), star[s], ReadableOf(f), f.time, r.star, put)
    BY <1>3, <2>1
  <2> HIDE DEF y, put, k
  <2>3. /\ put.out \in 1..Len(out)
        /\ IF k \in Planned THEN star[s].completionTime <= put.time /\ put.time <= r.star.completionTime
           ELSE put.time = f.time
    BY <2>2 DEF SoundPut
  <2>4. SourceOf(galaxy, y.arc) = s
    BY <1>7, <2>1, <2>3
  <2>5. PutBy(f, y)
    BY <2>1, <2>3, <2>4 DEF PutBy, k
  <2> QED
    BY <2>5 DEF y
<1>9. \A i, j \in 1..Len(events) : events[i].level = events[j].level
  BY <1>3, <1>6
<1> QED
  BY <1>4, <1>6, <1>8, <1>9 DEF events, puts

\* What the firing leaves in the queue, and what it sends follows it.
LEMMA FiringFollows ==
  ASSUME Timely, Bounded, NEW f, Fired(f)
  PROVE  /\ InOrder(Remaining(f)) /\ Deep(SentBy(f)) /\ Follow(Remaining(f), SentBy(f))
<1> DEFINE q == Remaining(f)
           events == SentBy(f)
           e == Head(queue)
<1>1. Typed /\ InTime /\ Clocked /\ Configured /\ queue # <<>> /\ f = NextFiring
  BY DEF Timely, Typed, Fired, FiringDue
<1>2. Advanced(f, e)
  BY <1>1, FiredQueue
<1>3. SoundFiring(f) /\ f.time = e.level
  BY <1>2 DEF Advanced
<1>4. InOrder(f.queue) /\ \A y : Has(f.queue, y) => Has(queue, y)
  BY <1>1, NextFiringIs DEF Typed
<1>5. InOrder(q) /\ \A y : Has(q, y) => Has(f.queue, y)
  BY <1>4, KeptKeepsOrder DEF Remaining
<1>6. /\ Deep(events) /\ (\A j \in 1..Len(events) : PutBy(f, events[j]))
      /\ \A i, j \in 1..Len(events) : events[i].level = events[j].level
  BY <1>1, <1>3, PutsAre
<1>7. fired.time <= e.level
  BY <1>1, QueueIs DEF InTime
<1> HIDE DEF q, events
<1>8. ASSUME NEW i \in 1..Len(q), NEW j \in 1..Len(events), q[i].arc = events[j].arc
      PROVE  q[i].level <= events[j].level
  <2> DEFINE y == events[j]
             x == q[i]
  <2>1. Has(q, x)
    BY DEF Has
  <2>2. Has(queue, x)
    BY <1>4, <1>5, <2>1
  <2>3. PICK m \in 1..Len(queue) : queue[m] = x
    BY <2>2 DEF Has
  <2>4. x.level <= Bound(SourceOf(galaxy, x.arc)) /\ x \in EventSet
    BY <1>1, <2>3 DEF Bounded, Typed, InOrder
  <2>5. PutBy(f, y) /\ x.arc = y.arc
    BY <1>6, <1>8
  <2> HIDE DEF x, y
  <2>6. x.level <= Bound(f.star)
    BY <2>4, <2>5 DEF PutBy
  <2>7. Bound(f.star) <= y.level /\ Bound(f.star) \in Nat
    <3>1. fired.time \in Nat /\ f.star \in Stars(galaxy) /\ star[f.star].completionTime \in Nat
      BY <1>1, <1>3 DEF Typed, SoundFiring, StarSet
    <3> QED
      BY <1>3, <1>7, <2>5, <3>1 DEF PutBy, Bound
  <2>8. x.level \in Nat /\ y.level \in Nat
    BY <2>4, <2>5 DEF EventSet, PutBy
  <2>9. x.level <= y.level
    BY <2>6, <2>7, <2>8
  <2> QED
    BY <2>9 DEF x, y
<1> QED
  BY <1>5, <1>6, <1>8 DEF Follow, q, events

LEMMA FireKeepsBounded ==
  ASSUME Timely, Bounded, Fire
  PROVE  Bounded'
<1> DEFINE f == NextFiring
           e == Head(queue)
           s == f.star
           r == ResultOf(f)
<1>1. Typed /\ InTime /\ Clocked /\ Configured
  BY DEF Timely, Typed
<1>2. Fired(f)
  BY FireIs
<1> HIDE DEF f
<1>3. Advanced(f, e)
  BY <1>1, <1>2, FiredQueue, SMTT(30)
<1>4. /\ SoundFiring(f) /\ f.time = e.level /\ s \in Stars(galaxy) /\ queue # <<>>
      /\ star[s] \in StarSet(galaxy.kind[s]) /\ r.star \in StarSet(galaxy.kind[s])
      /\ galaxy.kind[s] \in Planned => star[s].completionTime <= r.star.completionTime
  <2>1. SoundFiring(f) /\ f.time = e.level /\ queue # <<>>
    BY <1>2, <1>3 DEF Advanced, Fired, FiringDue
  <2> QED
    BY <2>1 DEF SoundFiring, Sound
<1>5. /\ galaxy' = galaxy /\ fired'.time = f.time
      /\ star' = [star EXCEPT ![s] = r.star] /\ DOMAIN star = Stars(galaxy)
  <2>1. config' = config /\ fired'.time = f.time /\ star' = [star EXCEPT ![s] = r.star]
    BY <1>2 DEF Fired
  <2> QED
    BY <1>1, <2>1, ConfigIsKept DEF Typed
<1>6. star'[s] = r.star /\ \A u \in Stars(galaxy) : u # s => star'[u] = star[u]
  BY <1>4, <1>5
<1>7. fired.time <= f.time /\ fired.time \in Nat /\ f.time \in Nat
  <2>1. Has(queue, e) /\ e \in EventSet
    BY <1>1, <1>4, QueueIs
  <2> QED
    BY <1>1, <1>4, <2>1 DEF InTime, Has, Typed, EventSet
<1> DEFINE After(u) == IF galaxy.kind[u] \in Planned THEN star'[u].completionTime ELSE fired'.time
<1>8. \A u \in Stars(galaxy) : Bound(u) <= After(u) /\ Bound(u) \in Nat /\ After(u) \in Nat
  <2>1. SUFFICES ASSUME NEW u \in Stars(galaxy) PROVE Bound(u) <= After(u) /\ Bound(u) \in Nat /\ After(u) \in Nat
    OBVIOUS
  <2>2. star[u].completionTime \in Nat /\ r.star.completionTime \in Nat
    BY <1>1, <1>4 DEF Typed, StarSet
  <2> HIDE DEF s, r
  <2>3. CASE galaxy.kind[u] \notin Planned
    BY <1>5, <1>7, <2>3 DEF Bound
  <2>4. CASE galaxy.kind[u] \in Planned /\ u # s
    BY <1>6, <2>2, <2>4 DEF Bound
  <2>5. CASE galaxy.kind[u] \in Planned /\ u = s
    BY <1>4, <1>6, <2>2, <2>5 DEF Bound
  <2> QED
    BY <2>3, <2>4, <2>5
<1> DEFINE w == Remaining(f)
           events == SentBy(f)
<1>9. InOrder(w) /\ Deep(events) /\ Follow(w, events)
  BY <1>2, FiringFollows
<1>10. \A y : Has(w, y) => Has(queue, y)
  <2>1. f = NextFiring
    BY <1>2 DEF Fired
  <2>2. InOrder(f.queue) /\ \A y : Has(f.queue, y) => Has(queue, y)
    BY <1>1, <1>4, <2>1, NextFiringIs DEF Typed
  <2> QED
    BY <2>2, KeptKeepsOrder DEF Remaining
<1>11. \A i \in 1..Len(events) : PutBy(f, events[i])
  BY <1>1, <1>4, PutsAre
<1>12. Send(events, w)
  BY <1>2 DEF Fired
<1> HIDE DEF w, events, After
<1>13. \A y : Has(queue', y) <=> Has(w, y) \/ Has(events, y)
  BY <1>1, <1>9, <1>12, SendKeepsOrder
<1>14. ASSUME NEW i \in 1..Len(queue')
       PROVE  queue'[i].level <= After(SourceOf(galaxy, queue'[i].arc))
  <2> DEFINE y == queue'[i]
             u == SourceOf(galaxy, y.arc)
  <2>1. Has(queue', y)
    BY DEF Has
  <2>2. Has(w, y) \/ Has(events, y)
    BY <1>13, <2>1
  <2>3. CASE Has(w, y)
    <3>1. Has(queue, y)
      BY <1>10, <2>3
    <3>2. PICK m \in 1..Len(queue) : queue[m] = y
      BY <3>1 DEF Has
    <3>3. y \in EventSet /\ y.level <= Bound(u)
      BY <1>1, <3>2 DEF Bounded, Typed, InOrder
    <3>4. u \in Stars(galaxy) /\ y.level \in Nat
      <4>1. y.arc \in Arcs(galaxy) /\ y.level \in Nat /\ IsGalaxy(galaxy)
        BY <1>1, <3>3 DEF EventSet, Configured
      <4> HIDE DEF y
      <4> QED
        BY <4>1, Galaxy
    <3> HIDE DEF u, y
    <3>5. y.level <= After(u)
      BY <1>8, <3>3, <3>4
    <3> QED
      BY <3>5 DEF u, y
  <2>4. CASE Has(events, y)
    <3>1. PICK m \in 1..Len(events) : events[m] = y
      BY <2>4 DEF Has
    <3>2. PutBy(f, y)
      BY <1>11, <3>1
    <3>3. y.level <= After(s) /\ u = s
      <4> HIDE DEF y
      <4> QED
        BY <1>5, <1>6, <1>7, <3>2 DEF PutBy, After
    <3> QED
      BY <3>3
  <2> QED
    BY <2>2, <2>3, <2>4
<1> QED
  BY <1>5, <1>14 DEF Bounded, Bound, After

LEMMA OthersKeepBounded ==
  ASSUME Timely, Bounded, Begin \/ HaltBeforeGo \/ (queue' = queue /\ UNCHANGED <<config, star, fired>>)
  PROVE  Bounded'
<1>1. Typed /\ NotStarted /\ Configured
  BY DEF Timely, Typed
<1>2. /\ config' = config /\ star' = star /\ fired' = fired
  BY <1>1, BeginIs, HaltIs
<1>3. galaxy' = galaxy
  BY <1>2, ConfigIsKept
<1>4. \A y : Has(queue', y) => Has(queue, y) \/ (y \in EventSet /\ y.level = 0)
  BY <1>1, BeginIs, HaltIs DEF Begun, Behind
<1>5. ASSUME NEW i \in 1..Len(queue') PROVE queue'[i].level <= Bound(SourceOf(galaxy, queue'[i].arc))
  <2> DEFINE y == queue'[i]
             u == SourceOf(galaxy, y.arc)
  <2>1. Has(queue', y)
    BY DEF Has
  <2>2. CASE Has(queue, y)
    BY <2>2 DEF Has, Bounded
  <2>3. CASE y \in EventSet /\ y.level = 0
    <3>1. u \in Stars(galaxy)
      <4>1. y.arc \in Arcs(galaxy) /\ IsGalaxy(galaxy)
        BY <1>1, <2>3 DEF EventSet, Configured
      <4> HIDE DEF y
      <4> QED
        BY <4>1, Galaxy
    <3> HIDE DEF u
    <3>2. Bound(u) \in Nat
      BY <1>1, <3>1 DEF Bound, Typed, StarSet
    <3>3. y.level <= Bound(u)
      BY <2>3, <3>2
    <3> QED
      BY <3>3 DEF u
  <2> QED
    BY <1>4, <2>1, <2>2, <2>3
<1> QED
  BY <1>2, <1>3, <1>5 DEF Bounded, Bound

\* The last of what was sent, S, are the events L that are still in the queue.
Remembered(S, L) ==
    /\ S \in Seq(SentSet) /\ L \in Seq(EventSet) /\ Len(L) <= Len(S)
    /\ \A i \in 1..Len(L) : LET m == Len(S) - Len(L) + i
                            IN  m \in 1..Len(S) /\ S[m].time = L[i].level /\ S[m].val = L[i].val

\* R is what was sent, S, with the events N.
SentToo(S, N, R) ==
    /\ S \in Seq(SentSet) /\ R \in Seq(SentSet) /\ N \in Seq(EventSet) /\ Len(R) = Len(S) + Len(N)
    /\ \A i \in 1..Len(S) : R[i] = S[i]
    /\ \A j \in 1..Len(N) : /\ Len(S) + j \in 1..Len(R)
                            /\ R[Len(S) + j].time = N[j].level /\ R[Len(S) + j].val = N[j].val

LEMMA RecordedToo ==
  ASSUME NEW S \in Seq(SentSet), NEW N \in Seq(EventSet)
  PROVE  SentToo(S, N, S \o Recorded(N))
<1> DEFINE T == Recorded(N)
           R == S \o T
<1>1. T = [i \in 1..Len(N) |-> [time |-> N[i].level, val |-> N[i].val]]
  BY DEF Recorded
<1>2. \A i \in 1..Len(N) : N[i].level \in Nat /\ N[i].val \in Int
  <2>1. \A i \in 1..Len(N) : N[i] \in EventSet
    OBVIOUS
  <2> QED
    BY <2>1 DEF EventSet
<1>3. \A i \in 1..Len(N) : [time |-> N[i].level, val |-> N[i].val] \in SentSet
  BY <1>2 DEF SentSet
<1>4. T \in Seq(SentSet) /\ Len(T) = Len(N)
  BY <1>1, <1>3
<1>5. \A i \in 1..Len(N) : T[i].time = N[i].level /\ T[i].val = N[i].val
  BY <1>1
<1> HIDE DEF T
<1>6. R \in Seq(SentSet) /\ Len(R) = Len(S) + Len(N) /\ \A i \in 1..Len(S) : R[i] = S[i]
  BY <1>4
<1>7. \A j \in 1..Len(N) : Len(S) + j \in 1..Len(R) /\ R[Len(S) + j] = T[j]
  BY <1>4
<1> HIDE DEF R
<1> QED
  BY <1>5, <1>6, <1>7 DEF SentToo, R, T

\* The events L become K, and what was sent, S, becomes R, when k of them are taken
\* and the events N are sent.
PassedOn(S, L, k, N, R, K) ==
    Remembered(S, L) /\ SentToo(S, N, R) /\ \E M : Dropped(L, k, M) /\ K = M \o N

LEMMA RememberedStep ==
  ASSUME NEW S, NEW L, NEW k, NEW N, NEW R, NEW K, PassedOn(S, L, k, N, R, K)
  PROVE  Remembered(R, K) /\ Len(R) - Len(K) = (Len(S) - Len(L)) + k
<1>1. Remembered(S, L) /\ SentToo(S, N, R)
  BY DEF PassedOn
<1>2. PICK M : Dropped(L, k, M) /\ K = M \o N
  BY DEF PassedOn
<1>3. /\ S \in Seq(SentSet) /\ L \in Seq(EventSet) /\ Len(L) <= Len(S)
      /\ M \in Seq(EventSet) /\ k \in 0..Len(L) /\ Len(M) = Len(L) - k
      /\ R \in Seq(SentSet) /\ N \in Seq(EventSet) /\ Len(R) = Len(S) + Len(N)
  BY <1>1, <1>2 DEF Remembered, Dropped, SentToo
<1>4. /\ K \in Seq(EventSet) /\ Len(K) = Len(M) + Len(N)
      /\ (\A i \in 1..Len(M) : K[i] = M[i]) /\ \A j \in 1..Len(N) : K[Len(M) + j] = N[j]
  <2> DEFINE E == EventSet
  <2>1. M \in Seq(E) /\ N \in Seq(E) /\ K = M \o N
    BY <1>3, <1>2
  <2> HIDE DEF E
  <2>2. K \in Seq(E) /\ Joined(M, N, K)
    BY <2>1, JoinedIs
  <2> QED
    BY <2>1, <2>2 DEF Joined, E
<1> DEFINE d == Len(R) - Len(K)
<1>5. /\ d = (Len(S) - Len(L)) + k /\ d \in Nat /\ Len(K) <= Len(R)
      /\ Len(S) \in Nat /\ Len(L) \in Nat /\ Len(M) \in Nat /\ Len(N) \in Nat /\ d + Len(M) = Len(S)
  BY <1>3, <1>4
<1> HIDE DEF d
<1>6. ASSUME NEW i \in 1..Len(K)
      PROVE  d + i \in 1..Len(R) /\ R[d + i].time = K[i].level /\ R[d + i].val = K[i].val
  <2>1. CASE i \in 1..Len(M)
    <3> DEFINE j == i + k
               m == Len(S) - Len(L) + j
    <3>1. K[i] = M[i] /\ M[i] = L[j] /\ j \in 1..Len(L)
      BY <1>4, <1>2, <2>1 DEF Dropped
    <3>2. m = d + i /\ m \in Int
      BY <1>3, <1>5, <2>1
    <3> HIDE DEF j
    <3>3. m \in 1..Len(S) /\ S[m].time = L[j].level /\ S[m].val = L[j].val
      BY <1>1, <3>1 DEF Remembered
    <3> HIDE DEF m
    <3>4. R[m] = S[m] /\ m \in 1..Len(R)
      BY <1>1, <1>3, <1>5, <3>3 DEF SentToo
    <3> QED
      BY <3>1, <3>2, <3>3, <3>4
  <2>2. CASE i \notin 1..Len(M)
    <3> DEFINE j == i - Len(M)
    <3>1. i \in Int /\ i > Len(M) /\ i <= Len(M) + Len(N)
      BY <1>4, <1>5, <2>2
    <3>2. j \in 1..Len(N) /\ Len(M) + j = i /\ Len(S) + j = d + i
      BY <1>5, <3>1
    <3> HIDE DEF j
    <3>3. K[i] = N[j]
      BY <1>4, <3>2
    <3>4. /\ Len(S) + j \in 1..Len(R)
          /\ R[Len(S) + j].time = N[j].level /\ R[Len(S) + j].val = N[j].val
      BY <1>1, <3>2 DEF SentToo
    <3> QED
      BY <3>2, <3>3, <3>4
  <2> QED
    BY <2>1, <2>2
<1>7. Remembered(R, K)
  BY <1>3, <1>4, <1>5, <1>6 DEF Remembered, d
<1> QED
  BY <1>5, <1>7 DEF d

\* In a step, k of the events of arc p are taken, and the events N are sent along it.
Passes(p, k, N) ==
    /\ SentToo(sent[p], N, sent'[p])
    /\ \E M : Dropped(OnArc(queue, p), k, M) /\ OnArc(queue', p) = M \o N

\* The number of events of arc p that have left the queue.
Taken(p) == Len(sent[p]) - Len(OnArc(queue, p))

\* The events of the arcs are the last ones sent, but those to a Statistics star,
\* which takes them in another way.
Followed == \A p \in Arcs(galaxy) :
    galaxy.kind[DestOf(galaxy, p)] # "Statistics" => Remembered(sent[p], OnArc(queue, p))

\* What a step does where an event is remembered.
Advances(p, k, N) ==
    /\ SentToo(sent[p], N, sent'[p]) /\ k \in 0..Len(OnArc(queue, p))
    /\ Remembered(sent[p], OnArc(queue, p)) /\ Remembered(sent'[p], OnArc(queue', p))
    /\ Taken(p) \in 0..Len(sent[p]) /\ Len(sent'[p]) - Len(OnArc(queue', p)) = Taken(p) + k

LEMMA PassesAdvances ==
  ASSUME NEW p, Remembered(sent[p], OnArc(queue, p)), NEW k, NEW N, Passes(p, k, N)
  PROVE  Advances(p, k, N)
<1> DEFINE S == sent[p]
           L == OnArc(queue, p)
           R == sent'[p]
           K == OnArc(queue', p)
<1>1. SentToo(S, N, R)
  BY DEF Passes
<1>2. PICK M : Dropped(L, k, M) /\ K = M \o N
  BY DEF Passes
<1>3. k \in 0..Len(L)
  BY <1>2 DEF Dropped
<1>4. Remembered(S, L)
  OBVIOUS
<1> HIDE DEF S, L, R, K
<1>5. PassedOn(S, L, k, N, R, K)
  BY <1>1, <1>2, <1>4 DEF PassedOn
<1>6. Remembered(R, K) /\ Len(R) - Len(K) = (Len(S) - Len(L)) + k
  BY <1>5, RememberedStep
<1>7. Len(S) - Len(L) \in 0..Len(S)
  <2>1. Len(S) \in Nat /\ Len(L) \in Nat /\ Len(L) <= Len(S)
    BY <1>4 DEF Remembered
  <2> QED
    BY <2>1
<1> QED
  BY <1>1, <1>3, <1>4, <1>6, <1>7 DEF Advances, Taken, S, L, R, K

\* Along every arc, the firing f sends its puts.
LEMMA FireSends ==
  ASSUME Timely, NEW f, Fired(f), NEW p \in Arcs(galaxy)
  PROVE  SentToo(sent[p], OnArc(SentBy(f), p), sent'[p])
<1> DEFINE events == SentBy(f)
           N == OnArc(events, p)
           S == sent[p]
<1>1. Typed /\ InTime /\ Clocked /\ Configured
  BY DEF Timely, Typed
<1>2. SoundFiring(f)
  BY <1>1, FiredQueue DEF Advanced
<1>3. events \in Seq(EventSet)
  BY <1>1, <1>2, PutsAre DEF Deep
<1>4. Send(events, Remaining(f))
  BY DEF Fired
<1> HIDE DEF events
<1>5. N \in Seq(EventSet)
  BY <1>3, RecordedIs
<1>6. S \in Seq(SentSet)
  BY <1>1 DEF Typed
<1>7. sent'[p] = S \o Recorded(N)
  <2>1. sent \in [Arcs(galaxy) -> Seq(SentSet)]
    BY <1>1 DEF Typed
  <2> QED
    BY <1>3, <1>4, <2>1, SentIs
<1> HIDE DEF N, S
<1>8. SentToo(S, N, S \o Recorded(N))
  BY <1>5, <1>6, RecordedToo
<1> QED
  BY <1>7, <1>8 DEF N, S, events

\* The number of events of arc p that leave the queue when the firing f takes n.
LeftOf(f, p, n) == IF p \in DrainedBy(f) \/ n = 0 THEN n ELSE 1

LEMMA FirePasses ==
  ASSUME Timely, Bounded, NEW f, Fired(f), NEW p \in Arcs(galaxy), NEW n, Taking(f, p, n)
  PROVE  Passes(p, LeftOf(f, p, n), OnArc(SentBy(f), p))
<1>1. Typed /\ InTime /\ Clocked /\ Configured
  BY DEF Timely, Typed
<1>2. SoundFiring(f) /\ f.queue \in Seq(EventSet) /\ f.ports \in PortsSet
  BY <1>1, FiredQueue DEF Advanced
<1>3. Leaving(f, p, n)
  BY <1>1, <1>2, LeavingIs
<1> DEFINE w == Remaining(f)
           events == SentBy(f)
<1>4. InOrder(w) /\ Deep(events) /\ Follow(w, events)
  BY FiringFollows
<1>5. Send(events, w)
  BY DEF Fired
<1> HIDE DEF w, events
<1>6. OnArc(queue', p) = OnArc(w, p) \o OnArc(events, p)
  BY <1>1, <1>4, <1>5, SendOnArc
<1>7. SentToo(sent[p], OnArc(events, p), sent'[p])
  BY FireSends DEF events
<1>8. Dropped(OnArc(queue, p), LeftOf(f, p, n), OnArc(w, p))
  BY <1>3 DEF Leaving, LeftOf, w
<1> QED
  BY <1>6, <1>7, <1>8 DEF Passes, events

LEMMA NothingToo ==
  ASSUME NEW S \in Seq(SentSet)
  PROVE  SentToo(S, <<>>, S)
<1>1. <<>> \in Seq(EventSet) /\ Len(<<>>) = 0
  OBVIOUS
<1> QED
  BY <1>1 DEF SentToo

LEMMA HaltPasses ==
  ASSUME Timely, HaltBeforeGo, NEW f, f = NextFiring, NEW p \in Arcs(galaxy), NEW n, Taking(f, p, n)
  PROVE  Passes(p, IF n = 0 THEN 0 ELSE 1, <<>>)
<1> DEFINE L == OnArc(queue, p)
           M == OnArc(f.queue, p)
           k == IF n = 0 THEN 0 ELSE 1
<1>1. sent' = sent /\ queue' = f.queue
  BY DEF HaltBeforeGo
<1>2. sent[p] \in Seq(SentSet)
  BY DEF Timely, Typed
<1>3. Dropped(L, k, M)
  BY DEF Taking
<1> HIDE DEF L, M, k
<1>4. M \in Seq(EventSet)
  BY <1>3 DEF Dropped
<1>5. M = M \o <<>>
  BY <1>4
<1>6. SentToo(sent[p], <<>>, sent'[p])
  BY <1>1, <1>2, NothingToo
<1> QED
  BY <1>1, <1>3, <1>5, <1>6 DEF Passes, L, M, k

LEMMA BeginPasses ==
  ASSUME Timely, Begin, NEW p \in Arcs(galaxy)
  PROVE  Passes(p, 0, OnArc(FirstPuts, p))
<1> DEFINE events == FirstPuts
           N == OnArc(events, p)
           S == sent[p]
           q == queue
           L == OnArc(q, p)
<1>1. Typed /\ NotStarted /\ Configured /\ InOrder(q)
  BY DEF Timely, Typed
<1>2. queue = <<>> /\ Send(events, <<>>)
  BY <1>1, BeginIs
<1>3. Deep(events) /\ events \in Seq(EventSet) /\ \A i \in 1..Len(events) : events[i].level = 0
  BY <1>1, FirstPutsAre DEF Deep
<1>4. Send(events, q) /\ Follow(q, events)
  BY <1>2, <1>3 DEF Follow
<1>5. L = <<>>
  BY <1>2, OnArcNone
<1> HIDE DEF events, q
<1>6. N \in Seq(EventSet)
  BY <1>3, RecordedIs
<1>7. S \in Seq(SentSet)
  BY <1>1 DEF Typed
<1>8. sent'[p] = S \o Recorded(N)
  <2>1. sent \in [Arcs(galaxy) -> Seq(SentSet)]
    BY <1>1 DEF Typed
  <2> QED
    BY <1>3, <1>4, <2>1, SentIs
<1>9. OnArc(queue', p) = L \o N
  BY <1>1, <1>3, <1>4, SendOnArc DEF q
<1> HIDE DEF N, S, L
<1>10. SentToo(S, N, sent'[p])
  BY <1>6, <1>7, <1>8, RecordedToo
<1>11. Dropped(L, 0, L)
  <2>1. L \in Seq(EventSet) /\ Len(L) = 0
    BY <1>5
  <2> QED
    BY <2>1 DEF Dropped
<1> QED
  BY <1>9, <1>10, <1>11 DEF Passes, N, S, L, events, q

\* The arcs and the star of a firing.
LEMMA FiringTakes ==
  ASSUME Timely, Fire \/ HaltBeforeGo, NEW f, f = NextFiring, NEW p \in Arcs(galaxy),
         galaxy.kind[DestOf(galaxy, p)] # "Statistics"
  PROVE  \E n : Taking(f, p, n)
<1>1. queue # <<>> /\ Typed
  BY Zenon DEF Fire, HaltBeforeGo, FiringDue, Timely
<1>2. DestOf(galaxy, p) # f.star \/ ~Phase(f.star)
  BY DEF Phase
<1> QED
  BY <1>1, <1>2, TakingIs

LEMMA NextIsFollowed ==
  ASSUME Timely, Bounded, Followed, Next
  PROVE  Followed'
<1>1. config' = config
  BY Zenon DEF Next, Begin, Run, StopBeforeDead, EventInThePast, NoMoreEvents, Fire, HaltBeforeGo
<1>2. galaxy' = galaxy
  BY <1>1, ConfigIsKept
<1>3. SUFFICES ASSUME NEW p \in Arcs(galaxy), galaxy.kind[DestOf(galaxy, p)] # "Statistics"
               PROVE  Remembered(sent'[p], OnArc(queue', p))
  BY <1>2 DEF Followed, Remembered, EventSet
<1>4. Remembered(sent[p], OnArc(queue, p))
  BY <1>3 DEF Followed
<1>5. CASE Fire
  <2> DEFINE f == NextFiring
  <2>1. Fired(f)
    BY <1>5, FireIs
  <2>2. PICK n : Taking(f, p, n)
    BY <1>3, <1>5, FiringTakes
  <2> HIDE DEF f
  <2>3. Passes(p, LeftOf(f, p, n), OnArc(SentBy(f), p))
    BY <2>1, <2>2, FirePasses
  <2> DEFINE k == LeftOf(f, p, n)
             N == OnArc(SentBy(f), p)
  <2> HIDE DEF k, N
  <2>4. Passes(p, k, N)
    BY <2>3 DEF k, N
  <2> QED
    BY <1>4, <2>4, PassesAdvances DEF Advances
<1>6. CASE HaltBeforeGo
  <2> DEFINE f == NextFiring
  <2>1. PICK n : Taking(f, p, n)
    BY <1>3, <1>6, FiringTakes
  <2>2. Passes(p, IF n = 0 THEN 0 ELSE 1, <<>>)
    BY <1>6, <2>1, HaltPasses
  <2> QED
    BY <1>4, <2>2, PassesAdvances DEF Advances
<1>7. CASE Begin
  <2>1. Passes(p, 0, OnArc(FirstPuts, p))
    BY <1>7, BeginPasses
  <2> QED
    BY <1>4, <2>1, PassesAdvances DEF Advances
<1>8. CASE queue' = queue /\ sent' = sent
  BY <1>4, <1>8
<1> QED
  BY <1>5, <1>6, <1>7, <1>8 DEF Next, Run, StopBeforeDead, EventInThePast, NoMoreEvents

\* The invariant behind the properties of what was sent.
Accountable == Timely /\ Bounded /\ Followed

LEMMA SetupIsAccountable ==
  ASSUME Init
  PROVE  Accountable
<1>1. queue = <<>> /\ sent = [p \in Arcs(galaxy) |-> <<>>]
  BY DEF Init, Setup
<1>2. Bounded
  BY <1>1 DEF Bounded
<1>3. \A p \in Arcs(galaxy) : OnArc(queue, p) = <<>> /\ sent[p] = <<>>
  BY <1>1, OnArcNone
<1>4. Followed
  <2>1. Remembered(<<>>, <<>>)
    <3>1. <<>> \in Seq(SentSet) /\ <<>> \in Seq(EventSet) /\ Len(<<>>) = 0
      OBVIOUS
    <3> QED
      BY <3>1 DEF Remembered
  <2> QED
    BY <1>3, <2>1 DEF Followed
<1> QED
  BY <1>2, <1>4, SetupIsTimely DEF Accountable

LEMMA NextIsAccountable ==
  ASSUME Accountable, Next
  PROVE  Accountable'
<1>1. Timely /\ Bounded /\ Followed
  BY DEF Accountable
<1>2. Timely'
  BY <1>1, BeginKeepsTimely, FireKeepsTimely, OthersKeepTimely DEF Next
<1>3. Bounded'
  <2>1. CASE Fire
    BY <1>1, <2>1, FireKeepsBounded
  <2>2. CASE Begin \/ HaltBeforeGo
    BY <1>1, <2>2, OthersKeepBounded
  <2>3. CASE queue' = queue /\ UNCHANGED <<config, star, fired>>
    BY <1>1, <2>3, OthersKeepBounded
  <2> QED
    BY <2>1, <2>2, <2>3 DEF Next, Run, StopBeforeDead, EventInThePast, NoMoreEvents
<1> QED
  BY <1>1, <1>2, <1>3, NextIsFollowed DEF Accountable

LEMMA StepIsAccountable ==
  ASSUME Accountable, [Next]_vars
  PROVE  Accountable'
<1>1. CASE UNCHANGED vars
  <2>1. Timely'
    BY StepIsTimely DEF Accountable
  <2>2. Bounded' /\ Followed'
    BY <1>1, ZenonT(40) DEF vars, Accountable, Bounded, Bound, Followed, Remembered, EventSet
  <2> QED
    BY <2>1, <2>2 DEF Accountable
<1>2. CASE Next
  BY <1>2, NextIsAccountable
<1> QED
  BY <1>1, <1>2

LEMMA AccountableHolds == Spec => []Accountable
<1>1. Init => Accountable
  BY SetupIsAccountable
<1>2. Accountable /\ [Next]_vars => Accountable'
  BY StepIsAccountable
<1> QED
  BY <1>1, <1>2, PTL DEF Spec

-----------------------------------------------------------------------------
(* What a star with one put or none sends *)

\* The events N are the one put x.
IsPut(N, x) == N \in Seq(EventSet) /\ Len(N) = 1 /\ N[1].level = x.time /\ N[1].val = x.val

LEMMA OnePutIsSent ==
  ASSUME Configured, NEW s, NEW x, PutsOf(s, <<x>>), NEW p, p = galaxy.out[s][x.out]
  PROVE  IsPut(OnArc(Events(s, <<x>>), p), x)
<1> DEFINE puts == <<x>>
           o == x.out
           c == <<1>>
           N == OnArc(Events(s, puts), p)
<1>1. puts \in Seq(PutSet) /\ Len(puts) = 1 /\ puts[1] = x /\ x.out \in 1..Len(galaxy.out[s])
  BY DEF PutsOf
<1>2. OutPlaces(puts, o) = {1}
  BY <1>1 DEF OutPlaces
<1>3. Enumerates(c, {1})
  BY DEF Enumerates
<1> HIDE DEF puts, c, N
<1>4. PutAlong(puts, o, p, c, N)
  <2>1. PutsOf(s, puts) /\ o \in 1..Len(galaxy.out[s]) /\ Enumerates(c, OutPlaces(puts, o))
    BY <1>1, <1>2, <1>3 DEF puts
  <2> QED
    BY <2>1, SentOnOutput DEF N
<1>5. Len(c) = 1 /\ c[1] = 1
  BY DEF c
<1>6. N \in Seq(EventSet) /\ Len(N) = 1 /\ N[1].level = puts[1].time /\ N[1].val = puts[1].val
  BY <1>4, <1>5 DEF PutAlong
<1> QED
  BY <1>1, <1>6 DEF IsPut, N, puts

LEMMA NoPutIsSent ==
  ASSUME Configured, NEW s, PutsOf(s, <<>>), NEW p
  PROVE  OnArc(Events(s, <<>>), p) = <<>>
<1> DEFINE order == SendOrder(<<>>)
           events == Events(s, <<>>)
<1>1. /\ SendingOrder(<<>>, order) /\ Deep(events) /\ Len(events) = Len(order)
  BY EventsOfPuts
<1> HIDE DEF order, events
<1>2. order \in Seq(Nat) /\ \A k \in 1..Len(order) : order[k] \in 1..0
  <2>1. Len(<<>>) = 0
    OBVIOUS
  <2> QED
    BY <1>1, <2>1 DEF SendingOrder
<1>3. events = <<>>
  <2>1. Len(order) = 0
    BY <1>2
  <2>2. events \in Seq(EventSet) /\ Len(events) = 0
    BY <1>1, <2>1 DEF Deep
  <2> QED
    BY <2>2
<1> QED
  BY <1>3, OnArcNone DEF events

-----------------------------------------------------------------------------
(* A step seen from one star *)

\* Star s does not fire: it loses at most one event at an input, to a halt.
Idles(s) ==
    /\ star'[s] = star[s]
    /\ \A o \in 1..Len(galaxy.out[s]) :
          SentToo(sent[galaxy.out[s][o]], <<>>, sent'[galaxy.out[s][o]])
    /\ \A i \in 1..Len(galaxy.in[s]) : \E k, N :
          /\ Advances(galaxy.in[s][i], k, N) /\ k \in 0..1
          /\ k = 1 => halts' = halts + 1 /\ "pre" \in use.halts
    /\ "pre" \notin use.halts => \A i \in 1..Len(galaxy.in[s]) :
          /\ input'[galaxy.in[s][i]].new = input[galaxy.in[s][i]].new
          /\ input'[galaxy.in[s][i]].val = input[galaxy.in[s][i]].val

\* Its firing f takes n of the events at the i-th input.
Takes(f, i, n) ==
    LET p == galaxy.in[f.star][i]
    IN  /\ Taking(f, p, n) /\ Seen(f, i, n)
        /\ \E N : Advances(p, LeftOf(f, p, n), N)

\* Star s fires.
Fires(f, s) ==
    /\ s = f.star /\ s \in Stars(galaxy) /\ SoundFiring(f) /\ PutsOf(s, ResultOf(f).puts)
    /\ f.ports \in PortsSet /\ f.queue \in Seq(EventSet)
    /\ star'[s] = ResultOf(f).star /\ input' = InputAfter(f)
    /\ \A o \in 1..Len(galaxy.out[s]) :
          SentToo(sent[galaxy.out[s][o]], OnArc(Events(s, ResultOf(f).puts), galaxy.out[s][o]),
                  sent'[galaxy.out[s][o]])
    /\ \A i \in 1..Len(galaxy.in[s]) : \E n : Takes(f, i, n)
    /\ \E i \in 1..Len(galaxy.in[s]) : galaxy.in[s][i] = Head(queue).arc

LEMMA PortsOf ==
  ASSUME Configured, NEW s \in Stars(galaxy)
  PROVE  /\ \A i \in 1..Len(galaxy.in[s]) : galaxy.in[s][i] \in Arcs(galaxy) /\ DestOf(galaxy, galaxy.in[s][i]) = s
         /\ \A o \in 1..Len(galaxy.out[s]) : galaxy.out[s][o] \in Arcs(galaxy) /\ SourceOf(galaxy, galaxy.out[s][o]) = s
         /\ galaxy.in[s] \in Seq(Arcs(galaxy)) /\ galaxy.out[s] \in Seq(Arcs(galaxy))
         /\ IsStar(galaxy.kind[s], galaxy.param[s], galaxy.in[s], galaxy.out[s])
<1>1. IsGalaxy(galaxy)
  BY DEF Configured
<1> QED
  BY <1>1, Galaxy

LEMMA RememberedAt ==
  ASSUME Accountable, NEW s \in Stars(galaxy), galaxy.kind[s] # "Statistics", NEW i \in 1..Len(galaxy.in[s])
  PROVE  /\ Remembered(sent[galaxy.in[s][i]], OnArc(queue, galaxy.in[s][i]))
         /\ galaxy.in[s][i] \in Arcs(galaxy) /\ DestOf(galaxy, galaxy.in[s][i]) = s
<1>1. Configured /\ Followed
  BY DEF Accountable, Timely, Typed
<1>2. galaxy.in[s][i] \in Arcs(galaxy) /\ DestOf(galaxy, galaxy.in[s][i]) = s
  BY <1>1, PortsOf
<1> DEFINE p == galaxy.in[s][i]
<1>3. p \in Arcs(galaxy) /\ galaxy.kind[DestOf(galaxy, p)] # "Statistics"
  BY <1>2
<1> HIDE DEF p
<1>4. Remembered(sent[p], OnArc(queue, p))
  BY <1>1, <1>3 DEF Followed
<1> QED
  BY <1>2, <1>4 DEF p

LEMMA StarFires ==
  ASSUME Accountable, Fire, NEW f, f = NextFiring, galaxy.kind[f.star] # "Statistics"
  PROVE  Fires(f, f.star) /\ Fired(f)
<1> DEFINE s == f.star
           e == Head(queue)
           puts == ResultOf(f).puts
<1>1. Timely /\ Bounded /\ Typed /\ InTime /\ Clocked /\ Configured
  BY DEF Accountable, Timely, Typed
<1>2. Fired(f)
  BY FireIs
<1>3. /\ SoundFiring(f) /\ f.ports \in PortsSet /\ f.queue \in Seq(EventSet) /\ s = Dest(e)
      /\ e.arc \in ToSet(galaxy.in[s])
  BY <1>1, <1>2, FiredQueue, SMTT(30) DEF Advanced
<1>4. s \in Stars(galaxy) /\ PutsOf(s, puts)
  BY <1>1, <1>3, PutsAre DEF SoundFiring
<1>5. star'[s] = ResultOf(f).star /\ input' = InputAfter(f)
  BY <1>1, <1>2, <1>4 DEF Fired, Typed
<1>6. \E i \in 1..Len(galaxy.in[s]) : galaxy.in[s][i] = e.arc
  <2>1. galaxy.in[s] \in Seq(Arcs(galaxy))
    BY <1>1, <1>4, PortsOf
  <2> QED
    BY <1>3, <2>1, SMTT(30) DEF ToSet
<1>7. \A o \in 1..Len(galaxy.out[s]) :
          SentToo(sent[galaxy.out[s][o]], OnArc(Events(s, puts), galaxy.out[s][o]), sent'[galaxy.out[s][o]])
  <2>1. SUFFICES ASSUME NEW o \in 1..Len(galaxy.out[s])
                 PROVE  SentToo(sent[galaxy.out[s][o]], OnArc(Events(s, puts), galaxy.out[s][o]),
                                sent'[galaxy.out[s][o]])
    OBVIOUS
  <2> DEFINE p == galaxy.out[s][o]
  <2>2. p \in Arcs(galaxy)
    BY <1>1, <1>4, PortsOf
  <2> HIDE DEF p
  <2>3. SentToo(sent[p], OnArc(SentBy(f), p), sent'[p])
    BY <1>1, <1>2, <2>2, FireSends
  <2> QED
    BY <2>3 DEF SentBy, p
<1>8. \A i \in 1..Len(galaxy.in[s]) : \E n : Takes(f, i, n)
  <2>1. SUFFICES ASSUME NEW i \in 1..Len(galaxy.in[s]) PROVE \E n : Takes(f, i, n)
    OBVIOUS
  <2> DEFINE p == galaxy.in[s][i]
  <2>2. Remembered(sent[p], OnArc(queue, p)) /\ p \in Arcs(galaxy) /\ DestOf(galaxy, p) = s
    BY <1>4, RememberedAt
  <2>3. ~Phase(s)
    BY DEF Phase
  <2> HIDE DEF p
  <2>4. PICK n : Taking(f, p, n)
    BY <1>1, <2>2, FiringTakes
  <2>5. Seen(f, i, n)
    BY <1>1, <1>3, <2>3, <2>4, SeenIs DEF p
  <2>6. Passes(p, LeftOf(f, p, n), OnArc(SentBy(f), p))
    BY <1>1, <1>2, <2>2, <2>4, FirePasses
  <2> DEFINE k == LeftOf(f, p, n)
             N == OnArc(SentBy(f), p)
  <2> HIDE DEF k, N
  <2>7. Advances(p, k, N)
    BY <2>2, <2>6, PassesAdvances DEF k, N
  <2>8. Takes(f, i, n)
    BY <2>4, <2>5, <2>7 DEF Takes, p, k
  <2> QED
    BY <2>8
<1> QED
  BY <1>2, <1>3, <1>4, <1>5, <1>6, <1>7, <1>8 DEF Fires

\* A clock alone puts anything in Begin.
LEMMA BeginSendsNothing ==
  ASSUME Configured, NEW p \in Arcs(galaxy), galaxy.kind[SourceOf(galaxy, p)] # "Clock"
  PROVE  OnArc(FirstPuts, p) = <<>>
<1> DEFINE events == FirstPuts
<1>1. /\ Deep(events) /\ Len(events) = Len(ClocksOf)
      /\ \A i \in 1..Len(events) : /\ ClocksOf[i] \in Stars(galaxy) /\ galaxy.kind[ClocksOf[i]] = "Clock"
                                   /\ events[i].arc = galaxy.out[ClocksOf[i]][2]
  BY FirstPutsAre
<1> HIDE DEF events
<1>2. ASSUME NEW i \in 1..Len(events) PROVE events[i].arc # p
  <2> DEFINE c == ClocksOf[i]
  <2>1. c \in Stars(galaxy) /\ galaxy.kind[c] = "Clock" /\ events[i].arc = galaxy.out[c][2]
    BY <1>1
  <2> HIDE DEF c
  <2>2. p = galaxy.out[c][2] => SourceOf(galaxy, p) = c
    BY <2>1, ClockArcs
  <2> QED
    BY <2>1, <2>2
<1>3. PICK o : AlongArc(events, p, o)
  <2>1. events \in Seq(EventSet)
    BY <1>1 DEF Deep
  <2> QED
    BY <2>1, OnArcIs
<1>4. Len(o) = 0 /\ Len(OnArc(events, p)) = 0 /\ OnArc(events, p) \in Seq(EventSet)
  <2>1. o \in Seq(Nat) /\ Len(OnArc(events, p)) = Len(o) /\ OnArc(events, p) \in Seq(EventSet)
        /\ \A i \in 1..Len(o) : o[i] \in 1..Len(events) /\ events[o[i]].arc = p
    BY <1>3 DEF AlongArc, Enumerates
  <2>2. 1 \notin 1..Len(o)
    BY <1>2, <2>1
  <2> QED
    BY <2>1, <2>2
<1> QED
  BY <1>4 DEF events

LEMMA NothingPasses ==
  ASSUME Accountable, queue' = queue, sent' = sent, NEW p \in Arcs(galaxy)
  PROVE  Passes(p, 0, <<>>)
<1> DEFINE L == OnArc(queue, p)
<1>1. queue \in Seq(EventSet) /\ sent[p] \in Seq(SentSet)
  BY DEF Accountable, Timely, Typed, InOrder
<1>2. L \in Seq(EventSet)
  BY <1>1, RecordedIs
<1>3. OnArc(queue', p) = L
  OBVIOUS
<1> HIDE DEF L
<1>4. Dropped(L, 0, L) /\ L = L \o <<>>
  BY <1>2 DEF Dropped
<1>5. SentToo(sent[p], <<>>, sent'[p])
  BY <1>1, NothingToo
<1> QED
  BY <1>3, <1>4, <1>5 DEF Passes, L

LEMMA OtherFires ==
  ASSUME Accountable, Fire, NEW s \in Stars(galaxy), NextFiring.star # s,
         galaxy.kind[s] # "Statistics"
  PROVE  Idles(s)
<1> DEFINE f == NextFiring
<1>1. Timely /\ Bounded /\ Typed /\ InTime /\ Clocked /\ Configured
  BY DEF Accountable, Timely, Typed
<1>2. Fired(f)
  BY FireIs
<1>3. f.star # s /\ f = NextFiring
  OBVIOUS
<1> HIDE DEF f
<1>4. SoundFiring(f) /\ f.ports \in PortsSet /\ f.queue \in Seq(EventSet)
  BY <1>1, <1>2, FiredQueue DEF Advanced
<1>5. star'[s] = star[s]
  BY <1>1, <1>2, <1>3 DEF Fired, Typed
<1>6. ASSUME NEW o \in 1..Len(galaxy.out[s])
      PROVE  SentToo(sent[galaxy.out[s][o]], <<>>, sent'[galaxy.out[s][o]])
  <2> DEFINE p == galaxy.out[s][o]
  <2>1. p \in Arcs(galaxy) /\ SourceOf(galaxy, p) = s
    BY <1>1, PortsOf
  <2> HIDE DEF p
  <2>2. SentToo(sent[p], OnArc(SentBy(f), p), sent'[p])
    BY <1>1, <1>2, <2>1, FireSends
  <2> DEFINE u == f.star
             puts == ResultOf(f).puts
  <2>3. PutsOf(u, puts) /\ SentBy(f) = Events(u, puts)
    BY <1>1, <1>4, PutsAre DEF SentBy
  <2> HIDE DEF puts, u
  <2>4. SourceOf(galaxy, p) # u
    BY <1>3, <2>1 DEF u
  <2>5. OnArc(SentBy(f), p) = <<>>
    BY <1>1, <2>3, <2>4, NothingElsewhere
  <2> QED
    BY <2>2, <2>5 DEF p
<1>7. ASSUME NEW i \in 1..Len(galaxy.in[s])
      PROVE  /\ \E N : Advances(galaxy.in[s][i], 0, N)
             /\ input'[galaxy.in[s][i]] = input[galaxy.in[s][i]]
  <2> DEFINE p == galaxy.in[s][i]
  <2>1. Remembered(sent[p], OnArc(queue, p)) /\ p \in Arcs(galaxy) /\ DestOf(galaxy, p) = s
    BY RememberedAt
  <2> HIDE DEF p
  <2>2. PICK n : Taking(f, p, n)
    BY <1>1, <1>3, <2>1, FiringTakes
  <2>3. n = 0 /\ f.ports[p] = input[p]
    BY <1>3, <2>1, <2>2 DEF Taking
  <2>4. Passes(p, LeftOf(f, p, n), OnArc(SentBy(f), p))
    BY <1>1, <1>2, <2>1, <2>2, FirePasses
  <2> DEFINE N == OnArc(SentBy(f), p)
  <2> HIDE DEF N
  <2>5. Passes(p, 0, N)
    BY <2>3, <2>4 DEF LeftOf, N
  <2>6. Advances(p, 0, N)
    BY <2>1, <2>5, PassesAdvances
  <2>7. input'[p] = input[p]
    <3>1. InputAfter(f)[p] = f.ports[p]
      BY <1>1, <1>3, <1>4, <2>1, InputAfterIs
    <3> QED
      BY <1>2, <2>3, <3>1 DEF Fired
  <2> QED
    BY <2>6, <2>7 DEF p
<1> QED
  BY <1>5, <1>6, <1>7 DEF Idles

LEMMA HaltIdles ==
  ASSUME Accountable, HaltBeforeGo, NEW s \in Stars(galaxy), galaxy.kind[s] # "Statistics"
  PROVE  Idles(s)
<1> DEFINE f == NextFiring
<1>1. Timely /\ Bounded /\ Typed /\ Configured
  BY DEF Accountable, Timely, Typed
<1>2. star' = star /\ sent' = sent /\ halts' = halts + 1 /\ "pre" \in use.halts
  BY DEF HaltBeforeGo
<1>3. ASSUME NEW o \in 1..Len(galaxy.out[s])
      PROVE  SentToo(sent[galaxy.out[s][o]], <<>>, sent'[galaxy.out[s][o]])
  <2> DEFINE p == galaxy.out[s][o]
  <2>1. p \in Arcs(galaxy)
    BY <1>1, PortsOf
  <2> HIDE DEF p
  <2>2. sent[p] \in Seq(SentSet) /\ sent'[p] = sent[p]
    BY <1>1, <1>2, <2>1 DEF Typed
  <2>3. SentToo(sent[p], <<>>, sent'[p])
    BY <2>2, NothingToo
  <2> QED
    BY <2>3 DEF p
<1>4. ASSUME NEW i \in 1..Len(galaxy.in[s])
      PROVE  \E k, N : Advances(galaxy.in[s][i], k, N) /\ k \in 0..1
  <2> DEFINE p == galaxy.in[s][i]
  <2>1. Remembered(sent[p], OnArc(queue, p)) /\ p \in Arcs(galaxy) /\ DestOf(galaxy, p) = s
    BY RememberedAt
  <2> HIDE DEF p
  <2>2. PICK n : Taking(f, p, n)
    BY <1>1, <2>1, FiringTakes
  <2> DEFINE k == IF n = 0 THEN 0 ELSE 1
  <2>3. Passes(p, k, <<>>)
    BY <1>1, <2>1, <2>2, HaltPasses
  <2>4. k \in 0..1
    OBVIOUS
  <2> HIDE DEF k
  <2>5. Advances(p, k, <<>>)
    BY <2>1, <2>3, PassesAdvances
  <2> QED
    BY <2>4, <2>5 DEF p
<1> QED
  BY <1>2, <1>3, <1>4 DEF Idles

LEMMA BeginIdles ==
  ASSUME Accountable, Begin, NEW s \in Stars(galaxy), galaxy.kind[s] \notin {"Clock", "Statistics"}
  PROVE  Idles(s)
<1>1. Timely /\ Bounded /\ Typed /\ Configured /\ NotStarted
  BY DEF Accountable, Timely, Typed
<1>2. star' = star /\ input' = input
  BY <1>1, BeginIs
<1>3. ASSUME NEW o \in 1..Len(galaxy.out[s])
      PROVE  SentToo(sent[galaxy.out[s][o]], <<>>, sent'[galaxy.out[s][o]])
  <2> DEFINE p == galaxy.out[s][o]
  <2>1. p \in Arcs(galaxy) /\ SourceOf(galaxy, p) = s
    BY <1>1, PortsOf
  <2> HIDE DEF p
  <2>2. OnArc(FirstPuts, p) = <<>>
    BY <1>1, <2>1, BeginSendsNothing
  <2>3. Passes(p, 0, OnArc(FirstPuts, p))
    BY <1>1, <2>1, BeginPasses
  <2>4. SentToo(sent[p], OnArc(FirstPuts, p), sent'[p])
    BY <2>3 DEF Passes
  <2> QED
    BY <2>2, <2>4 DEF p
<1>4. ASSUME NEW i \in 1..Len(galaxy.in[s])
      PROVE  \E N : Advances(galaxy.in[s][i], 0, N)
  <2> DEFINE p == galaxy.in[s][i]
  <2>1. Remembered(sent[p], OnArc(queue, p)) /\ p \in Arcs(galaxy)
    BY RememberedAt
  <2> HIDE DEF p
  <2> DEFINE N == OnArc(FirstPuts, p)
  <2>2. Passes(p, 0, N)
    BY <1>1, <2>1, BeginPasses
  <2> HIDE DEF N
  <2>3. Advances(p, 0, N)
    BY <2>1, <2>2, PassesAdvances
  <2> QED
    BY <2>3 DEF p
<1> QED
  BY <1>2, <1>3, <1>4 DEF Idles

LEMMA NothingIdles ==
  ASSUME Accountable, UNCHANGED <<queue, sent, star, input>>, NEW s \in Stars(galaxy),
         galaxy.kind[s] # "Statistics"
  PROVE  Idles(s)
<1>1. Configured /\ Typed
  BY DEF Accountable, Timely, Typed
<1>2. ASSUME NEW o \in 1..Len(galaxy.out[s])
      PROVE  SentToo(sent[galaxy.out[s][o]], <<>>, sent'[galaxy.out[s][o]])
  <2> DEFINE p == galaxy.out[s][o]
  <2>1. p \in Arcs(galaxy)
    BY <1>1, PortsOf
  <2> HIDE DEF p
  <2>2. Passes(p, 0, <<>>)
    BY <2>1, NothingPasses
  <2> QED
    BY <2>2 DEF Passes, p
<1>3. ASSUME NEW i \in 1..Len(galaxy.in[s])
      PROVE  Advances(galaxy.in[s][i], 0, <<>>)
  <2> DEFINE p == galaxy.in[s][i]
  <2>1. Remembered(sent[p], OnArc(queue, p)) /\ p \in Arcs(galaxy)
    BY RememberedAt
  <2> HIDE DEF p
  <2>2. Passes(p, 0, <<>>)
    BY <2>1, NothingPasses
  <2>3. Advances(p, 0, <<>>)
    BY <2>1, <2>2, PassesAdvances
  <2> QED
    BY <2>3 DEF p
<1> QED
  BY <1>2, <1>3 DEF Idles

\* In every step a star fires or not.
LEMMA StarIdles ==
  ASSUME Accountable, Next, NEW s \in Stars(galaxy), galaxy.kind[s] \notin {"Clock", "Statistics"},
         ~(Fire /\ NextFiring.star = s)
  PROVE  Idles(s)
<1>1. CASE Fire
  BY <1>1, OtherFires
<1>2. CASE UNCHANGED <<queue, sent, star, input>>
  BY <1>2, NothingIdles
<1>3. CASE Begin
  BY <1>3, BeginIdles
<1>4. CASE HaltBeforeGo
  BY <1>4, HaltIdles
<1> QED
  BY <1>1, <1>2, <1>3, <1>4 DEF Next, Run, StopBeforeDead, EventInThePast, NoMoreEvents

-----------------------------------------------------------------------------
(* A Ramp answers every event it takes, and a halt loses one. *)

RampKeepsUp == \A s \in StarsOf("Ramp") :
    Taken(galaxy.in[s][1]) - Len(sent[galaxy.out[s][1]]) \in 0..halts

LEMMA RampIs ==
  ASSUME Configured, NEW s \in StarsOf("Ramp")
  PROVE  /\ s \in Stars(galaxy) /\ galaxy.kind[s] = "Ramp" /\ Len(galaxy.in[s]) = 1 /\ Len(galaxy.out[s]) = 1
         /\ galaxy.in[s][1] \in Arcs(galaxy) /\ galaxy.out[s][1] \in Arcs(galaxy)
<1> DEFINE in == galaxy.in[s]
           out == galaxy.out[s]
           k == galaxy.kind[s]
           pa == galaxy.param[s]
<1>1. s \in Stars(galaxy) /\ k = "Ramp"
  BY DEF StarsOf
<1>2. in \in Seq(Arcs(galaxy)) /\ out \in Seq(Arcs(galaxy)) /\ IsStar(k, pa, in, out)
  BY <1>1, PortsOf
<1> HIDE DEF in, out, k, pa
<1>3. Len(in) = 1 /\ Len(out) = 1
  BY <1>1, <1>2, StarIs
<1>4. in[1] \in Arcs(galaxy) /\ out[1] \in Arcs(galaxy)
  <2> DEFINE A == Arcs(galaxy)
  <2>1. in \in Seq(A) /\ out \in Seq(A) /\ 1 \in 1..Len(in) /\ 1 \in 1..Len(out)
    BY <1>2, <1>3
  <2> HIDE DEF A
  <2>2. in[1] \in A /\ out[1] \in A
    BY <2>1
  <2> QED
    BY <2>2 DEF A
<1> QED
  BY <1>1, <1>3, <1>4 DEF in, out, k

LEMMA RampFires ==
  ASSUME Accountable, NEW f, NEW s, Fires(f, s), s \in StarsOf("Ramp")
  PROVE  /\ Len(sent'[galaxy.in[s][1]]) - Len(OnArc(queue', galaxy.in[s][1])) = Taken(galaxy.in[s][1]) + 1
         /\ Len(sent'[galaxy.out[s][1]]) = Len(sent[galaxy.out[s][1]]) + 1
<1> DEFINE p == galaxy.in[s][1]
           a == galaxy.out[s][1]
           x == Put(1, f.time, star[s].memory)
           r == ResultOf(f)
<1>1. Configured
  BY DEF Accountable, Timely, Typed
<1>2. /\ s \in Stars(galaxy) /\ galaxy.kind[s] = "Ramp" /\ Len(galaxy.in[s]) = 1 /\ Len(galaxy.out[s]) = 1
  BY <1>1, RampIs
<1>3. s = f.star /\ SoundFiring(f) /\ PutsOf(s, r.puts)
  BY DEF Fires
<1>4. r.puts = <<x>> /\ r.drained = {}
  <2> DEFINE st == star[s]
             port == ReadableOf(f)
             t == f.time
             pa == galaxy.param[s]
  <2>1. Callable("Ramp", pa, 1, st, port, t)
    BY <1>2, <1>3 DEF SoundFiring
  <2>2. r = RampGo(st, port, t)
    BY <1>2, <1>3, Zenon DEF ResultOf, Go
  <2> HIDE DEF st, port, t, pa, r
  <2>3. r.puts = <<Put(1, t, st.memory)>> /\ r.drained = {}
    BY <2>1, <2>2, RampIsSound
  <2> QED
    BY <2>3 DEF t, st
<1>5. PICK n : Takes(f, 1, n)
  <2>1. \A i \in 1..Len(galaxy.in[s]) : \E n : Takes(f, i, n)
    BY DEF Fires
  <2>2. 1 \in 1..Len(galaxy.in[s])
    BY <1>2
  <2> QED
    BY <2>1, <2>2
<1>6. p = Head(queue).arc
  <2>1. PICK i \in 1..Len(galaxy.in[s]) : galaxy.in[s][i] = Head(queue).arc
    BY DEF Fires
  <2>2. i = 1
    BY <1>2, <2>1
  <2> QED
    BY <2>1, <2>2
<1>7. Taking(f, p, n) /\ \E N : Advances(p, LeftOf(f, p, n), N)
  BY <1>3, <1>5 DEF Takes
<1>8. n > 0
  BY <1>6, <1>7 DEF Taking
<1>9. LeftOf(f, p, n) = 1
  <2>1. DrainedBy(f) = {}
    BY <1>4, SMTT(30) DEF DrainedBy
  <2>2. n # 0
    BY <1>7, <1>8 DEF Taking
  <2> QED
    BY <2>1, <2>2 DEF LeftOf
<1>10. Len(sent'[p]) - Len(OnArc(queue', p)) = Taken(p) + 1
  BY <1>7, <1>9 DEF Advances
<1> DEFINE N == OnArc(Events(s, <<x>>), a)
<1>11. SentToo(sent[a], N, sent'[a])
  <2>1. 1 \in 1..Len(galaxy.out[s])
    BY <1>2
  <2> HIDE DEF x, r
  <2> QED
    BY <1>4, <2>1 DEF Fires, r
<1>12. Len(N) = 1
  <2>1. x.out = 1
    BY DEF Put
  <2>2. PutsOf(s, <<x>>) /\ a = galaxy.out[s][x.out]
    BY <1>3, <1>4, <2>1
  <2> HIDE DEF x, a
  <2>3. IsPut(N, x)
    BY <1>1, <2>2, OnePutIsSent, SMTT(30)
  <2> QED
    BY <2>3 DEF IsPut
<1> HIDE DEF N
<1>13. Len(sent'[a]) = Len(sent[a]) + 1
  BY <1>11, <1>12 DEF SentToo
<1> QED
  BY <1>10, <1>13

LEMMA NextKeepsUp ==
  ASSUME Accountable, RampKeepsUp, Next
  PROVE  RampKeepsUp'
<1>1. Configured /\ halts \in Nat
  <2>1. Configured /\ use.maxHalts \in Nat /\ halts \in 0..use.maxHalts
    BY DEF Accountable, Timely, Typed, Configured
  <2> QED
    BY <2>1
<1>2. galaxy' = galaxy /\ (halts' = halts \/ halts' = halts + 1)
  <2>1. config' = config
    BY Zenon DEF Next, Begin, Run, StopBeforeDead, EventInThePast, NoMoreEvents, Fire, HaltBeforeGo
  <2>2. halts' = halts \/ halts' = halts + 1
    <3>1. CASE Fire
      <4> DEFINE f == NextFiring
      <4>1. Fired(f)
        BY <3>1, FireIs
      <4> HIDE DEF f
      <4> QED
        BY <4>1 DEF Fired
    <3> QED
      BY <3>1 DEF Next, Begin, Run, StopBeforeDead, EventInThePast, NoMoreEvents, HaltBeforeGo
  <2> QED
    BY <2>1, <2>2, ConfigIsKept
<1>3. SUFFICES ASSUME NEW s \in StarsOf("Ramp")
               PROVE  (Len(sent'[galaxy.in[s][1]]) - Len(OnArc(queue', galaxy.in[s][1])))
                      - Len(sent'[galaxy.out[s][1]]) \in 0..halts'
  BY <1>2 DEF RampKeepsUp, StarsOf, Taken
<1> DEFINE p == galaxy.in[s][1]
           a == galaxy.out[s][1]
<1>4. /\ s \in Stars(galaxy) /\ galaxy.kind[s] = "Ramp" /\ Len(galaxy.in[s]) = 1 /\ Len(galaxy.out[s]) = 1
      /\ p \in Arcs(galaxy) /\ a \in Arcs(galaxy)
  BY <1>1, RampIs
<1>5. /\ Taken(p) - Len(sent[a]) \in 0..halts /\ Taken(p) \in 0..Len(sent[p])
      /\ Len(sent[p]) \in Nat /\ Len(sent[a]) \in Nat
  <2>1. sent[p] \in Seq(SentSet) /\ sent[a] \in Seq(SentSet)
    BY <1>4 DEF Accountable, Timely, Typed
  <2>2. Remembered(sent[p], OnArc(queue, p))
    BY <1>4, RememberedAt
  <2>3. Taken(p) \in 0..Len(sent[p])
    <3> HIDE DEF p
    <3> QED
      BY <2>2 DEF Remembered, Taken
  <2>4. Taken(p) - Len(sent[a]) \in 0..halts
    BY DEF RampKeepsUp
  <2>5. Len(sent[p]) \in Nat /\ Len(sent[a]) \in Nat
    <3> HIDE DEF p, a
    <3> QED
      BY <2>1
  <2> QED
    BY <2>3, <2>4, <2>5
<1>6. CASE Fire /\ NextFiring.star = s
  <2> DEFINE f == NextFiring
  <2>1. galaxy.kind[f.star] # "Statistics" /\ f.star = s
    BY <1>4, <1>6
  <2> HIDE DEF f
  <2>2. Fires(f, s)
    BY <1>6, <2>1, StarFires DEF f
  <2>3. /\ Len(sent'[p]) - Len(OnArc(queue', p)) = Taken(p) + 1
        /\ Len(sent'[a]) = Len(sent[a]) + 1
    BY <1>3, <2>2, RampFires
  <2> HIDE DEF p, a
  <2>4. (Taken(p) + 1) - (Len(sent[a]) + 1) \in 0..halts'
    BY <1>1, <1>2, <1>5
  <2> QED
    BY <2>3, <2>4 DEF p, a
<1>7. CASE ~(Fire /\ NextFiring.star = s)
  <2>1. Idles(s)
    BY <1>4, <1>7, StarIdles
  <2>2. SentToo(sent[a], <<>>, sent'[a])
    <3>1. 1 \in 1..Len(galaxy.out[s])
      BY <1>4
    <3> QED
      BY <2>1, <3>1 DEF Idles
  <2>3. PICK k, N : Advances(p, k, N) /\ k \in 0..1 /\ (k = 1 => halts' = halts + 1)
    <3>1. 1 \in 1..Len(galaxy.in[s])
      BY <1>4
    <3> QED
      BY <2>1, <3>1 DEF Idles
  <2> HIDE DEF p, a
  <2>4. Len(sent'[a]) = Len(sent[a])
    <3>1. Len(sent'[a]) = Len(sent[a]) + Len(<<>>) /\ Len(<<>>) = 0
      BY <2>2 DEF SentToo
    <3> QED
      BY <1>5, <3>1
  <2>5. Len(sent'[p]) - Len(OnArc(queue', p)) = Taken(p) + k
    BY <2>3 DEF Advances
  <2>6. (Taken(p) + k) - Len(sent[a]) \in 0..halts'
    BY <1>1, <1>2, <1>5, <2>3
  <2> QED
    BY <2>4, <2>5, <2>6 DEF p, a
<1> QED
  BY <1>6, <1>7

LEMMA SetupKeepsUp ==
  ASSUME Init
  PROVE  RampKeepsUp
<1>1. queue = <<>> /\ halts = 0 /\ sent = [p \in Arcs(galaxy) |-> <<>>] /\ Configured
  BY SetupIsTimely DEF Init, Setup, Timely, Typed
<1>2. \A s \in StarsOf("Ramp") : /\ galaxy.in[s][1] \in Arcs(galaxy) /\ galaxy.out[s][1] \in Arcs(galaxy)
  BY <1>1, RampIs
<1>3. \A p \in Arcs(galaxy) : Taken(p) = 0 /\ Len(sent[p]) = 0
  BY <1>1, OnArcNone DEF Taken
<1> QED
  BY <1>1, <1>2, <1>3 DEF RampKeepsUp

\* However the program is halted and goes on, a Ramp has answered every event that
\* has left the queue for it, but at most one for every halt that was met before a
\* firing (HaltsLoseOneEventEach).
THEOREM HaltsLoseOneEventAtMost == Spec => []HaltsLoseOneEventEach
<1>1. Init => RampKeepsUp
  BY SetupKeepsUp
<1>2. Accountable /\ RampKeepsUp /\ [Next]_vars => RampKeepsUp'
  <2>1. SUFFICES ASSUME Accountable, RampKeepsUp, [Next]_vars
                 PROVE  RampKeepsUp'
    OBVIOUS
  <2>2. CASE UNCHANGED vars
    BY <2>1, <2>2 DEF vars, RampKeepsUp, StarsOf, Taken
  <2>3. CASE Next
    BY <2>1, <2>3, NextKeepsUp
  <2> QED
    BY <2>1, <2>2, <2>3
<1>3. Accountable /\ RampKeepsUp => HaltsLoseOneEventEach
  <2>1. SUFFICES ASSUME Accountable, RampKeepsUp, NEW s \in StarsOf("Ramp")
                 PROVE  Len(sent[galaxy.in[s][1]]) - Cardinality({i \in DOMAIN queue : queue[i].arc = galaxy.in[s][1]})
                        - Len(sent[galaxy.out[s][1]]) \in 0..halts
    BY DEF HaltsLoseOneEventEach
  <2>2. queue \in Seq(EventSet)
    BY <2>1 DEF Accountable, Timely, Typed, InOrder
  <2> DEFINE p == galaxy.in[s][1]
  <2> HIDE DEF p
  <2>3. Cardinality({i \in DOMAIN queue : queue[i].arc = p}) = Len(OnArc(queue, p))
    BY <2>2, OnArcCounts
  <2>4. Taken(p) - Len(sent[galaxy.out[s][1]]) \in 0..halts
    BY <2>1 DEF RampKeepsUp, p
  <2> QED
    BY <2>3, <2>4 DEF Taken, p
<1> QED
  BY <1>1, <1>2, <1>3, AccountableHolds, PTL DEF Spec

-----------------------------------------------------------------------------
(* What is new at an input when a star is called *)

\* Unless a halt kept the star from it, every input that the star does not hold
\* back has been dealt with.
NoneStale == "pre" \notin use.halts =>
    \A s \in Stars(galaxy) : galaxy.kind[s] \notin {"Clock", "Statistics"} =>
        \A i \in 1..Len(galaxy.in[s]) :
            input[galaxy.in[s][i]].new => HeldPort(galaxy.kind[s], i)

LEMMA NextLeavesNoneStale ==
  ASSUME Accountable, NoneStale, Next
  PROVE  NoneStale'
<1>1. Configured
  BY DEF Accountable, Timely, Typed
<1>2. galaxy' = galaxy /\ use' = use
  <2>1. config' = config
    BY DEF Next, Begin, Run, StopBeforeDead, EventInThePast, NoMoreEvents, Fire, HaltBeforeGo
  <2> QED
    BY <2>1, ConfigIsKept
<1>3. SUFFICES ASSUME "pre" \notin use.halts, NEW s \in Stars(galaxy),
                      galaxy.kind[s] \notin {"Clock", "Statistics"}, NEW i \in 1..Len(galaxy.in[s]),
                      input'[galaxy.in[s][i]].new
               PROVE  HeldPort(galaxy.kind[s], i)
  BY <1>2 DEF NoneStale
<1> DEFINE p == galaxy.in[s][i]
<1>4. CASE Fire /\ NextFiring.star = s
  <2> DEFINE f == NextFiring
             k == galaxy.kind[s]
             port == ReadableOf(f)
             r == ResultOf(f)
  <2>1. galaxy.kind[f.star] # "Statistics" /\ f.star = s
    BY <1>3, <1>4
  <2> HIDE DEF f
  <2>2. Fires(f, s)
    BY <1>4, <2>1, StarFires DEF f
  <2>3. /\ SoundFiring(f) /\ f.ports \in PortsSet /\ f.queue \in Seq(EventSet) /\ input' = InputAfter(f)
    BY <2>2 DEF Fires
  <2>4. /\ Sound(k, galaxy.param[s], Len(galaxy.in[s]), Len(galaxy.out[s]), star[s], port, f.time, r)
        /\ port[i].new = f.ports[p].new
    BY <1>3, <2>1, <2>3 DEF SoundFiring
  <2>5. /\ i \in r.drained \cup r.cleared => ~InputAfter(f)[p].new
        /\ i \notin r.drained \cup r.cleared => InputAfter(f)[p].new = f.ports[p].new
    <3>1. i \in 1..Len(galaxy.in[f.star]) /\ galaxy.in[f.star][i] = p
      BY <1>3, <2>1
    <3> HIDE DEF p
    <3> QED
      BY <1>1, <2>3, <3>1, InputAfterIs
  <2>6. i \notin r.drained \cup r.cleared /\ port[i].new
    <3>1. InputAfter(f)[p].new
      BY <1>3, <2>3
    <3> HIDE DEF r, port, p
    <3> QED
      BY <2>4, <2>5, <3>1
  <2> HIDE DEF r, port, k
  <2>7. HeldPort(k, i) \/ ~r.ok
    BY <1>3, <2>4, <2>6 DEF Sound
  <2>8. r.ok
    <3>1. k # "Statistics"
      BY <1>3 DEF k
    <3> QED
      BY <2>4, <3>1 DEF Sound
  <2> QED
    BY <2>7, <2>8 DEF k
<1>5. CASE ~(Fire /\ NextFiring.star = s)
  <2>1. Idles(s)
    BY <1>3, <1>5, StarIdles
  <2>2. input'[p].new = input[p].new
    BY <1>3, <2>1 DEF Idles
  <2> QED
    BY <1>3, <2>2 DEF NoneStale
<1> QED
  BY <1>4, <1>5

LEMMA SetupLeavesNoneStale ==
  ASSUME Init
  PROVE  NoneStale
<1>1. input = [p \in Arcs(galaxy) |-> EmptyPort] /\ Configured
  BY SetupIsTimely DEF Init, Setup, Timely, Typed
<1>2. \A s \in Stars(galaxy) : \A i \in 1..Len(galaxy.in[s]) : galaxy.in[s][i] \in Arcs(galaxy)
  BY <1>1, PortsOf
<1>3. \A p \in Arcs(galaxy) : ~input[p].new
  BY <1>1 DEF EmptyPort
<1> QED
  BY <1>2, <1>3 DEF NoneStale

\* What has been taken has been sent.
TakenToo(p, k) ==
    /\ Taken(p) \in Nat /\ Taken(p) + k \in 0..Len(sent[p]) /\ Len(sent[p]) \in Nat /\ k \in 0..Len(OnArc(queue, p))
    /\ Len(sent'[p]) - Len(OnArc(queue', p)) = Taken(p) + k
    /\ Len(sent'[p]) \in Nat /\ Len(sent[p]) <= Len(sent'[p])
    /\ \A i \in 1..Len(sent[p]) : sent'[p][i] = sent[p][i]
    /\ \A i \in 1..k : /\ Taken(p) + i \in 1..Len(sent[p])
                       /\ sent[p][Taken(p) + i].time = OnArc(queue, p)[i].level
                       /\ sent[p][Taken(p) + i].val = OnArc(queue, p)[i].val

LEMMA AdvancesTake ==
  ASSUME NEW p, NEW k, NEW N, Advances(p, k, N)
  PROVE  TakenToo(p, k)
<1> DEFINE S == sent[p]
           R == sent'[p]
           L == OnArc(queue, p)
           K == OnArc(queue', p)
           d == Taken(p)
<1>1. /\ SentToo(S, N, R) /\ k \in 0..Len(L) /\ Remembered(S, L) /\ d \in 0..Len(S)
      /\ Len(R) - Len(K) = d + k /\ d = Len(S) - Len(L)
  BY DEF Advances, Taken
<1> HIDE DEF S, R, L, K, d
<1>2. /\ Len(S) \in Nat /\ Len(L) \in Nat /\ Len(L) <= Len(S) /\ Len(N) \in Nat
      /\ Len(R) = Len(S) + Len(N) /\ \A i \in 1..Len(S) : R[i] = S[i]
  BY <1>1 DEF SentToo, Remembered
<1>3. \A i \in 1..Len(L) : d + i \in 1..Len(S) /\ S[d + i].time = L[i].level /\ S[d + i].val = L[i].val
  BY <1>1 DEF Remembered
<1>4. \A i \in 1..k : i \in 1..Len(L)
  BY <1>1, <1>2
<1>5. d \in Nat /\ d + k \in 0..Len(S) /\ Len(R) \in Nat /\ Len(S) <= Len(R)
  BY <1>1, <1>2
<1> QED
  BY <1>1, <1>2, <1>3, <1>4, <1>5 DEF TakenToo, S, R, L, K, d

-----------------------------------------------------------------------------
(* The values sent to a FIFOQueue, and by it *)

\* What a star puts at an output, in order, is what it sends there.
LEMMA ValuesAreSent ==
  ASSUME Configured, NEW s, NEW puts, PutsOf(s, puts), NEW o \in 1..Len(galaxy.out[s]),
         NEW p, p = galaxy.out[s][o], NEW S, NEW R, SentToo(S, OnArc(Events(s, puts), p), R)
  PROVE  FirstVals(R, Len(R)) = FirstVals(S, Len(S)) \o ValuesPut(puts, o)
<1> DEFINE N == OnArc(Events(s, puts), p)
           T == PutsAt(puts, o)
           kept == Kept(puts, T)
           V == ValuesPut(puts, o)
<1>1. puts \in Seq(PutSet)
  BY DEF PutsOf
<1>2. PICK c : KeptAlong(PutSet, puts, T, c)
  BY <1>1, KeptIs
<1>3. /\ Enumerates(c, T \cap (1..Len(puts))) /\ kept \in Seq(PutSet) /\ Len(kept) = Len(c)
      /\ \A i \in 1..Len(c) : c[i] \in 1..Len(puts) /\ kept[i] = puts[c[i]]
  BY <1>2 DEF KeptAlong
<1>4. T \cap (1..Len(puts)) = OutPlaces(puts, o)
  BY <1>1 DEF PutsAt, OutPlaces
<1>5. PutAlong(puts, o, p, c, N)
  BY <1>3, <1>4, SentOnOutput
<1>6. V = [i \in 1..Len(kept) |-> kept[i].val]
  BY <1>3 DEF ValuesPut
<1> HIDE DEF N, T, kept
<1>7. /\ N \in Seq(EventSet) /\ Len(N) = Len(c) /\ \A k \in 1..Len(c) : N[k].val = puts[c[k]].val
  BY <1>5 DEF PutAlong
<1>8. \A i \in 1..Len(kept) : kept[i].val \in Int
  <2>1. \A i \in 1..Len(kept) : kept[i] \in PutSet
    BY <1>3
  <2> QED
    BY <2>1 DEF PutSet
<1>9. V \in Seq(Int) /\ Len(V) = Len(kept) /\ \A i \in 1..Len(kept) : V[i] = kept[i].val
  BY <1>3, <1>6, <1>8
<1> HIDE DEF V
<1>10. Len(V) = Len(N) /\ \A i \in 1..Len(V) : V[i] = N[i].val
  BY <1>3, <1>7, <1>9
<1>11. /\ S \in Seq(SentSet) /\ R \in Seq(SentSet) /\ Len(R) = Len(S) + Len(N)
       /\ (\A i \in 1..Len(S) : R[i] = S[i])
       /\ \A j \in 1..Len(N) : Len(S) + j \in 1..Len(R) /\ R[Len(S) + j].val = N[j].val
  BY DEF SentToo, N
<1> DEFINE a == FirstVals(S, Len(S))
           b == FirstVals(R, Len(R))
<1>12. Len(S) \in 0..Len(S) /\ Len(R) \in 0..Len(R)
  BY <1>11
<1>13. a \in Seq(Int) /\ Len(a) = Len(S) /\ \A i \in 1..Len(S) : a[i] = S[i].val
  BY <1>11, <1>12, FirstValsAre
<1>14. b \in Seq(Int) /\ Len(b) = Len(R) /\ \A i \in 1..Len(R) : b[i] = R[i].val
  BY <1>11, <1>12, FirstValsAre
<1> HIDE DEF a, b
<1>15. Len(b) = Len(a) + Len(V)
  BY <1>10, <1>11, <1>13, <1>14
<1>16. \A i \in 1..Len(a) : b[i] = a[i]
  <2>1. SUFFICES ASSUME NEW i \in 1..Len(a) PROVE b[i] = a[i]
    OBVIOUS
  <2>2. i \in 1..Len(S) /\ i \in 1..Len(R)
    BY <1>7, <1>11, <1>13
  <2> QED
    BY <1>11, <1>13, <1>14, <2>2
<1>17. \A j \in 1..Len(V) : b[Len(a) + j] = V[j]
  <2>1. SUFFICES ASSUME NEW j \in 1..Len(V) PROVE b[Len(a) + j] = V[j]
    OBVIOUS
  <2>2. j \in 1..Len(N) /\ V[j] = N[j].val
    BY <1>10
  <2>3. Len(S) + j \in 1..Len(R) /\ R[Len(S) + j].val = N[j].val
    BY <1>11, <2>2
  <2>4. b[Len(S) + j] = R[Len(S) + j].val
    BY <1>14, <2>3
  <2> QED
    BY <1>13, <2>2, <2>3, <2>4
<1>18. b = a \o V
  BY <1>9, <1>13, <1>14, <1>15, <1>16, <1>17, IntegersJoined
<1> QED
  BY <1>18 DEF a, b, V

\* What has been taken after a step are the values it takes, too.
LEMMA ValuesAreTaken ==
  ASSUME Accountable, NEW p \in Arcs(galaxy), NEW k, NEW N, Advances(p, k, N), NEW data \in Seq(Int),
         Len(data) = k, \A i \in 1..k : data[i] = OnArc(queue, p)[i].val
  PROVE  FirstVals(sent'[p], Taken(p) + k) = FirstVals(sent[p], Taken(p)) \o data
<1> DEFINE S == sent[p]
           R == sent'[p]
           d == Taken(p)
           L == OnArc(queue, p)
<1>1. TakenToo(p, k)
  BY AdvancesTake
<1>2. /\ d \in Nat /\ d + k \in 0..Len(S) /\ Len(S) \in Nat /\ Len(R) \in Nat /\ Len(S) <= Len(R)
      /\ (\A i \in 1..Len(S) : R[i] = S[i])
      /\ \A i \in 1..k : d + i \in 1..Len(S) /\ S[d + i].val = L[i].val
  BY <1>1 DEF TakenToo
<1>3. S \in Seq(SentSet) /\ R \in Seq(SentSet)
  BY DEF Advances, SentToo
<1>4. k \in Nat
  OBVIOUS
<1>5. \A i \in 1..k : data[i] = L[i].val
  OBVIOUS
<1> DEFINE a == FirstVals(S, d)
           b == FirstVals(R, d + k)
<1> HIDE DEF S, R, L, d
<1>6. a \in Seq(Int) /\ Len(a) = d /\ \A i \in 1..d : a[i] = S[i].val
  <2>1. d \in 0..Len(S)
    BY <1>2, <1>4
  <2> QED
    BY <1>3, <2>1, FirstValsAre
<1>7. b \in Seq(Int) /\ Len(b) = d + k /\ \A i \in 1..d + k : b[i] = R[i].val
  <2> DEFINE n == d + k
  <2>1. n \in 0..Len(R)
    BY <1>2
  <2> HIDE DEF n
  <2>2. FirstVals(R, n) \in Seq(Int) /\ Len(FirstVals(R, n)) = n /\ \A i \in 1..n : FirstVals(R, n)[i] = R[i].val
    BY <1>3, <2>1, FirstValsAre
  <2> QED
    BY <2>2 DEF n
<1> HIDE DEF a, b
<1>8. \A i \in 1..Len(a) : b[i] = a[i]
  <2>1. SUFFICES ASSUME NEW i \in 1..Len(a) PROVE b[i] = a[i]
    OBVIOUS
  <2>2. i \in 1..d /\ i \in 1..Len(S) /\ i \in 1..d + k
    BY <1>2, <1>4, <1>6
  <2> QED
    BY <1>2, <1>6, <1>7, <2>2
<1>9. \A j \in 1..Len(data) : b[Len(a) + j] = data[j]
  <2>1. SUFFICES ASSUME NEW j \in 1..Len(data) PROVE b[Len(a) + j] = data[j]
    OBVIOUS
  <2>2. j \in 1..k /\ d + j \in 1..Len(S) /\ S[d + j].val = L[j].val /\ data[j] = L[j].val
    BY <1>2, <1>5
  <2>3. d + j \in 1..d + k
    BY <1>2, <1>4, <2>2
  <2>4. b[d + j] = R[d + j].val /\ R[d + j] = S[d + j]
    BY <1>2, <1>7, <2>2, <2>3
  <2> QED
    BY <1>6, <2>2, <2>4
<1>10. Len(b) = Len(a) + Len(data)
  BY <1>6, <1>7
<1>11. b = a \o data
  BY <1>6, <1>7, <1>8, <1>9, <1>10, IntegersJoined
<1> QED
  BY <1>11 DEF a, b, S, R, d

\* What was taken of S, n values, is accounted for by what was put, A, what waits,
\* Q, and what was lost, B.
Accounts(S, n, A, Q, B) == Divides(FirstVals(S, n), FirstVals(A, Len(A)) \o Q, FirstVals(B, Len(B)))

DataAccountedFor == "pre" \notin use.halts => \A s \in StarsOf("FIFOQueue") :
    Accounts(sent[galaxy.in[s][2]], Taken(galaxy.in[s][2]), sent[galaxy.out[s][1]],
             star[s].memory.queue, sent[galaxy.out[s][3]])

LEMMA TakenFrom ==
  ASSUME NEW p, Remembered(sent[p], OnArc(queue, p))
  PROVE  Taken(p) \in 0..Len(sent[p])
BY DEF Remembered, Taken

LEMMA WhatItPutsIsSent ==
  ASSUME Configured, NEW f, NEW s, Fires(f, s), NEW o \in 1..Len(galaxy.out[s]), NEW p, p = galaxy.out[s][o]
  PROVE  FirstVals(sent'[p], Len(sent'[p])) = FirstVals(sent[p], Len(sent[p])) \o ValuesPut(ResultOf(f).puts, o)
<1> DEFINE puts == ResultOf(f).puts
           S == sent[p]
           R == sent'[p]
<1>1. PutsOf(s, puts) /\ SentToo(S, OnArc(Events(s, puts), p), R)
  BY DEF Fires
<1> HIDE DEF puts, S, R
<1>2. FirstVals(R, Len(R)) = FirstVals(S, Len(S)) \o ValuesPut(puts, o)
  BY <1>1, ValuesAreSent
<1> QED
  BY <1>2 DEF puts, S, R

LEMMA FIFOIs ==
  ASSUME Configured, NEW s \in StarsOf("FIFOQueue")
  PROVE  /\ s \in Stars(galaxy) /\ galaxy.kind[s] = "FIFOQueue" /\ Len(galaxy.in[s]) = 2 /\ Len(galaxy.out[s]) = 3
         /\ galaxy.in[s][2] \in Arcs(galaxy) /\ galaxy.out[s][1] \in Arcs(galaxy) /\ galaxy.out[s][3] \in Arcs(galaxy)
         /\ galaxy.param[s].capacity \in Int /\ galaxy.param[s].consolidate \in BOOLEAN
<1> DEFINE in == galaxy.in[s]
           out == galaxy.out[s]
           k == galaxy.kind[s]
           pa == galaxy.param[s]
           A == Arcs(galaxy)
<1>1. s \in Stars(galaxy) /\ k = "FIFOQueue"
  BY DEF StarsOf
<1>2. in \in Seq(A) /\ out \in Seq(A) /\ IsStar(k, pa, in, out)
  BY <1>1, PortsOf
<1> HIDE DEF in, out, k, pa, A
<1>3. Len(in) = 2 /\ Len(out) = 3 /\ pa.capacity \in Int /\ pa.consolidate \in BOOLEAN
  BY <1>1, <1>2, StarIs
<1>4. 2 \in 1..Len(in) /\ 1 \in 1..Len(out) /\ 3 \in 1..Len(out)
  BY <1>3
<1>5. in[2] \in A /\ out[1] \in A /\ out[3] \in A
  BY <1>2, <1>4
<1> QED
  BY <1>1, <1>3, <1>5 DEF in, out, k, pa, A

\* What the firing f of a FIFOQueue takes at its second input.
LEMMA FIFOTakes ==
  ASSUME Accountable, NoneStale, "pre" \notin use.halts, NEW f, NEW s, Fires(f, s), s \in StarsOf("FIFOQueue"),
         NEW p, p = galaxy.in[s][2], NEW r, r = ResultOf(f), r.drained = New(ReadableOf(f)),
         NEW data, data = Vals(ReadableOf(f), 2)
  PROVE  data \in Seq(Int) /\ \E N : Advances(p, Len(data), N)
                           /\ \A i \in 1..Len(data) : data[i] = OnArc(queue, p)[i].val
<1> DEFINE port == ReadableOf(f)
           L == OnArc(queue, p)
<1>1. Configured
  BY DEF Accountable, Timely, Typed
<1>2. /\ s \in Stars(galaxy) /\ galaxy.kind[s] = "FIFOQueue" /\ Len(galaxy.in[s]) = 2 /\ p \in Arcs(galaxy)
  BY <1>1, FIFOIs
<1>3. s = f.star /\ SoundFiring(f) /\ 2 \in 1..Len(galaxy.in[s])
  BY <1>2 DEF Fires
<1>4. PICK n : Takes(f, 2, n)
  BY <1>3 DEF Fires
<1>5. Taking(f, p, n) /\ Seen(f, 2, n) /\ \E N : Advances(p, LeftOf(f, p, n), N)
  BY <1>3, <1>4 DEF Takes
<1>6. PICK N : Advances(p, LeftOf(f, p, n), N)
  BY <1>5, SMTT(30)
<1>7. /\ port[2].vals \in Seq(Int) /\ n \in Nat
      /\ n = 0 => port[2].new = input[p].new
      /\ n > 0 => port[2].new /\ Len(port[2].vals) = n /\ \A k \in 1..n : port[2].vals[k] = L[k].val
  <2>1. n \in 0..Len(L) /\ L \in Seq(EventSet)
    <3>1. queue \in Seq(EventSet)
      BY DEF Accountable, Timely, Typed, InOrder
    <3>2. L \in Seq(EventSet)
      BY <3>1, RecordedIs
    <3> QED
      BY <1>5, <3>2 DEF Taking
  <2>2. n \in Nat
    <3> HIDE DEF L
    <3> QED
      BY <2>1
  <2> QED
    BY <1>3, <1>5, <2>2, SMTT(30) DEF Seen
<1>8. DOMAIN port = 1..2
  <2>1. port \in Seq(ReadableSet) /\ Len(port) = 2
    BY <1>2, <1>3 DEF SoundFiring, Callable
  <2> HIDE DEF port
  <2> QED
    BY <2>1
<1> HIDE DEF port, L
<1>9. CASE n > 0
  <2>1. 2 \in r.drained
    BY <1>7, <1>8, <1>9 DEF New, port
  <2>2. p \in DrainedBy(f)
    BY <1>3, <2>1 DEF DrainedBy
  <2>3. LeftOf(f, p, n) = n
    BY <2>2 DEF LeftOf
  <2>4. data = port[2].vals
    BY <1>7, <1>9 DEF Vals, port
  <2>5. Advances(p, Len(data), N)
    BY <1>6, <1>7, <1>9, <2>3, <2>4
  <2> QED
    BY <1>7, <1>9, <2>4, <2>5 DEF L
<1>10. CASE ~(n > 0)
  <2>1. n = 0
    BY <1>7, <1>10
  <2>2. ~input[p].new
    <3>1. ~HeldPort("FIFOQueue", 2)
      BY DEF HeldPort
    <3> QED
      BY <1>2, <1>3, <3>1 DEF NoneStale
  <2>3. data = <<>>
    BY <1>7, <2>1, <2>2 DEF Vals, port
  <2>4. LeftOf(f, p, n) = 0
    BY <2>1 DEF LeftOf
  <2>5. data \in Seq(Int) /\ Len(data) = 0
    <3>1. <<>> \in Seq(Int) /\ Len(<<>>) = 0
      OBVIOUS
    <3> HIDE DEF L
    <3> QED
      BY <2>3, <3>1
  <2>6. Advances(p, Len(data), N)
    BY <1>6, <2>4, <2>5
  <2>7. \A i \in 1..Len(data) : data[i] = OnArc(queue, p)[i].val
    BY <2>5
  <2> QED
    BY <2>5, <2>6, <2>7
<1> QED
  BY <1>9, <1>10

LEMMA FIFOFires ==
  ASSUME Accountable, NoneStale, "pre" \notin use.halts, NEW f, NEW s, Fires(f, s), s \in StarsOf("FIFOQueue"),
         NEW p, p = galaxy.in[s][2], NEW a, a = galaxy.out[s][1], NEW c, c = galaxy.out[s][3],
         Accounts(sent[p], Taken(p), sent[a], star[s].memory.queue, sent[c])
  PROVE  Accounts(sent'[p], Len(sent'[p]) - Len(OnArc(queue', p)), sent'[a], star'[s].memory.queue, sent'[c])
<1> DEFINE r == ResultOf(f)
           port == ReadableOf(f)
           data == Vals(port, 2)
           V1 == ValuesPut(r.puts, 1)
           V3 == ValuesPut(r.puts, 3)
<1>1. Configured
  BY DEF Accountable, Timely, Typed
<1>2. /\ s \in Stars(galaxy) /\ galaxy.kind[s] = "FIFOQueue" /\ Len(galaxy.in[s]) = 2 /\ Len(galaxy.out[s]) = 3
      /\ p \in Arcs(galaxy) /\ a \in Arcs(galaxy) /\ c \in Arcs(galaxy)
      /\ galaxy.param[s].capacity \in Int /\ galaxy.param[s].consolidate \in BOOLEAN
  BY <1>1, FIFOIs
<1>3. s = f.star /\ SoundFiring(f) /\ PutsOf(s, r.puts) /\ star'[s] = r.star
  BY DEF Fires
<1>4. r.drained = New(port) /\ AccountsFor(star[s], data, r)
  <2> DEFINE st == star[s]
             t == f.time
             pa == galaxy.param[s]
  <2>1. Callable("FIFOQueue", pa, 2, st, port, t) /\ pa.capacity \in Int /\ pa.consolidate \in BOOLEAN
    BY <1>2, <1>3, ZenonT(40) DEF SoundFiring
  <2>2. r = FIFOQueueGo(pa, st, port, t)
    BY <1>2, <1>3 DEF ResultOf, Go
  <2> HIDE DEF st, port, t, pa, r
  <2>3. r.drained = New(port) /\ AccountsFor(st, Vals(port, 2), r)
    BY <2>1, <2>2, FIFOIsSound
  <2> QED
    BY <2>3 DEF st
<1> HIDE DEF r, data
<1>5. data \in Seq(Int) /\ \E N : Advances(p, Len(data), N)
                           /\ \A i \in 1..Len(data) : data[i] = OnArc(queue, p)[i].val
  BY <1>4, FIFOTakes DEF r, data
<1>6. PICK N : Advances(p, Len(data), N)
  BY <1>5
<1> DEFINE T == FirstVals(sent[p], Taken(p))
           A == FirstVals(sent[a], Len(sent[a]))
           B == FirstVals(sent[c], Len(sent[c]))
<1>7. FirstVals(sent'[p], Taken(p) + Len(data)) = T \o data
  <2> DEFINE k == Len(data)
  <2>1. Advances(p, k, N) /\ Len(data) = k /\ \A i \in 1..k : data[i] = OnArc(queue, p)[i].val
    BY <1>5, <1>6
  <2> HIDE DEF k
  <2>2. FirstVals(sent'[p], Taken(p) + k) = FirstVals(sent[p], Taken(p)) \o data
    BY <1>2, <1>5, <2>1, ValuesAreTaken, ZenonT(40)
  <2> QED
    BY <2>2, Zenon DEF k
<1>8. Len(sent'[p]) - Len(OnArc(queue', p)) = Taken(p) + Len(data)
  BY <1>6 DEF Advances
<1>9. FirstVals(sent'[a], Len(sent'[a])) = A \o V1
  <2>1. 1 \in 1..Len(galaxy.out[s])
    BY <1>2
  <2> QED
    BY <1>1, <2>1, WhatItPutsIsSent, Zenon DEF r, V1
<1>10. FirstVals(sent'[c], Len(sent'[c])) = B \o V3
  <2>1. 3 \in 1..Len(galaxy.out[s])
    BY <1>2
  <2> QED
    BY <1>1, <2>1, WhatItPutsIsSent, Zenon DEF r, V3
<1>11. T \in Seq(Int) /\ A \in Seq(Int) /\ B \in Seq(Int)
  <2>1. sent[a] \in Seq(SentSet) /\ sent[c] \in Seq(SentSet) /\ sent[p] \in Seq(SentSet)
    BY <1>2 DEF Accountable, Timely, Typed
  <2>2. Remembered(sent[p], OnArc(queue, p))
    BY <1>2, <1>3, RememberedAt
  <2>3. Taken(p) \in 0..Len(sent[p])
    BY <2>2, TakenFrom
  <2>4. Len(sent[a]) \in 0..Len(sent[a]) /\ Len(sent[c]) \in 0..Len(sent[c])
    BY <2>1
  <2> QED
    BY <2>1, <2>3, <2>4, FirstValsAre
<1>12. Divides(T, A \o star[s].memory.queue, B)
  BY DEF Accounts
<1> HIDE DEF T, A, B, V1, V3
<1>13. Divides(T \o data, (A \o V1) \o r.star.memory.queue, B \o V3)
  BY <1>4, <1>11, <1>12 DEF AccountsFor, V1, V3
<1> QED
  BY <1>3, <1>7, <1>8, <1>9, <1>10, <1>13, Zenon DEF Accounts

LEMMA NothingFollows ==
  ASSUME NEW S, NEW R, SentToo(S, <<>>, R)
  PROVE  R = S /\ Len(S) \in Nat
<1>1. /\ S \in Seq(SentSet) /\ R \in Seq(SentSet) /\ Len(R) = Len(S) + Len(<<>>)
      /\ \A i \in 1..Len(S) : R[i] = S[i]
  BY DEF SentToo
<1>2. Len(<<>>) = 0
  OBVIOUS
<1>3. Len(R) = Len(S) /\ \A i \in 1..Len(R) : R[i] = S[i]
  BY <1>1, <1>2
<1> QED
  BY <1>1, <1>3

LEMMA NextAccountsForData ==
  ASSUME Accountable, NoneStale, DataAccountedFor, Next
  PROVE  DataAccountedFor'
<1>1. Configured
  BY DEF Accountable, Timely, Typed
<1>2. galaxy' = galaxy /\ use' = use
  <2>1. config' = config
    BY DEF Next, Begin, Run, StopBeforeDead, EventInThePast, NoMoreEvents, Fire, HaltBeforeGo
  <2> QED
    BY <2>1, ConfigIsKept
<1>3. SUFFICES ASSUME "pre" \notin use.halts, NEW s \in StarsOf("FIFOQueue")
               PROVE  Accounts(sent'[galaxy.in[s][2]],
                               Len(sent'[galaxy.in[s][2]]) - Len(OnArc(queue', galaxy.in[s][2])),
                               sent'[galaxy.out[s][1]], star'[s].memory.queue, sent'[galaxy.out[s][3]])
  BY <1>2 DEF DataAccountedFor, StarsOf, Taken
<1> DEFINE p == galaxy.in[s][2]
           a == galaxy.out[s][1]
           c == galaxy.out[s][3]
<1>4. /\ s \in Stars(galaxy) /\ galaxy.kind[s] = "FIFOQueue" /\ Len(galaxy.in[s]) = 2 /\ Len(galaxy.out[s]) = 3
      /\ p \in Arcs(galaxy) /\ a \in Arcs(galaxy) /\ c \in Arcs(galaxy)
  BY <1>1, <1>3, FIFOIs
<1>5. Accounts(sent[p], Taken(p), sent[a], star[s].memory.queue, sent[c])
  BY <1>3 DEF DataAccountedFor
<1>6. CASE Fire /\ NextFiring.star = s
  <2> DEFINE f == NextFiring
  <2>1. galaxy.kind[f.star] # "Statistics" /\ f.star = s
    BY <1>4, <1>6
  <2> HIDE DEF f
  <2>2. Fires(f, s)
    BY <1>6, <2>1, StarFires DEF f
  <2> QED
    BY <1>3, <1>5, <2>2, FIFOFires
<1>7. CASE ~(Fire /\ NextFiring.star = s)
  <2>1. Idles(s)
    BY <1>4, <1>7, StarIdles
  <2>2. sent'[a] = sent[a] /\ sent'[c] = sent[c] /\ star'[s] = star[s]
    <3>1. 1 \in 1..Len(galaxy.out[s]) /\ 3 \in 1..Len(galaxy.out[s])
      BY <1>4
    <3>2. SentToo(sent[a], <<>>, sent'[a]) /\ SentToo(sent[c], <<>>, sent'[c]) /\ star'[s] = star[s]
      BY <2>1, <3>1 DEF Idles
    <3> HIDE DEF a, c
    <3> QED
      BY <3>2, NothingFollows
  <2>3. PICK N : Advances(p, 0, N)
    <3>1. 2 \in 1..Len(galaxy.in[s])
      BY <1>4
    <3>2. PICK k, N : Advances(p, k, N) /\ k \in 0..1 /\ k # 1
      BY <1>3, <2>1, <3>1 DEF Idles
    <3>3. k = 0
      BY <3>2
    <3> QED
      BY <3>2, <3>3
  <2> HIDE DEF p, a, c
  <2>4. FirstVals(sent'[p], Taken(p) + 0) = FirstVals(sent[p], Taken(p)) \o <<>>
    <3> DEFINE k == 0
               data == <<>>
    <3>1. data \in Seq(Int) /\ Len(data) = k /\ \A i \in 1..k : data[i] = OnArc(queue, p)[i].val
      OBVIOUS
    <3>2. Advances(p, k, N)
      BY <2>3
    <3> HIDE DEF k, data
    <3>3. FirstVals(sent'[p], Taken(p) + k) = FirstVals(sent[p], Taken(p)) \o data
      BY <1>4, <3>1, <3>2, ValuesAreTaken
    <3> QED
      BY <3>3 DEF k, data
  <2>5. Len(sent'[p]) - Len(OnArc(queue', p)) = Taken(p) + 0
    BY <2>3 DEF Advances
  <2>6. FirstVals(sent[p], Taken(p)) \in Seq(Int)
    <3>1. Remembered(sent[p], OnArc(queue, p))
      <4>1. 2 \in 1..Len(galaxy.in[s])
        BY <1>4
      <4> QED
        BY <1>4, <4>1, RememberedAt DEF p
    <3>2. sent[p] \in Seq(SentSet)
      BY <3>1 DEF Remembered
    <3> QED
      BY <3>1, <3>2, TakenFrom, FirstValsAre
  <2>7. FirstVals(sent[p], Taken(p)) \o <<>> = FirstVals(sent[p], Taken(p))
    <3> DEFINE T == FirstVals(sent[p], Taken(p))
    <3> HIDE DEF T
    <3>1. T \o <<>> = T
      BY <2>6 DEF T
    <3> QED
      BY <3>1 DEF T
  <2> QED
    BY <1>5, <2>2, <2>4, <2>5, <2>7 DEF Accounts, p, a, c
<1> QED
  BY <1>6, <1>7

LEMMA SetupAccountsForData ==
  ASSUME Init
  PROVE  DataAccountedFor
<1>1. /\ queue = <<>> /\ sent = [p \in Arcs(galaxy) |-> <<>>] /\ Configured
      /\ star = [s \in Stars(galaxy) |-> [completionTime |-> 0, memory |-> Memory(galaxy.kind[s])]]
  BY SetupIsTimely DEF Init, Setup, Timely, Typed
<1>2. SUFFICES ASSUME NEW s \in StarsOf("FIFOQueue")
               PROVE  Accounts(sent[galaxy.in[s][2]], Taken(galaxy.in[s][2]), sent[galaxy.out[s][1]],
                               star[s].memory.queue, sent[galaxy.out[s][3]])
  BY DEF DataAccountedFor
<1> DEFINE p == galaxy.in[s][2]
           a == galaxy.out[s][1]
           c == galaxy.out[s][3]
<1>3. s \in Stars(galaxy) /\ galaxy.kind[s] = "FIFOQueue" /\ p \in Arcs(galaxy) /\ a \in Arcs(galaxy) /\ c \in Arcs(galaxy)
  BY <1>1, <1>2, FIFOIs
<1>4. star[s].memory.queue = <<>>
  BY <1>1, <1>3 DEF Memory
<1> HIDE DEF p, a, c
<1>5. Taken(p) = 0 /\ sent[p] = <<>> /\ sent[a] = <<>> /\ sent[c] = <<>>
  <2>1. sent[p] = <<>> /\ sent[a] = <<>> /\ sent[c] = <<>>
    BY <1>1, <1>3
  <2> QED
    BY <1>1, <2>1, OnArcNone DEF Taken
<1>6. FirstVals(<<>>, 0) = <<>> /\ Len(<<>>) = 0 /\ <<>> \o <<>> = <<>>
  BY DEF FirstVals
<1> QED
  BY <1>4, <1>5, <1>6, DividesNothing DEF Accounts, p, a, c

LEMMA AccountedForAsStated ==
  ASSUME Accountable, NoneStale, DataAccountedFor
  PROVE  QueuedDataIsAccountedFor
<1>1. SUFFICES ASSUME "pre" \notin use.halts, NEW s \in StarsOf("FIFOQueue")
               PROVE  LET in == sent[galaxy.in[s][2]]
                          out == sent[galaxy.out[s][1]]
                          lost == sent[galaxy.out[s][3]]
                          waiting == Cardinality({i \in DOMAIN queue : queue[i].arc = galaxy.in[s][2]})
                          ValOf(h) == [i \in DOMAIN h |-> h[i].val]
                          taken == ValOf(SubSeq(in, 1, Len(in) - waiting))
                      IN  \E accepted \in SUBSET DOMAIN taken :
                            /\ Kept(taken, accepted) = ValOf(out) \o star[s].memory.queue
                            /\ Kept(taken, DOMAIN taken \ accepted) = ValOf(lost)
  BY Zenon DEF QueuedDataIsAccountedFor, Undisturbed
<1> DEFINE in == sent[galaxy.in[s][2]]
           out == sent[galaxy.out[s][1]]
           lost == sent[galaxy.out[s][3]]
           waiting == Cardinality({i \in DOMAIN queue : queue[i].arc = galaxy.in[s][2]})
           taken == [i \in DOMAIN SubSeq(in, 1, Len(in) - waiting) |-> SubSeq(in, 1, Len(in) - waiting)[i].val]
<1>2. SUFFICES \E accepted \in SUBSET DOMAIN taken :
                  /\ Kept(taken, accepted) = [i \in DOMAIN out |-> out[i].val] \o star[s].memory.queue
                  /\ Kept(taken, DOMAIN taken \ accepted) = [i \in DOMAIN lost |-> lost[i].val]
  BY <1>1, Zenon
<1>3. Configured /\ queue \in Seq(EventSet)
  BY DEF Accountable, Timely, Typed, InOrder
<1> DEFINE p == galaxy.in[s][2]
           d == Taken(p)
<1>4. /\ s \in Stars(galaxy) /\ galaxy.kind[s] = "FIFOQueue" /\ Len(galaxy.in[s]) = 2
      /\ p \in Arcs(galaxy) /\ galaxy.out[s][1] \in Arcs(galaxy) /\ galaxy.out[s][3] \in Arcs(galaxy)
  BY <1>1, <1>3, FIFOIs
<1>5. in \in Seq(SentSet) /\ out \in Seq(SentSet) /\ lost \in Seq(SentSet)
  BY <1>4 DEF Accountable, Timely, Typed
<1>6. d \in 0..Len(in)
  <2>1. 2 \in 1..Len(galaxy.in[s])
    BY <1>4
  <2>2. Remembered(sent[p], OnArc(queue, p))
    BY <1>4, <2>1, RememberedAt
  <2> HIDE DEF p
  <2>3. Taken(p) \in 0..Len(sent[p])
    BY <2>2, TakenFrom
  <2> QED
    BY <2>3 DEF p
<1>7. waiting = Len(OnArc(queue, p))
  <2> HIDE DEF p
  <2>1. Cardinality({i \in DOMAIN queue : queue[i].arc = p}) = Len(OnArc(queue, p))
    BY <1>3, OnArcCounts
  <2> QED
    BY <2>1 DEF p
<1>8. Len(in) - waiting = d
  BY <1>7 DEF Taken
<1>9. Divides(FirstVals(in, d), FirstVals(out, Len(out)) \o star[s].memory.queue, FirstVals(lost, Len(lost)))
  BY <1>1 DEF DataAccountedFor, Accounts
<1> HIDE DEF d, in, out, lost, waiting
<1>10. taken = FirstVals(in, d)
  <2> DEFINE w == SubSeq(in, 1, d)
  <2>1. w \in Seq(SentSet) /\ Len(w) = d /\ DOMAIN w = 1..d /\ \A i \in 1..d : w[i] = in[i]
    BY <1>5, <1>6
  <2>2. taken = [i \in DOMAIN w |-> w[i].val]
    BY <1>8
  <2> HIDE DEF w
  <2> QED
    BY <2>1, <2>2 DEF FirstVals
<1> HIDE DEF taken
<1>11. [i \in DOMAIN out |-> out[i].val] = FirstVals(out, Len(out)) /\ [i \in DOMAIN lost |-> lost[i].val] = FirstVals(lost, Len(lost))
  <2>1. DOMAIN out = 1..Len(out) /\ DOMAIN lost = 1..Len(lost)
    BY <1>5
  <2> QED
    BY <2>1 DEF FirstVals
<1>12. DOMAIN taken = 1..Len(taken)
  <2>1. FirstVals(in, d) \in Seq(Int)
    BY <1>5, <1>6, FirstValsAre
  <2>2. taken \in Seq(Int)
    BY <1>10, <2>1
  <2> QED
    BY <2>2
<1> QED
  BY <1>2, <1>9, <1>10, <1>11, <1>12 DEF Divides

\* As long as no halt keeps a star from its go(), the values that a FIFOQueue has
\* taken are told apart into those that it has put or keeps, and those that it has
\* turned away, each of them once and in order (QueuedDataIsAccountedFor).
THEOREM FIFOQueuesLoseNothing == Spec => []QueuedDataIsAccountedFor
<1>1. Init => NoneStale /\ DataAccountedFor
  BY SetupLeavesNoneStale, SetupAccountsForData
<1>2. Accountable /\ NoneStale /\ DataAccountedFor /\ [Next]_vars
      => NoneStale' /\ DataAccountedFor'
  <2>1. SUFFICES ASSUME Accountable, NoneStale, DataAccountedFor, [Next]_vars
                 PROVE  NoneStale' /\ DataAccountedFor'
    OBVIOUS
  <2>2. CASE UNCHANGED vars
    BY <2>1, <2>2 DEF vars, NoneStale, DataAccountedFor, StarsOf, Taken
  <2>3. CASE Next
    BY <2>1, <2>3, NextLeavesNoneStale, NextAccountsForData
  <2> QED
    BY <2>1, <2>2, <2>3
<1>3. Accountable /\ NoneStale /\ DataAccountedFor => QueuedDataIsAccountedFor
  BY AccountedForAsStated
<1> QED
  BY <1>1, <1>2, <1>3, AccountableHolds, PTL DEF Spec

-----------------------------------------------------------------------------
(* What a firing sends is deeper than what it takes. *)

\* A Statistics star does not keep a demand.
NoDemandWaits == "pre" \notin use.halts /\ pc # "error" =>
    \A s \in StarsOf("Statistics") : ~input[galaxy.in[s][3]].new
Fresher == "pre" \notin use.halts /\ NoneStale /\ NoDemandWaits

LEMMA StatisticsIs ==
  ASSUME Configured, NEW s \in StarsOf("Statistics")
  PROVE  s \in Stars(galaxy) /\ galaxy.kind[s] = "Statistics" /\ Len(galaxy.in[s]) = 3 /\ 3 \in 1..3
<1> DEFINE in == galaxy.in[s]
           k == galaxy.kind[s]
           pa == galaxy.param[s]
           out == galaxy.out[s]
<1>1. s \in Stars(galaxy) /\ k = "Statistics"
  BY DEF StarsOf
<1>2. in \in Seq(Arcs(galaxy)) /\ out \in Seq(Arcs(galaxy)) /\ IsStar(k, pa, in, out)
  BY <1>1, PortsOf
<1> HIDE DEF in, out, k, pa
<1>3. Len(in) = 3
  BY <1>1, <1>2, StarIs
<1> QED
  BY <1>1, <1>3 DEF in, k

LEMMA NextKeepsNoDemand ==
  ASSUME Timely, NoDemandWaits, Next
  PROVE  NoDemandWaits'
<1>1. Typed /\ InTime /\ Clocked /\ NotStarted /\ Configured
  BY DEF Timely, Typed
<1>2. galaxy' = galaxy /\ use' = use
  <2>1. config' = config
    BY DEF Next, Begin, Run, StopBeforeDead, EventInThePast, NoMoreEvents, Fire, HaltBeforeGo
  <2> QED
    BY <2>1, ConfigIsKept
<1>3. SUFFICES ASSUME "pre" \notin use.halts, pc' # "error", NEW s \in StarsOf("Statistics")
               PROVE  ~input'[galaxy.in[s][3]].new
  BY <1>2 DEF NoDemandWaits, StarsOf
<1> DEFINE p == galaxy.in[s][3]
<1>4. /\ s \in Stars(galaxy) /\ galaxy.kind[s] = "Statistics" /\ 3 \in 1..Len(galaxy.in[s])
      /\ p \in Arcs(galaxy) /\ DestOf(galaxy, p) = s
  <2>1. s \in Stars(galaxy) /\ galaxy.kind[s] = "Statistics" /\ 3 \in 1..Len(galaxy.in[s])
    BY <1>1, <1>3, StatisticsIs
  <2> QED
    BY <1>1, <2>1, PortsOf
<1>5. CASE Fire
  <2> DEFINE f == NextFiring
             k == galaxy.kind[f.star]
             r == ResultOf(f)
             port == ReadableOf(f)
  <2>1. Fired(f)
    BY <1>5, FireIs
  <2>2. f = NextFiring /\ pc = "running" /\ queue # <<>>
    BY <2>1 DEF Fired, FiringDue
  <2> HIDE DEF f
  <2>3. Advanced(f, Head(queue))
    BY <1>1, <2>1, FiredQueue
  <2>4. /\ SoundFiring(f) /\ f.ports \in PortsSet /\ f.queue \in Seq(EventSet) /\ input' = InputAfter(f)
    BY <2>1, <2>3 DEF Advanced, Fired
  <2>5. r.ok
    <3>1. IF ~r.ok THEN pc' = "error" /\ halts' = halts
          ELSE \/ pc' = pc /\ halts' = halts
               \/ halts < use.maxHalts /\ pc' = "ready" /\ halts' = halts + 1
      BY <2>1 DEF Fired
    <3> HIDE DEF r
    <3> QED
      BY <1>3, <3>1
  <2>6. ~input[p].new
    BY <1>3, <2>2 DEF NoDemandWaits
  <2> HIDE DEF p
  <2>7. CASE f.star # s
    <3>1. PICK n : Taking(f, p, n)
      BY <1>1, <1>4, <2>2, <2>7, TakingIs
    <3>2. f.ports[p] = input[p]
      BY <1>4, <2>7, <3>1 DEF Taking
    <3>3. InputAfter(f)[p] = f.ports[p]
      BY <1>1, <1>4, <2>4, <2>7, InputAfterIs
    <3> QED
      BY <2>4, <2>6, <3>2, <3>3 DEF p
  <2>8. CASE f.star = s
    <3>1. /\ Sound(k, galaxy.param[s], Len(galaxy.in[s]), Len(galaxy.out[s]), star[s], port, f.time, r)
          /\ port[3].new = f.ports[p].new
      BY <1>4, <2>4, <2>8 DEF SoundFiring, p, ReadableOf, Readable
    <3>2. /\ 3 \in r.drained \cup r.cleared => ~InputAfter(f)[p].new
          /\ 3 \notin r.drained \cup r.cleared => InputAfter(f)[p].new = f.ports[p].new
      BY <1>1, <1>4, <2>4, <2>8, InputAfterIs DEF p
    <3> HIDE DEF r, port, k
    <3>3. 3 \notin r.drained \cup r.cleared => ~port[3].new
      <4>1. ~HeldPort(k, 3)
        BY <1>4, <2>8 DEF HeldPort, k
      <4> QED
        BY <1>4, <2>5, <3>1, <4>1 DEF Sound
    <3> QED
      BY <2>4, <3>1, <3>2, <3>3 DEF p
  <2> QED
    BY <2>7, <2>8 DEF p
<1>6. CASE Begin \/ StopBeforeDead \/ EventInThePast \/ NoMoreEvents \/ \E stop \in use.stops : Run(stop)
  <2>1. input' = input /\ pc # "error"
    BY <1>6 DEF Begin, StopBeforeDead, EventInThePast, NoMoreEvents, Run
  <2> QED
    BY <1>3, <2>1 DEF NoDemandWaits
<1> QED
  BY <1>3, <1>5, <1>6 DEF Next, HaltBeforeGo

LEMMA SetupLeavesNoDemand ==
  ASSUME Init
  PROVE  NoDemandWaits
<1>1. Configured /\ input = [p \in Arcs(galaxy) |-> EmptyPort]
  BY SetupIsTimely DEF Init, Setup, Timely, Typed
<1>2. \A s \in StarsOf("Statistics") : galaxy.in[s][3] \in Arcs(galaxy)
  BY <1>1, StatisticsIs, PortsOf
<1> QED
  BY <1>1, <1>2 DEF NoDemandWaits, EmptyPort

\* An input with a new event either had it before or gets it in this firing.
LEMMA NewIsDue ==
  ASSUME Typed, queue # <<>>, NEW f, f = NextFiring, NEW p \in Arcs(galaxy), f.ports[p].new
  PROVE  input[p].new \/ Head(queue).fine <= depth[p]
<1> DEFINE e == Head(queue)
           q == Tail(queue)
<1>1. Configured /\ InOrder(queue) /\ input \in PortsSet
  BY DEF Typed
<1> DEFINE g == Gather(q, f.star, f.time, Fresh(e))
<1>2. e \in EventSet /\ f.time = e.level /\ f.star = Dest(e) /\ f.ports = g.ports
  BY <1>1, NextFiringIs
<1>3. q \in Seq(EventSet) /\ \A i \in 1..Len(q) : q[i] = queue[i + 1] /\ i + 1 \in 1..Len(queue)
  BY <1>1, TailKeepsOrder DEF InOrder
<1>4. e.fine = depth[e.arc] /\ \A y : Has(queue, y) => Behind(y)
  BY QueueIs
<1>5. Fresh(e) \in PortsSet /\ (p # e.arc => Fresh(e)[p].new = input[p].new)
  BY <1>1, <1>2, FreshIs
<1>6. e.fine \in Int /\ e.level \in Nat
  BY <1>1, <1>2, EventIs
<1> HIDE DEF g, q, e
<1> DEFINE F == Fresh(e)
<1> HIDE DEF F
<1>7. F[p].new \/ \E i \in 1..Len(q) : q[i].arc = p /\ q[i].level <= f.time
  <2>1. g = Gather(q, f.star, f.time, F) /\ F \in PortsSet /\ g.ports[p].new
    BY <1>2, <1>5 DEF g, F
  <2> QED
    BY <1>3, <2>1, GatherKeeps
<1>8. CASE \E i \in 1..Len(q) : q[i].arc = p /\ q[i].level <= f.time
  <2>1. PICK i \in 1..Len(q) : q[i].arc = p /\ q[i].level <= f.time
    BY <1>8
  <2> DEFINE j == i + 1
  <2>2. queue[j].arc = p /\ queue[j].level <= e.level /\ j \in 1..Len(queue)
    BY <1>2, <1>3, <2>1
  <2> HIDE DEF j
  <2>3. queue[j].fine = depth[p]
    BY <1>1, <2>2 DEF InOrder
  <2>4. Has(queue, queue[j])
    BY <2>2 DEF Has
  <2>5. Behind(queue[j])
    BY <1>4, <2>4
  <2>6. queue[j].level \in Nat /\ e.level <= queue[j].level
        /\ (e.level = queue[j].level => e.fine <= queue[j].fine)
    BY <1>1, <2>5, EventIs DEF Behind, e
  <2> QED
    BY <1>6, <2>2, <2>3, <2>6 DEF e
<1>9. CASE F[p].new
  BY <1>4, <1>5, <1>6, <1>9 DEF e, F
<1> QED
  BY <1>7, <1>8, <1>9

\* What it can have new from before is no less deep either.
LEMMA NewIsDeep ==
  ASSUME Typed, Fresher, pc = "running", queue # <<>>, NEW f, f = NextFiring,
         NEW i \in 1..Len(galaxy.in[f.star]), f.ports[galaxy.in[f.star][i]].new,
         galaxy.kind[f.star] = "Statistics" => i = 3
  PROVE  Head(queue).fine <= depth[galaxy.in[f.star][i]]
<1> DEFINE e == Head(queue)
           s == f.star
           in == galaxy.in[s]
           out == galaxy.out[s]
           k == galaxy.kind[s]
           pa == galaxy.param[s]
           p == in[i]
<1>1. Configured /\ InOrder(queue) /\ input \in PortsSet /\ IsGalaxy(galaxy) /\ depth = LongestPath(galaxy)
  BY DEF Typed, Configured
<1>2. s \in Stars(galaxy) /\ e.arc \in ToSet(in)
  BY <1>1, NextFiringIs
<1>3. in \in Seq(Arcs(galaxy)) /\ out \in Seq(Arcs(galaxy)) /\ IsStar(k, pa, in, out) /\ p \in Arcs(galaxy)
  BY <1>1, <1>2, PortsOf
<1>4. e.fine = depth[e.arc] /\ e.fine \in Int
  BY <1>1, QueueIs, EventIs
<1>5. PICK j \in 1..Len(in) : in[j] = e.arc
  BY <1>2, <1>3, ToSetHas DEF Has
<1>6. input[p].new \/ e.fine <= depth[p]
  BY <1>3, NewIsDue
<1>7. CASE input[p].new
  <2>1. HeldPort(k, i) /\ k # "Statistics"
    <3>1. k # "Statistics"
      BY <1>2, <1>7 DEF Fresher, NoDemandWaits, StarsOf
    <3>2. k = "Clock" \/ (k \notin {"Clock", "Statistics"} => HeldPort(k, i))
      BY <1>2, <1>7 DEF Fresher, NoneStale
    <3> QED
      BY <3>1, <3>2 DEF HeldPort
  <2>2. CASE k \in {"Clock", "Ramp"}
    <3> HIDE DEF in, out, k, pa, p
    <3>1. Len(in) = 1
      BY <1>3, <2>2, StarIs
    <3>2. i = 1 /\ j = 1
      BY <1>5, <3>1 DEF in, s
    <3> QED
      BY <1>4, <1>5, <3>2 DEF p, e, in
  <2>3. CASE k = "Sampler"
    <3>1. depth[in[i]] = depth[in[j]]
      BY <1>1, <1>2, <2>3, EvenDepths
    <3> QED
      BY <1>4, <1>5, <3>1
  <2> QED
    BY <2>1, <2>2, <2>3 DEF HeldPort
<1> QED
  BY <1>6, <1>7

\* An event sent at the time of a firing is deeper than the one it fires on; that
\* of a clock may be as deep.
Follows(f, y) ==
    LET e == Head(queue)
    IN  /\ y \in EventSet /\ e.level <= y.level
        /\ e.level = y.level => /\ e.fine <= y.fine
                                /\ e.fine < y.fine \/ galaxy.kind[Dest(y)] = "Clock"

LEMMA SentFollows ==
  ASSUME Timely, Fresher, NEW f, Fired(f), NEW y, SentEvent(f, y)
  PROVE  Follows(f, y)
<1> DEFINE e == Head(queue)
<1>1. Typed /\ InTime /\ Clocked /\ Configured
  BY DEF Timely, Typed
<1>2. pc = "running" /\ queue # <<>> /\ f = NextFiring
  BY DEF Fired, FiringDue
<1>3. f.time = e.level /\ f.star \in Stars(galaxy)
  BY <1>1, FiredQueue DEF Advanced, SoundFiring
<1>4. e.fine \in Int /\ y \in EventSet /\ y.level >= e.level
  BY <1>1, <1>2, <1>3, QueueIs, EventIs DEF SentEvent
<1>5. y.fine \in Int /\ y.level \in Nat /\ e.level \in Nat
  BY <1>1, <1>2, <1>4, QueueIs, EventIs
<1>6. CASE y.level = e.level
  <2>1. PICK i \in 1..Len(galaxy.in[f.star]) : Causes(f, i, y)
    BY <1>3, <1>6 DEF SentEvent
  <2> DEFINE p == galaxy.in[f.star][i]
  <2>2. /\ f.ports[p].new /\ depth[p] <= y.fine /\ (depth[p] < y.fine \/ galaxy.kind[Dest(y)] = "Clock")
        /\ galaxy.kind[f.star] = "Statistics" => i = 3
    BY <2>1 DEF Causes
  <2>3. e.fine <= depth[p]
    BY <1>1, <1>2, <2>2, NewIsDeep
  <2>4. depth[p] \in Int
    <3>1. p \in Arcs(galaxy)
      BY <1>1, <1>3, PortsOf
    <3> QED
      BY <1>1, <3>1, Depths DEF Configured
  <2> HIDE DEF p, e
  <2>5. e.fine <= y.fine /\ (e.fine < y.fine \/ galaxy.kind[Dest(y)] = "Clock")
    BY <1>4, <1>5, <2>2, <2>3, <2>4
  <2> QED
    BY <1>4, <1>5, <2>5 DEF Follows, e
<1> QED
  BY <1>4, <1>5, <1>6 DEF Follows

-----------------------------------------------------------------------------
(* The counters *)

LEMMA CounterIs ==
  ASSUME Configured, NEW s \in StarsOf("UDCounter")
  PROVE  /\ s \in Stars(galaxy) /\ galaxy.kind[s] = "UDCounter" /\ Len(galaxy.in[s]) = 4 /\ Len(galaxy.out[s]) = 1
         /\ \A i \in 1..4 : galaxy.in[s][i] \in Arcs(galaxy) /\ DestOf(galaxy, galaxy.in[s][i]) = s
         /\ galaxy.out[s][1] \in Arcs(galaxy) /\ EvenStar(s) /\ depth[galaxy.in[s][1]] \in Int
         /\ \A p \in Arcs(galaxy) : DestOf(galaxy, p) = s => depth[p] = depth[galaxy.in[s][1]]
<1> DEFINE in == galaxy.in[s]
           out == galaxy.out[s]
           k == galaxy.kind[s]
           pa == galaxy.param[s]
<1>1. s \in Stars(galaxy) /\ k = "UDCounter"
  BY DEF StarsOf
<1>2. /\ in \in Seq(Arcs(galaxy)) /\ out \in Seq(Arcs(galaxy)) /\ IsStar(k, pa, in, out)
      /\ \A i \in 1..Len(in) : in[i] \in Arcs(galaxy) /\ DestOf(galaxy, in[i]) = s
      /\ \A o \in 1..Len(out) : out[o] \in Arcs(galaxy)
  BY <1>1, PortsOf
<1>3. IsGalaxy(galaxy) /\ depth = LongestPath(galaxy)
  BY DEF Configured
<1>4. \A i, j \in 1..Len(in) : depth[in[i]] = depth[in[j]]
  BY <1>1, <1>3, EvenDepths
<1>5. \A p \in Arcs(galaxy) : DestOf(galaxy, p) = s => p \in ToSet(in)
  BY ArcIs
<1>6. \A p \in Arcs(galaxy) : depth[p] \in Int
  BY <1>3, Depths DEF Configured
<1> HIDE DEF in, out, k, pa
<1>7. Len(in) = 4 /\ Len(out) = 1
  BY <1>1, <1>2, StarIs
<1>8. \A p \in ToSet(in) : \E i \in 1..Len(in) : in[i] = p
  BY <1>2, ToSetHas DEF Has
<1>9. 1 \in 1..Len(in) /\ 1 \in 1..Len(out)
  BY <1>7
<1>10. EvenStar(s)
  BY <1>4, <1>8 DEF EvenStar, in
<1>11. \A p \in Arcs(galaxy) : DestOf(galaxy, p) = s => depth[p] = depth[in[1]]
  BY <1>4, <1>5, <1>8, <1>9
<1> QED
  BY <1>1, <1>2, <1>6, <1>7, <1>9, <1>10, <1>11 DEF in, out, k

\* What the firing f of a counter takes at its i-th input: all c events of its
\* time, and no others.
Consumes(f, i, c) ==
    LET p == galaxy.in[f.star][i]
        L == OnArc(queue, p)
    IN  /\ c \in Nat /\ \E N : Advances(p, c, N)
        /\ \E M : Dropped(L, c, M) /\ OnArc(queue', p) = M \o OnArc(SentBy(f), p)
        /\ \A j \in 1..c : L[j].level = f.time
        /\ \A j \in 1..Len(L) : j > c => L[j].level > f.time
        /\ Len(Vals(ReadableOf(f), i)) = c /\ (ReadableOf(f)[i].new <=> c > 0)

\* Star s, a counter, returns this.
Counted(s, f) ==
    LET port == ReadableOf(f)
        r == ResultOf(f)
        m == star[s].memory + Len(Vals(port, 1)) - Len(Vals(port, 2))
    IN  /\ r.drained = New(port) /\ DOMAIN port = 1..4 /\ star[s].memory \in Int
        /\ r.star.memory = IF port[3].new THEN 0 ELSE m
        /\ r.puts = IF port[4].new THEN <<Put(1, f.time, m)>> ELSE <<>>
        /\ m \in Int

LEMMA CounterReturns ==
  ASSUME Configured, NEW f, NEW s, Fires(f, s), s \in StarsOf("UDCounter")
  PROVE  Counted(s, f)
<1> DEFINE st == star[s]
           t == f.time
           pa == galaxy.param[s]
           port == ReadableOf(f)
           r == ResultOf(f)
<1>1. galaxy.kind[s] = "UDCounter" /\ Len(galaxy.in[s]) = 4 /\ Len(galaxy.out[s]) = 1
  BY CounterIs
<1>2. s = f.star /\ SoundFiring(f)
  BY DEF Fires
<1>3. Callable("UDCounter", pa, 4, st, port, t) /\ st \in StarSet("UDCounter")
  BY <1>1, <1>2, ZenonT(40) DEF SoundFiring
<1>4. r = UDCounterGo(st, port, t)
  BY <1>1, <1>2 DEF ResultOf, Go
<1> HIDE DEF st, port, t, pa, r
<1>5. r.drained = New(port)
      /\ LET m == st.memory + Len(Vals(port, 1)) - Len(Vals(port, 2))
         IN  /\ r.star.memory = IF port[3].new THEN 0 ELSE m
             /\ r.puts = IF port[4].new THEN <<Put(1, t, m)>> ELSE <<>>
             /\ m \in Int
  BY <1>3, <1>4, CounterIsSound
<1>6. DOMAIN port = 1..4
  BY <1>3 DEF Callable
<1>7. st.memory \in Int
  BY <1>3 DEF StarSet, MemorySet
<1> QED
  BY <1>5, <1>6, <1>7 DEF Counted, st, port, t, r

LEMMA CounterConsumes ==
  ASSUME Accountable, NoneStale, "pre" \notin use.halts, NEW f, NEW s, Fires(f, s), Fired(f),
         s \in StarsOf("UDCounter"), NEW i \in 1..4
  PROVE  \E c : Consumes(f, i, c)
<1> DEFINE port == ReadableOf(f)
           p == galaxy.in[s][i]
           L == OnArc(queue, p)
<1>1. Configured /\ Timely /\ Bounded
  BY DEF Accountable, Timely, Typed
<1>2. /\ s \in Stars(galaxy) /\ galaxy.kind[s] = "UDCounter" /\ Len(galaxy.in[s]) = 4 /\ p \in Arcs(galaxy)
      /\ DestOf(galaxy, p) = s /\ EvenStar(s)
  BY <1>1, CounterIs
<1>3. s = f.star /\ i \in 1..Len(galaxy.in[s]) /\ Counted(s, f)
  BY <1>1, <1>2, CounterReturns DEF Fires
<1>4. PICK n : Takes(f, i, n)
  BY <1>3 DEF Fires
<1>5. Taking(f, p, n) /\ Seen(f, i, n) /\ \E N : Advances(p, LeftOf(f, p, n), N)
  BY <1>3, <1>4 DEF Takes
<1>6. L \in Seq(EventSet) /\ n \in 0..Len(L) /\ n \in Nat
  <2>1. queue \in Seq(EventSet)
    BY DEF Accountable, Timely, Typed, InOrder
  <2>2. L \in Seq(EventSet)
    BY <2>1, RecordedIs
  <2>3. n \in 0..Len(L)
    BY <1>5, ZenonT(20) DEF Taking
  <2> HIDE DEF L
  <2> QED
    BY <2>2, <2>3
<1>7. /\ n = 0 => port[i].new = input[p].new
      /\ n > 0 => port[i].new /\ Len(port[i].vals) = n
  BY <1>3, <1>5, SMTT(30) DEF Seen
<1>8. ~input[p].new
  <2>1. ~HeldPort("UDCounter", i)
    BY DEF HeldPort
  <2> QED
    BY <1>2, <1>3, <2>1 DEF NoneStale
<1>9. (\A j \in 1..n : L[j].level = f.time) /\ (\A j \in 1..Len(L) : j > n => L[j].level > f.time)
  BY <1>2, <1>3, <1>5, ZenonT(20) DEF Taking
<1>10. DOMAIN port = 1..4 /\ ResultOf(f).drained = New(port)
  BY <1>3, Zenon DEF Counted
<1>11. Passes(p, LeftOf(f, p, n), OnArc(SentBy(f), p))
  BY <1>1, <1>2, <1>5, FirePasses
<1> HIDE DEF port, L
<1>12. LeftOf(f, p, n) = n /\ (port[i].new <=> n > 0) /\ Len(Vals(port, i)) = n
  <2>1. CASE n = 0
    <3>1. ~port[i].new /\ LeftOf(f, p, n) = n
      BY <1>7, <1>8, <2>1 DEF LeftOf
    <3>2. Vals(port, i) = <<>>
      BY <3>1 DEF Vals
    <3> QED
      BY <2>1, <3>1, <3>2
  <2>2. CASE n > 0
    <3>1. i \in ResultOf(f).drained
      BY <1>7, <1>10, <2>2 DEF New
    <3>2. p \in DrainedBy(f)
      BY <1>3, <3>1 DEF DrainedBy
    <3>3. LeftOf(f, p, n) = n
      BY <3>2 DEF LeftOf
    <3> QED
      BY <1>7, <2>2, <3>3 DEF Vals
  <2> QED
    BY <1>6, <2>1, <2>2
<1> HIDE DEF p
<1>13. /\ \E N : Advances(p, n, N)
       /\ \E M : Dropped(L, n, M) /\ OnArc(queue', p) = M \o OnArc(SentBy(f), p)
  BY <1>5, <1>11, <1>12 DEF Passes, L
<1> QED
  BY <1>3, <1>6, <1>9, <1>12, <1>13 DEF Consumes, p, L, port

\* The event y comes after the firing of the counter s at time u.
ComesAfter(s, u, y) ==
    /\ y \in EventSet /\ u <= y.level
    /\ u = y.level => depth[galaxy.in[s][1]] <= y.fine /\ Dest(y) # s
Past(s, u) == \A y : Has(queue, y) => ComesAfter(s, u, y)

\* y is no earlier than e; when it is simultaneous and no deeper, it goes to a clock.
LEMMA AfterAsWell ==
  ASSUME Configured, NEW s \in StarsOf("UDCounter"), NEW u \in Int, NEW e, ComesAfter(s, u, e),
         NEW y \in EventSet, y.fine = depth[y.arc], e.level <= y.level,
         e.level = y.level => /\ e.fine <= y.fine
                              /\ e.fine < y.fine \/ galaxy.kind[Dest(y)] = "Clock"
  PROVE  ComesAfter(s, u, y)
<1> DEFINE d == depth[galaxy.in[s][1]]
<1>1. d \in Int /\ galaxy.kind[s] = "UDCounter"
  BY CounterIs
<1>2. e \in EventSet /\ u <= e.level /\ (u = e.level => d <= e.fine)
  BY DEF ComesAfter
<1>3. e.level \in Nat /\ e.fine \in Int /\ y.level \in Nat /\ y.fine \in Int /\ y.arc \in Arcs(galaxy)
  BY <1>2, EventIs
<1>4. Dest(y) = s => y.fine = d
  <2>1. DestOf(galaxy, y.arc) = s => depth[y.arc] = d
    BY <1>3, CounterIs
  <2> QED
    BY <2>1 DEF Dest
<1> HIDE DEF d
<1>5. u <= y.level
  BY <1>2, <1>3
<1>6. ASSUME u = y.level PROVE d <= y.fine /\ Dest(y) # s
  <2>1. u = e.level /\ e.level = y.level
    BY <1>2, <1>3, <1>6
  <2>2. d <= e.fine /\ e.fine <= y.fine /\ (e.fine < y.fine \/ galaxy.kind[Dest(y)] = "Clock")
    BY <1>2, <2>1
  <2>3. d <= y.fine
    BY <1>1, <1>3, <2>2
  <2>4. Dest(y) = s => galaxy.kind[Dest(y)] # "Clock" /\ ~(e.fine < y.fine)
    BY <1>1, <1>3, <1>4, <2>2
  <2> QED
    BY <2>2, <2>3, <2>4
<1> QED
  BY <1>5, <1>6 DEF ComesAfter, d

\* What the firing f leaves in the queue.
LEMMA QueueFollows ==
  ASSUME Timely, Fresher, NEW f, Fired(f), NEW y, Has(queue', y)
  PROVE  /\ y \in EventSet /\ y.fine = depth[y.arc] /\ f.time = Head(queue).level
         /\ Head(queue) \in EventSet /\ Has(queue, Head(queue))
         /\ Behind(y) \/ (SentEvent(f, y) /\ Follows(f, y))
<1>1. Typed /\ InTime /\ Clocked /\ Configured /\ queue # <<>>
  BY DEF Timely, Typed, Fired, FiringDue
<1> DEFINE e == Head(queue)
<1>2. Advanced(f, e)
  BY <1>1, FiredQueue
<1>3. e \in EventSet /\ Has(queue, e)
  BY <1>1, QueueIs
<1>4. f.time = e.level /\ InOrder(queue') /\ (Behind(y) \/ SentEvent(f, y))
  BY <1>2 DEF Advanced
<1> HIDE DEF e
<1>5. y \in EventSet /\ y.fine = depth[y.arc]
  BY <1>4 DEF InOrder, Has
<1>6. SentEvent(f, y) => Follows(f, y)
  BY SentFollows
<1> QED
  BY <1>3, <1>4, <1>5, <1>6 DEF e

LEMMA OtherKeepsPast ==
  ASSUME Timely, Fresher, NEW s \in StarsOf("UDCounter"), NEW u \in Int, Past(s, u), NEW f, Fired(f),
         NEW y, Has(queue', y)
  PROVE  ComesAfter(s, u, y)
<1> DEFINE e == Head(queue)
<1>1. Configured
  BY DEF Timely, Typed
<1>2. /\ y \in EventSet /\ y.fine = depth[y.arc] /\ Has(queue, e)
      /\ Behind(y) \/ Follows(f, y)
  BY QueueFollows
<1>3. CASE Behind(y)
  BY <1>3 DEF Behind, Past
<1>4. CASE Follows(f, y)
  <2>1. ComesAfter(s, u, e)
    BY <1>2 DEF Past
  <2>2. /\ e.level <= y.level
        /\ e.level = y.level => e.fine <= y.fine /\ (e.fine < y.fine \/ galaxy.kind[Dest(y)] = "Clock")
    BY <1>4 DEF Follows
  <2> HIDE DEF e
  <2> QED
    BY <1>1, <1>2, <2>1, <2>2, AfterAsWell
<1> QED
  BY <1>2, <1>3, <1>4

\* An event the firing f sends is not for a counter that it fires.
LEMMA NotToItself ==
  ASSUME Timely, Fresher, NEW f, Fired(f), NEW s \in StarsOf("UDCounter"), f.star = s,
         NEW y, Has(SentBy(f), y), y.level = f.time
  PROVE  Dest(y) # s
<1> DEFINE e == Head(queue)
<1>1. Typed /\ InTime /\ Clocked /\ Configured /\ queue # <<>>
  BY DEF Timely, Typed, Fired, FiringDue
<1>2. Advanced(f, e) /\ e \in EventSet /\ e.fine = depth[e.arc]
  BY <1>1, FiredQueue, QueueIs
<1>3. SoundFiring(f) /\ f.ports \in PortsSet /\ f.time = e.level /\ f.star = Dest(e)
  BY <1>2 DEF Advanced
<1>4. SentEvent(f, y)
  BY <1>1, <1>3, SentEventIs
<1>5. Follows(f, y)
  BY <1>4, SentFollows
<1>6. y \in EventSet /\ (e.fine < y.fine \/ galaxy.kind[Dest(y)] = "Clock")
  BY <1>3, <1>5 DEF Follows
<1>7. y.fine = depth[y.arc]
  <2>1. Deep(SentBy(f))
    BY <1>1, <1>3, PutsAre
  <2> QED
    BY <2>1 DEF Deep, Has
<1> HIDE DEF e
<1>8. e.arc \in Arcs(galaxy) /\ y.arc \in Arcs(galaxy) /\ e.fine \in Int /\ y.fine \in Int
  BY <1>1, <1>2, <1>6, EventIs
<1>9. e.fine = depth[galaxy.in[s][1]]
  BY <1>1, <1>2, <1>3, <1>8, CounterIs DEF Dest
<1>10. Dest(y) = s => y.fine = depth[galaxy.in[s][1]] /\ galaxy.kind[s] = "UDCounter"
  BY <1>1, <1>7, <1>8, CounterIs DEF Dest
<1>11. ~(y.fine < y.fine)
  BY <1>8
<1> QED
  BY <1>6, <1>9, <1>10, <1>11

LEMMA FiringIsPast ==
  ASSUME Accountable, NoneStale, Fresher, "pre" \notin use.halts, NEW f, NEW s, Fires(f, s), Fired(f),
         s \in StarsOf("UDCounter"), NEW y, Has(queue', y)
  PROVE  ComesAfter(s, f.time, y)
<1> DEFINE e == Head(queue)
           p == y.arc
           N == OnArc(SentBy(f), p)
<1>1. Typed /\ Timely /\ Configured /\ queue # <<>> /\ f.star = s
  BY DEF Accountable, Timely, Typed, Fired, FiringDue, Fires
<1>2. /\ y \in EventSet /\ y.fine = depth[y.arc] /\ f.time = e.level /\ e \in EventSet
      /\ Behind(y) \/ Follows(f, y)
  BY <1>1, QueueFollows
<1>3. f.time <= y.level /\ (f.time = y.level => e.fine <= y.fine)
  BY <1>2 DEF Behind, Follows
<1>4. e.fine = depth[galaxy.in[s][1]]
  <2>1. e.fine = depth[e.arc] /\ e.arc \in Arcs(galaxy) /\ Dest(e) = s
    <3>1. Advanced(f, e)
      BY <1>1, FiredQueue DEF Timely
    <3>2. e.fine = depth[e.arc]
      BY <1>1, QueueIs
    <3>3. e.arc \in Arcs(galaxy)
      BY <1>1, <1>2, EventIs
    <3> QED
      BY <1>1, <3>1, <3>2, <3>3 DEF Advanced
  <2> HIDE DEF e
  <2> QED
    BY <1>1, <2>1, CounterIs DEF Dest
<1>5. SUFFICES ASSUME f.time = y.level, Dest(y) = s PROVE FALSE
  BY <1>2, <1>3, <1>4 DEF ComesAfter
<1>6. PICK i \in 1..4 : galaxy.in[s][i] = p
  <2>1. p \in Arcs(galaxy) /\ DestOf(galaxy, p) = s
    BY <1>1, <1>2, <1>5, EventIs DEF Dest
  <2>2. p \in ToSet(galaxy.in[s]) /\ galaxy.in[s] \in Seq(Arcs(galaxy)) /\ Len(galaxy.in[s]) = 4
    BY <1>1, <2>1, ArcIs, CounterIs
  <2> HIDE DEF p
  <2> QED
    BY <2>2, ToSetHas DEF Has
<1>7. PICK c : Consumes(f, i, c)
  BY CounterConsumes
<1> DEFINE L == OnArc(queue, p)
<1>8. /\ \E M : Dropped(L, c, M) /\ OnArc(queue', p) = M \o N
      /\ \A j \in 1..Len(L) : j > c => L[j].level > f.time
  BY <1>1, <1>6, <1>7, Zenon DEF Consumes
<1> HIDE DEF L
<1>9. PICK M : Dropped(L, c, M) /\ OnArc(queue', p) = M \o N
  BY <1>8
<1>10. queue' \in Seq(EventSet) /\ SentBy(f) \in Seq(EventSet)
  <2>1. Advanced(f, e)
    BY <1>1, FiredQueue DEF Timely
  <2>2. InOrder(queue') /\ SoundFiring(f)
    BY <2>1 DEF Advanced
  <2> QED
    BY <1>1, <2>2, PutsAre DEF InOrder, Deep
<1>11. PICK o : AlongArc(SentBy(f), p, o)
  BY <1>10, OnArcIs
<1>12. N \in Seq(EventSet) /\ \A j \in 1..Len(N) : Has(SentBy(f), N[j]) /\ N[j].arc = p
  BY <1>11 DEF AlongArc, Has
<1>13. \E j \in 1..Len(M \o N) : (M \o N)[j] = y
  <2>1. PICK w : AlongArc(queue', p, w)
    BY <1>10, OnArcIs
  <2>2. PICK k \in 1..Len(queue') : queue'[k] = y
    BY DEF Has
  <2>3. k \in Places(queue', p)
    BY <2>2 DEF Places
  <2>4. PICK j \in 1..Len(w) : w[j] = k
    BY <2>1, <2>3 DEF AlongArc, Enumerates
  <2>5. OnArc(queue', p)[j] = y /\ Len(OnArc(queue', p)) = Len(w)
    BY <2>1, <2>2, <2>4 DEF AlongArc
  <2> QED
    BY <1>9, <2>4, <2>5
<1> HIDE DEF N
<1>14. PICK j \in 1..Len(M \o N) : (M \o N)[j] = y
  BY <1>13
<1>15. /\ M \in Seq(EventSet) /\ c \in 0..Len(L) /\ Len(L) \in Nat
       /\ \A k \in 1..Len(M) : k + c \in 1..Len(L) /\ M[k] = L[k + c]
  BY <1>9 DEF Dropped
<1>16. CASE j <= Len(M)
  <2>1. j \in 1..Len(M) /\ (M \o N)[j] = M[j]
    BY <1>12, <1>14, <1>15, <1>16
  <2>2. j + c \in 1..Len(L) /\ y = L[j + c] /\ j + c > c
    BY <1>14, <1>15, <2>1
  <2>3. y.level > f.time
    BY <1>8, <2>2
  <2> QED
    BY <1>1, <1>2, <1>5, <2>3, EventIs
<1>17. CASE ~(j <= Len(M))
  <2>1. j - Len(M) \in 1..Len(N) /\ (M \o N)[j] = N[j - Len(M)]
    BY <1>12, <1>14, <1>15, <1>17
  <2>2. Has(SentBy(f), y)
    BY <1>12, <1>14, <2>1
  <2> QED
    BY <1>1, <1>5, <2>2, NotToItself
<1> QED
  BY <1>16, <1>17

\* Up to its last firing, at time u, the counter s has counted what it should have.
Settled(s, u) ==
    LET in == galaxy.in[s]
    IN  /\ u \in Int /\ -1 <= u /\ (pc = "setup" => u = -1) /\ Past(s, u)
        /\ \A i \in 1..4 : \A j \in 1..Taken(in[i]) : sent[in[i]][j].time <= u
        /\ Tallied(sent[in[1]], sent[in[2]], sent[in[3]], sent[galaxy.out[s][1]], star[s].memory, u)

CountersSettled == "pre" \notin use.halts => \A s \in StarsOf("UDCounter") : \E u : Settled(s, u)

\* So it is after a step.
SettledAfter(s, u) ==
    LET in == galaxy.in[s]
    IN  /\ \A y : Has(queue', y) => ComesAfter(s, u, y)
        /\ \A i \in 1..4 : \A j \in 1..(Len(sent'[in[i]]) - Len(OnArc(queue', in[i]))) : sent'[in[i]][j].time <= u
        /\ Tallied(sent'[in[1]], sent'[in[2]], sent'[in[3]], sent'[galaxy.out[s][1]], star'[s].memory, u)

LEMMA SettledThen ==
  ASSUME config' = config, NEW s, NEW u \in Int, -1 <= u, pc' = "setup" => u = -1, SettledAfter(s, u)
  PROVE  Settled(s, u)'
<1>1. galaxy' = galaxy /\ depth' = depth /\ EventSet' = EventSet
  BY ConfigIsKept
<1>2. /\ \A y : Has(queue', y) => ComesAfter(s, u, y)
      /\ \A i \in 1..4 : \A j \in 1..(Len(sent'[galaxy.in[s][i]]) - Len(OnArc(queue', galaxy.in[s][i]))) :
            sent'[galaxy.in[s][i]][j].time <= u
      /\ Tallied(sent'[galaxy.in[s][1]], sent'[galaxy.in[s][2]], sent'[galaxy.in[s][3]], sent'[galaxy.out[s][1]],
                 star'[s].memory, u)
  BY DEF SettledAfter
<1>3. Past(s, u)'
  BY <1>1, <1>2 DEF Past, ComesAfter, Dest
<1> QED
  BY <1>1, <1>2, <1>3 DEF Settled, Taken

LEMMA UntakenAreLater ==
  ASSUME Configured, NEW q \in Seq(EventSet), NEW p \in Arcs(galaxy), NEW s, DestOf(galaxy, p) = s,
         NEW R, Remembered(R, OnArc(q, p)), NEW u \in Int, \A y : Has(q, y) => ComesAfter(s, u, y)
  PROVE  \A j \in 1..Len(R) : j > Len(R) - Len(OnArc(q, p)) => R[j].time > u
<1> DEFINE L == OnArc(q, p)
<1>1. SUFFICES ASSUME NEW j \in 1..Len(R), j > Len(R) - Len(L) PROVE R[j].time > u
  OBVIOUS
<1>2. PICK o : AlongArc(q, p, o)
  BY OnArcIs
<1> HIDE DEF L
<1>3. /\ Len(R) \in Nat /\ Len(L) \in Nat /\ Len(L) <= Len(R)
      /\ \A i \in 1..Len(L) : R[Len(R) - Len(L) + i].time = L[i].level
  BY DEF Remembered, L
<1> DEFINE i == j - (Len(R) - Len(L))
<1>4. i \in 1..Len(L) /\ Len(R) - Len(L) + i = j
  BY <1>1, <1>3
<1> HIDE DEF i
<1>5. R[j].time = L[i].level
  BY <1>3, <1>4
<1>6. L[i].arc = p /\ Has(q, L[i])
  BY <1>2, <1>4 DEF AlongArc, Has, L
<1>7. ComesAfter(s, u, L[i]) /\ Dest(L[i]) = s
  BY <1>6 DEF Dest
<1>8. L[i].level \in Nat /\ u <= L[i].level /\ u # L[i].level
  BY <1>7, EventIs DEF ComesAfter
<1> QED
  BY <1>5, <1>8

\* A step takes k events of arc p, and those that it leaves come after time u.
ArcSettled(p, k, u) ==
    /\ sent[p] \in Seq(SentSet) /\ sent'[p] \in Seq(SentSet) /\ Len(sent[p]) <= Len(sent'[p])
    /\ Taken(p) \in Nat /\ k \in Nat /\ Taken(p) + k <= Len(sent[p])
    /\ Len(sent'[p]) - Len(OnArc(queue', p)) = Taken(p) + k
    /\ \A j \in 1..Len(sent[p]) : sent'[p][j] = sent[p][j]
    /\ \A j \in 1..k : Taken(p) + j \in 1..Len(sent[p]) /\ sent[p][Taken(p) + j].time = OnArc(queue, p)[j].level
    /\ \A j \in 1..Len(sent'[p]) : Taken(p) + k < j => sent'[p][j].time > u

LEMMA ArcIsSettled ==
  ASSUME Configured, NEW s \in StarsOf("UDCounter"), NEW i \in 1..4, NEW p, p = galaxy.in[s][i],
         NEW k, NEW N, Advances(p, k, N), queue' \in Seq(EventSet),
         NEW u \in Int, \A y : Has(queue', y) => ComesAfter(s, u, y)
  PROVE  ArcSettled(p, k, u)
<1> DEFINE S == sent[p]
           R == sent'[p]
           L == OnArc(queue, p)
           K == OnArc(queue', p)
           n == Taken(p)
<1>1. p \in Arcs(galaxy) /\ DestOf(galaxy, p) = s
  BY CounterIs
<1>2. TakenToo(p, k)
  BY AdvancesTake
<1>3. /\ n \in Nat /\ n + k \in 0..Len(S) /\ Len(S) \in Nat /\ k \in 0..Len(L)
      /\ Len(R) - Len(K) = n + k /\ Len(R) \in Nat /\ Len(S) <= Len(R)
      /\ \A j \in 1..Len(S) : R[j] = S[j]
      /\ \A j \in 1..k : n + j \in 1..Len(S) /\ S[n + j].time = L[j].level
  BY <1>2 DEF TakenToo
<1>4. S \in Seq(SentSet) /\ R \in Seq(SentSet) /\ Remembered(R, K)
  BY DEF Advances, SentToo
<1>5. \A j \in 1..Len(R) : j > Len(R) - Len(K) => R[j].time > u
  BY <1>1, <1>4, UntakenAreLater
<1> HIDE DEF S, R, L, K, n
<1>6. k \in Nat /\ n + k <= Len(S)
  BY <1>3
<1>7. \A j \in 1..Len(R) : n + k < j => R[j].time > u
  BY <1>3, <1>5, <1>6
<1> QED
  BY <1>3, <1>4, <1>6, <1>7 DEF ArcSettled, S, R, L, K, n

\* A counter that does not fire.
LEMMA IdleIsSettled ==
  ASSUME Configured, NEW s \in StarsOf("UDCounter"), NEW u, Settled(s, u), "pre" \notin use.halts, Idles(s),
         queue' \in Seq(EventSet), \A y : Has(queue', y) => ComesAfter(s, u, y)
  PROVE  SettledAfter(s, u)
<1> DEFINE in == galaxy.in[s]
           C == sent[galaxy.out[s][1]]
<1>1. Len(galaxy.in[s]) = 4 /\ Len(galaxy.out[s]) = 1
  BY CounterIs
<1>2. /\ u \in Int /\ \A i \in 1..4 : \A j \in 1..Taken(in[i]) : sent[in[i]][j].time <= u
      /\ Tallied(sent[in[1]], sent[in[2]], sent[in[3]], C, star[s].memory, u)
  BY DEF Settled
<1>3. sent'[galaxy.out[s][1]] = C /\ C \in Seq(SentSet) /\ star'[s] = star[s]
  <2>1. 1 \in 1..Len(galaxy.out[s])
    BY <1>1
  <2>2. SentToo(C, <<>>, sent'[galaxy.out[s][1]]) /\ star'[s] = star[s]
    BY <2>1 DEF Idles
  <2> HIDE DEF C
  <2> QED
    BY <2>2, NothingFollows DEF SentToo
<1>4. ASSUME NEW i \in 1..4
      PROVE  /\ LaterToo(sent[in[i]], sent'[in[i]], u)
             /\ \A j \in 1..(Len(sent'[in[i]]) - Len(OnArc(queue', in[i]))) : sent'[in[i]][j].time <= u
  <2> DEFINE p == in[i]
             S == sent[p]
             R == sent'[p]
             n == Taken(p)
  <2>1. PICK k, N : Advances(p, k, N) /\ k = 0
    <3>1. i \in 1..Len(galaxy.in[s])
      BY <1>1
    <3>2. PICK k, N : Advances(p, k, N) /\ k \in 0..1 /\ k # 1
      BY <3>1 DEF Idles
    <3>3. k = 0
      BY <3>2
    <3> QED
      BY <3>2, <3>3
  <2> HIDE DEF p
  <2>2. /\ S \in Seq(SentSet) /\ R \in Seq(SentSet) /\ Len(S) <= Len(R)
        /\ n \in Nat /\ n + k <= Len(S) /\ Len(R) - Len(OnArc(queue', p)) = n + k
        /\ \A j \in 1..Len(S) : R[j] = S[j]
        /\ \A j \in 1..Len(R) : n + k < j => R[j].time > u
    <3>1. p = galaxy.in[s][i]
      BY DEF p
    <3>2. ArcSettled(p, k, u)
      BY <1>2, <2>1, <3>1, ArcIsSettled
    <3> QED
      BY <3>2 DEF ArcSettled
  <2>3. \A j \in 1..n : S[j].time <= u
    BY <1>2 DEF p
  <2> HIDE DEF S, R, n
  <2>4. \A j \in 1..Len(R) : j > Len(S) => R[j].time > u
    BY <2>1, <2>2
  <2>5. \A j \in 1..(Len(R) - Len(OnArc(queue', p))) : R[j].time <= u
    BY <2>1, <2>2, <2>3
  <2> QED
    BY <2>2, <2>4, <2>5 DEF LaterToo, p, S, R
<1>5. /\ LaterToo(sent[in[1]], sent'[in[1]], u) /\ LaterToo(sent[in[2]], sent'[in[2]], u)
      /\ LaterToo(sent[in[3]], sent'[in[3]], u)
  <2>1. 1 \in 1..4 /\ 2 \in 1..4 /\ 3 \in 1..4
    OBVIOUS
  <2> HIDE DEF in
  <2> QED
    BY <1>4, <2>1
<1> HIDE DEF in, C
<1>6. Tallied(sent'[in[1]], sent'[in[2]], sent'[in[3]], C, star[s].memory, u)
  <2> DEFINE S1 == sent[in[1]]
             S2 == sent[in[2]]
             S3 == sent[in[3]]
             R1 == sent'[in[1]]
             R2 == sent'[in[2]]
             R3 == sent'[in[3]]
             m == star[s].memory
  <2> HIDE DEF S1, S2, S3, R1, R2, R3, m
  <2>1. Tallied(S1, S2, S3, C, m, u) /\ LaterToo(S1, R1, u) /\ LaterToo(S2, R2, u) /\ LaterToo(S3, R3, u)
    BY <1>2, <1>5 DEF S1, S2, S3, R1, R2, R3, m
  <2>2. Tallied(R1, R2, R3, C, m, u)
    BY <1>2, <1>3, <2>1, TallyStays
  <2> QED
    BY <2>2 DEF R1, R2, R3, m
<1> QED
  BY <1>3, <1>4, <1>6 DEF SettledAfter, in, C

\* What the firing f, at a time t after u, takes at the i-th input of the counter s.
Steps(s, f, i, u) ==
    LET p == galaxy.in[s][i]
        c == Len(Vals(ReadableOf(f), i))
    IN  /\ NextAt(sent[p], sent'[p], Taken(p), c, u, f.time) /\ (ReadableOf(f)[i].new <=> c > 0)
        /\ \A j \in 1..(Len(sent'[p]) - Len(OnArc(queue', p))) : sent'[p][j].time <= f.time

LEMMA CounterSteps ==
  ASSUME Accountable, NoneStale, "pre" \notin use.halts, NEW f, NEW s, Fires(f, s), Fired(f),
         s \in StarsOf("UDCounter"), NEW u, Settled(s, u), f.time \in Nat, u < f.time,
         \A y : Has(queue', y) => ComesAfter(s, f.time, y), queue' \in Seq(EventSet), NEW i \in 1..4
  PROVE  Steps(s, f, i, u)
<1> DEFINE p == galaxy.in[s][i]
           S == sent[p]
           R == sent'[p]
           L == OnArc(queue, p)
           K == OnArc(queue', p)
           n == Taken(p)
           t == f.time
           port == ReadableOf(f)
<1>1. Configured /\ f.star = s
  BY DEF Accountable, Timely, Typed, Fires
<1>2. PICK c : Consumes(f, i, c)
  BY CounterConsumes
<1>3. /\ c \in Nat /\ \E N : Advances(p, c, N)
      /\ \A j \in 1..c : L[j].level = t
      /\ Len(Vals(port, i)) = c /\ (port[i].new <=> c > 0)
  BY <1>1, <1>2, Zenon DEF Consumes
<1>4. u \in Int /\ \A j \in 1..n : S[j].time <= u
  BY DEF Settled
<1>5. ArcSettled(p, c, t)
  <2>1. PICK N : Advances(p, c, N)
    BY <1>3
  <2>2. p = galaxy.in[s][i] /\ t \in Int
    OBVIOUS
  <2> HIDE DEF p, t
  <2>3. \A y : Has(queue', y) => ComesAfter(s, t, y)
    BY DEF t
  <2> QED
    BY <1>1, <2>1, <2>2, <2>3, ArcIsSettled
<1>6. /\ S \in Seq(SentSet) /\ R \in Seq(SentSet) /\ Len(S) <= Len(R)
      /\ n \in Nat /\ c \in Nat /\ n + c <= Len(S) /\ Len(R) - Len(K) = n + c
      /\ \A j \in 1..Len(S) : R[j] = S[j]
      /\ \A j \in 1..c : n + j \in 1..Len(S) /\ S[n + j].time = L[j].level
      /\ \A j \in 1..Len(R) : n + c < j => R[j].time > t
  BY <1>5 DEF ArcSettled
<1>7. t \in Nat /\ u < t
  OBVIOUS
<1> HIDE DEF p, S, R, L, K, n, t, port
<1>8. \A j \in 1..Len(S) : n < j /\ j <= n + c => S[j].time = t
  <2>1. SUFFICES ASSUME NEW j \in 1..Len(S), n < j, j <= n + c PROVE S[j].time = t
    OBVIOUS
  <2> DEFINE k == j - n
  <2>2. k \in 1..c /\ n + k = j
    BY <1>6, <2>1
  <2> HIDE DEF k
  <2> QED
    BY <1>3, <1>6, <2>2
<1>9. LaterToo(S, R, u)
  <2>1. \A j \in 1..Len(R) : R[j].time \in Nat
    BY <1>6, TimesAre
  <2>2. \A j \in 1..Len(R) : j > Len(S) => R[j].time > u
    BY <1>4, <1>6, <1>7, <2>1
  <2> QED
    BY <1>6, <2>2 DEF LaterToo
<1>10. NextAt(S, R, n, c, u, t)
  BY <1>4, <1>6, <1>7, <1>8, <1>9 DEF NextAt
<1>11. \A j \in 1..(Len(R) - Len(K)) : R[j].time <= t
  <2>1. SUFFICES ASSUME NEW j \in 1..(n + c) PROVE R[j].time <= t
    BY <1>6
  <2>2. j \in 1..Len(S) /\ R[j] = S[j] /\ S[j].time \in Nat
    BY <1>6, TimesAre
  <2>3. CASE j <= n
    BY <1>4, <1>6, <1>7, <2>2, <2>3
  <2>4. CASE ~(j <= n)
    BY <1>6, <1>7, <1>8, <2>2, <2>4
  <2> QED
    BY <2>3, <2>4
<1> QED
  BY <1>3, <1>10, <1>11 DEF Steps, p, S, R, K, n, t, port

LEMMA CounterCounts ==
  ASSUME Configured, NEW f, NEW s, Fires(f, s), s \in StarsOf("UDCounter"), Counted(s, f), f.time \in Nat,
         NEW v, v = star[s].memory + Len(Vals(ReadableOf(f), 1)) - Len(Vals(ReadableOf(f), 2))
  PROVE  /\ CountsToo(sent[galaxy.out[s][1]], sent'[galaxy.out[s][1]], v, f.time)
         /\ star'[s].memory = IF ReadableOf(f)[3].new THEN 0 ELSE v
<1> DEFINE a == galaxy.out[s][1]
           C == sent[a]
           D == sent'[a]
           r == ResultOf(f)
           t == f.time
           x == Put(1, t, v)
<1>1. 1 \in 1..Len(galaxy.out[s])
  BY CounterIs
<1>2. PutsOf(s, r.puts) /\ star'[s] = r.star /\ SentToo(C, OnArc(Events(s, r.puts), a), D)
  BY <1>1 DEF Fires
<1>3. /\ r.star.memory = (IF ReadableOf(f)[3].new THEN 0 ELSE v)
      /\ r.puts = IF ReadableOf(f)[4].new THEN <<x>> ELSE <<>>
  BY Zenon DEF Counted
<1>4. x.out = 1 /\ x.time = t /\ x.val = v
  BY DEF Put
<1> HIDE DEF C, D, r, x, t
<1>5. \A N : SentToo(C, N, D) /\ (Len(N) = 0 \/ (Len(N) = 1 /\ N[1].level = t /\ N[1].val = v)) => CountsToo(C, D, v, t)
  <2>1. SUFFICES ASSUME NEW N, SentToo(C, N, D),
                        Len(N) = 0 \/ (Len(N) = 1 /\ N[1].level = t /\ N[1].val = v)
                 PROVE  CountsToo(C, D, v, t)
    BY Zenon
  <2>2. /\ C \in Seq(SentSet) /\ D \in Seq(SentSet) /\ Len(D) = Len(C) + Len(N)
        /\ \A i \in 1..Len(C) : D[i] = C[i]
        /\ \A j \in 1..Len(N) : D[Len(C) + j].time = N[j].level /\ D[Len(C) + j].val = N[j].val
    BY <2>1 DEF SentToo
  <2>3. Len(C) \in Nat /\ Len(D) \in Nat
    BY <2>2
  <2>4. CASE Len(N) = 0
    BY <2>2, <2>3, <2>4 DEF CountsToo
  <2>5. CASE Len(N) = 1 /\ N[1].level = t /\ N[1].val = v
    <3>1. Len(D) = Len(C) + 1 /\ D[Len(C) + 1].time = t /\ D[Len(C) + 1].val = v
      <4>1. 1 \in 1..Len(N)
        BY <2>5
      <4> QED
        BY <2>2, <2>5, <4>1
    <3>2. \A k \in 1..Len(D) : k > Len(C) => k = Len(C) + 1
      BY <2>3, <3>1
    <3> QED
      BY <2>2, <2>3, <3>1, <3>2 DEF CountsToo
  <2> QED
    BY <2>1, <2>4, <2>5
<1>6. CountsToo(C, D, v, t)
  <2> DEFINE N == OnArc(Events(s, r.puts), a)
  <2>1. SentToo(C, N, D)
    BY <1>2
  <2>2. CASE ReadableOf(f)[4].new
    <3>1. r.puts = <<x>>
      BY <1>3, <2>2
    <3>2. IsPut(N, x)
      <4>1. PutsOf(s, <<x>>) /\ a = galaxy.out[s][x.out]
        BY <1>2, <1>4, <3>1
      <4> HIDE DEF a, N
      <4>2. IsPut(OnArc(Events(s, <<x>>), a), x)
        BY <4>1, OnePutIsSent
      <4> QED
        BY <3>1, <4>2 DEF N
    <3> HIDE DEF N
    <3> QED
      BY <1>4, <1>5, <2>1, <3>2 DEF IsPut
  <2>3. CASE ~ReadableOf(f)[4].new
    <3>1. r.puts = <<>>
      BY <1>3, <2>3
    <3>2. N = <<>>
      <4>1. PutsOf(s, <<>>)
        BY <1>2, <3>1
      <4> QED
        BY <3>1, <4>1, NoPutIsSent
    <3>3. Len(<<>>) = 0
      OBVIOUS
    <3> HIDE DEF N
    <3> QED
      BY <1>5, <2>1, <3>2, <3>3
  <2> QED
    BY <2>2, <2>3
<1> QED
  BY <1>2, <1>3, <1>6 DEF C, D, t

LEMMA FiringSettles ==
  ASSUME Accountable, NoneStale, Fresher, "pre" \notin use.halts, NEW f, NEW s, Fires(f, s), Fired(f),
         s \in StarsOf("UDCounter"), NEW u, Settled(s, u)
  PROVE  SettledAfter(s, f.time) /\ f.time \in Nat
<1> DEFINE e == Head(queue)
           t == f.time
           port == ReadableOf(f)
<1>1. Typed /\ Timely /\ Configured /\ InTime /\ Clocked /\ queue # <<>> /\ f.star = s
  BY DEF Accountable, Timely, Typed, Fired, FiringDue, Fires
<1>2. Advanced(f, e) /\ Has(queue, e)
  BY <1>1, FiredQueue, QueueIs
<1>3. t = e.level /\ t \in Nat /\ Dest(e) = s /\ InOrder(queue')
  BY <1>1, <1>2 DEF Advanced, SoundFiring
<1>4. queue' \in Seq(EventSet)
  BY <1>3 DEF InOrder
<1>5. /\ u \in Int /\ -1 <= u /\ Past(s, u)
      /\ Tallied(sent[galaxy.in[s][1]], sent[galaxy.in[s][2]], sent[galaxy.in[s][3]], sent[galaxy.out[s][1]],
                 star[s].memory, u)
  BY DEF Settled
<1>6. u < t
  <2>1. ComesAfter(s, u, e)
    BY <1>2, <1>5 DEF Past
  <2> HIDE DEF e
  <2> QED
    BY <1>3, <1>5, <2>1 DEF ComesAfter
<1>7. \A y : Has(queue', y) => ComesAfter(s, t, y)
  BY FiringIsPast
<1>8. \A i \in 1..4 : Steps(s, f, i, u)
  BY <1>3, <1>4, <1>6, <1>7, CounterSteps
<1>9. Counted(s, f)
  BY <1>1, CounterReturns
<1> DEFINE c(i) == Len(Vals(port, i))
           v == star[s].memory + c(1) - c(2)
<1>10. /\ CountsToo(sent[galaxy.out[s][1]], sent'[galaxy.out[s][1]], v, t)
       /\ star'[s].memory = IF port[3].new THEN 0 ELSE v
  BY <1>1, <1>3, <1>9, CounterCounts
<1>11. /\ \A i \in 1..4 : LET p == galaxy.in[s][i] IN
             /\ NextAt(sent[p], sent'[p], Taken(p), c(i), u, t) /\ (port[i].new <=> c(i) > 0)
             /\ \A j \in 1..(Len(sent'[p]) - Len(OnArc(queue', p))) : sent'[p][j].time <= t
       /\ star[s].memory \in Int
  BY <1>8, <1>9, Zenon DEF Steps, Counted
<1> HIDE DEF c, t, port
<1>12. Tallied(sent'[galaxy.in[s][1]], sent'[galaxy.in[s][2]], sent'[galaxy.in[s][3]], sent'[galaxy.out[s][1]],
               star'[s].memory, t)
  <2> DEFINE S(i) == sent[galaxy.in[s][i]]
             R(i) == sent'[galaxy.in[s][i]]
             n(i) == Taken(galaxy.in[s][i])
             C == sent[galaxy.out[s][1]]
             D == sent'[galaxy.out[s][1]]
             m == star[s].memory
  <2>1. 1 \in 1..4 /\ 2 \in 1..4 /\ 3 \in 1..4
    OBVIOUS
  <2>2. /\ NextAt(S(1), R(1), n(1), c(1), u, t) /\ NextAt(S(2), R(2), n(2), c(2), u, t)
        /\ NextAt(S(3), R(3), n(3), c(3), u, t) /\ (port[3].new <=> c(3) > 0)
    BY <1>11, <2>1, Zenon
  <2>3. Tallied(S(1), S(2), S(3), C, m, u) /\ m \in Int /\ CountsToo(C, D, v, t)
    BY <1>5, <1>10, <1>11
  <2>4. star'[s].memory = IF c(3) > 0 THEN 0 ELSE v
    BY <1>10, <2>2
  <2>5. v = m + c(1) - c(2)
    OBVIOUS
  <2> HIDE DEF S, R, n, C, D, m, v
  <2>6. Tallied(R(1), R(2), R(3), D, IF c(3) > 0 THEN 0 ELSE v, t)
    BY <1>5, <2>2, <2>3, <2>5, TallyAdds
  <2> QED
    BY <2>4, <2>6, Zenon DEF R, D
<1> QED
  BY <1>3, <1>7, <1>11, <1>12, Zenon DEF SettledAfter, t

LEMMA NextKeepsSettled ==
  ASSUME Accountable, NoneStale, NoDemandWaits, CountersSettled, Next
  PROVE  CountersSettled'
<1>1. Timely /\ Typed /\ InTime /\ Clocked /\ NotStarted /\ Configured /\ queue \in Seq(EventSet)
  BY DEF Accountable, Timely, Typed, InOrder
<1>2. config' = config
  BY DEF Next, Begin, Run, StopBeforeDead, EventInThePast, NoMoreEvents, Fire, HaltBeforeGo
<1>3. galaxy' = galaxy /\ use' = use
  BY <1>2, ConfigIsKept
<1>4. SUFFICES ASSUME "pre" \notin use.halts, NEW s \in StarsOf("UDCounter")
               PROVE  \E u : Settled(s, u)'
  BY <1>3 DEF CountersSettled, StarsOf
<1>5. PICK u : Settled(s, u)
  BY <1>4 DEF CountersSettled
<1>6. u \in Int /\ -1 <= u /\ (pc = "setup" => u = -1) /\ Past(s, u)
  BY <1>5 DEF Settled
<1>7. Fresher /\ s \in Stars(galaxy) /\ galaxy.kind[s] = "UDCounter"
  BY <1>1, <1>4, CounterIs DEF Fresher
<1>8. CASE Fire /\ NextFiring.star = s
  <2> DEFINE f == NextFiring
  <2>1. galaxy.kind[f.star] # "Statistics" /\ f.star = s
    BY <1>7, <1>8
  <2> HIDE DEF f
  <2>2. Fires(f, s) /\ Fired(f)
    BY <1>8, <2>1, StarFires DEF f
  <2>3. SettledAfter(s, f.time) /\ f.time \in Nat
    BY <1>4, <1>5, <1>7, <2>2, FiringSettles
  <2>4. pc' # "setup"
    BY <2>2 DEF Fired, FiringDue
  <2>5. PICK t \in Nat : t = f.time
    BY <2>3
  <2>6. t \in Int /\ -1 <= t /\ SettledAfter(s, t)
    BY <2>3, <2>5
  <2>7. Settled(s, t)'
    BY <1>2, <2>4, <2>6, SettledThen
  <2> QED
    BY <2>7
<1>9. CASE ~(Fire /\ NextFiring.star = s)
  <2>1. Idles(s)
    BY <1>7, <1>9, StarIdles
  <2>2. /\ queue' \in Seq(EventSet) /\ \A y : Has(queue', y) => ComesAfter(s, u, y)
        /\ pc' # "setup"
    <3>1. CASE Fire
      <4> DEFINE f == NextFiring
      <4>1. Fired(f)
        BY <3>1, FireIs
      <4> HIDE DEF f
      <4>2. queue # <<>>
        BY <4>1 DEF Fired, FiringDue
      <4>3. InOrder(queue')
        BY <1>1, <4>1, FiredQueue DEF Advanced
      <4>4. \A y : Has(queue', y) => ComesAfter(s, u, y)
        BY <1>1, <1>4, <1>6, <1>7, <4>1, OtherKeepsPast
      <4>5. pc' # "setup"
        BY <4>1 DEF Fired, FiringDue
      <4> QED
        BY <4>3, <4>4, <4>5 DEF InOrder
    <3>2. CASE Begin
      <4>1. Begun /\ pc = "setup" /\ pc' = "ready"
        BY <1>1, <3>2, BeginIs
      <4>2. u = -1 /\ queue' \in Seq(EventSet) /\ \A y : Has(queue', y) => y \in EventSet /\ y.level = 0
        BY <1>6, <4>1 DEF Begun, InOrder
      <4> QED
        BY <4>1, <4>2 DEF ComesAfter
    <3>3. CASE queue' = queue /\ pc' # "setup"
      BY <1>1, <1>6, <3>3 DEF Past
    <3>4. (\E stop \in use.stops : Run(stop)) \/ StopBeforeDead \/ EventInThePast \/ NoMoreEvents
          => queue' = queue /\ pc' # "setup"
      BY DEF Run, StopBeforeDead, EventInThePast, NoMoreEvents
    <3>5. ~HaltBeforeGo
      BY <1>4 DEF HaltBeforeGo
    <3> QED
      BY <3>1, <3>2, <3>3, <3>4, <3>5 DEF Next
  <2>3. SettledAfter(s, u)
    BY <1>1, <1>4, <1>5, <2>1, <2>2, IdleIsSettled
  <2>4. Settled(s, u)'
    BY <1>2, <1>6, <2>2, <2>3, SettledThen
  <2> QED
    BY <2>4
<1> QED
  BY <1>8, <1>9

LEMMA SetupSettles ==
  ASSUME Init
  PROVE  CountersSettled
<1>1. /\ queue = <<>> /\ sent = [p \in Arcs(galaxy) |-> <<>>] /\ Configured
      /\ star = [s \in Stars(galaxy) |-> [completionTime |-> 0, memory |-> Memory(galaxy.kind[s])]]
  BY SetupIsTimely DEF Init, Setup, Timely, Typed
<1>2. SUFFICES ASSUME NEW s \in StarsOf("UDCounter")
               PROVE  Settled(s, -1)
  BY DEF CountersSettled
<1>3. /\ s \in Stars(galaxy) /\ galaxy.kind[s] = "UDCounter" /\ galaxy.out[s][1] \in Arcs(galaxy)
      /\ \A i \in 1..4 : galaxy.in[s][i] \in Arcs(galaxy)
  BY <1>1, <1>2, CounterIs
<1>4. star[s].memory = 0
  BY <1>1, <1>3 DEF Memory
<1>5. \A p \in Arcs(galaxy) : sent[p] = <<>>
  BY <1>1
<1>6. <<>> \in Seq(SentSet) /\ Len(<<>>) = 0
  OBVIOUS
<1>7. \A p \in Arcs(galaxy) : Taken(p) = 0
  BY <1>1, <1>5, <1>6, OnArcNone DEF Taken
<1>8. Past(s, -1)
  BY <1>1, <1>6 DEF Past, Has
<1>9. \A i \in 1..4 : \A j \in 1..Taken(galaxy.in[s][i]) : sent[galaxy.in[s][i]][j].time <= -1
  BY <1>3, <1>7
<1>10. Tallied(sent[galaxy.in[s][1]], sent[galaxy.in[s][2]], sent[galaxy.in[s][3]], sent[galaxy.out[s][1]],
               star[s].memory, -1)
  <2>1. 1 \in 1..4 /\ 2 \in 1..4 /\ 3 \in 1..4
    OBVIOUS
  <2>2. /\ sent[galaxy.in[s][1]] = <<>> /\ sent[galaxy.in[s][2]] = <<>> /\ sent[galaxy.in[s][3]] = <<>>
        /\ sent[galaxy.out[s][1]] = <<>>
    BY <1>3, <1>5, <2>1
  <2> QED
    BY <1>4, <1>6, <2>2, NothingTallied
<1> QED
  BY <1>8, <1>9, <1>10 DEF Settled

LEMMA ExactAsStated ==
  ASSUME Accountable, CountersSettled
  PROVE  CountsAreExact
<1>1. Configured /\ sent \in [Arcs(galaxy) -> Seq(SentSet)]
  BY DEF Accountable, Timely, Typed
<1>2. SUFFICES ASSUME "pre" \notin use.halts, NEW s \in StarsOf("UDCounter"),
                      NEW i \in DOMAIN sent[galaxy.out[s][1]]
               PROVE  LET in == galaxy.in[s]
                          counts == sent[galaxy.out[s][1]]
                          t == counts[i].time
                          resets == {j \in DOMAIN sent[in[3]] : sent[in[3]][j].time < t}
                          last == Max({-1} \cup {sent[in[3]][j].time : j \in resets})
                      IN  counts[i].val = Between(in[1], last, t) - Between(in[2], last, t)
  BY Zenon DEF CountsAreExact, Undisturbed
<1> DEFINE S(k) == sent[galaxy.in[s][k]]
           x == sent[galaxy.out[s][1]][i]
           resets == {j \in DOMAIN S(3) : S(3)[j].time < x.time}
           last == Max({-1} \cup {S(3)[j].time : j \in resets})
<1>3. SUFFICES x.val = Between(galaxy.in[s][1], last, x.time) - Between(galaxy.in[s][2], last, x.time)
  BY Zenon
<1>4. PICK u : Settled(s, u)
  BY <1>2 DEF CountersSettled
<1>5. \A k \in 1..4 : S(k) \in Seq(SentSet) /\ DOMAIN S(k) = 1..Len(S(k))
  <2>1. \A k \in 1..4 : galaxy.in[s][k] \in Arcs(galaxy)
    BY <1>1, <1>2, CounterIs
  <2>2. \A k \in 1..4 : S(k) \in Seq(SentSet)
    BY <1>1, <2>1
  <2> HIDE DEF S
  <2> QED
    BY <2>2
<1>6. x \in SentSet /\ IsExact(S(1), S(2), S(3), x)
  <2> DEFINE C == sent[galaxy.out[s][1]]
  <2>1. C \in Seq(SentSet)
    BY <1>1, <1>2, CounterIs
  <2>2. Tallied(S(1), S(2), S(3), C, star[s].memory, u)
    BY <1>4 DEF Settled
  <2>3. i \in DOMAIN C /\ x = C[i]
    BY <1>2
  <2> HIDE DEF C, S, x
  <2>4. i \in 1..Len(C)
    BY <2>1, <2>3
  <2> QED
    BY <2>1, <2>2, <2>3, <2>4 DEF Tallied
<1>7. \A k \in 1..4 : \A l : Between(galaxy.in[s][k], l, x.time) = CountOf(S(k), l, x.time)
  BY <1>5, Zenon DEF Between, CountOf
<1>8. PICK l : LastUpTo(S(3), x.time - 1, l) /\ x.val = CountOf(S(1), l, x.time) - CountOf(S(2), l, x.time)
  BY <1>6 DEF IsExact
<1>9. x.time \in Int /\ 1 \in 1..4 /\ 2 \in 1..4 /\ 3 \in 1..4
  BY <1>6 DEF SentSet
<1>10. last = l
  <2>1. resets = {j \in 1..Len(S(3)) : S(3)[j].time < x.time}
    BY <1>5, <1>9
  <2> DEFINE R == S(3)
             t == x.time
  <2>2. R \in Seq(SentSet) /\ t \in Int /\ LastUpTo(R, t - 1, l)
    BY <1>5, <1>8, <1>9
  <2> HIDE DEF R, t
  <2>3. Max({-1} \cup {R[j].time : j \in {k \in 1..Len(R) : R[k].time < t}}) = l
    BY <2>2, LastIs
  <2> QED
    BY <2>1, <2>3, Zenon DEF R, t
<1> HIDE DEF S, x, resets, last
<1> QED
  BY <1>7, <1>8, <1>9, <1>10

\* As long as no halt keeps a star from its go(), every count that a UDCounter puts
\* is that of the countUp events less the countDown events up to its time and since
\* the last reset before it, through whatever firings they came (CountsAreExact).
THEOREM CountsAreRight == Spec => []CountsAreExact
<1>1. Init => NoneStale /\ NoDemandWaits /\ CountersSettled
  BY SetupLeavesNoneStale, SetupLeavesNoDemand, SetupSettles
<1>2. Accountable /\ NoneStale /\ NoDemandWaits /\ CountersSettled /\ [Next]_vars
      => NoneStale' /\ NoDemandWaits' /\ CountersSettled'
  <2>1. SUFFICES ASSUME Accountable, NoneStale, NoDemandWaits, CountersSettled, [Next]_vars
                 PROVE  NoneStale' /\ NoDemandWaits' /\ CountersSettled'
    OBVIOUS
  <2>2. CASE UNCHANGED vars
    <3>1. NoneStale' /\ NoDemandWaits'
      BY <2>1, <2>2 DEF vars, NoneStale, NoDemandWaits, StarsOf
    <3>2. UNCHANGED <<config, pc, queue, sent, star>>
      BY <2>2 DEF vars, config
    <3>3. /\ galaxy' = galaxy /\ use' = use /\ depth' = depth /\ EventSet' = EventSet
          /\ pc' = pc /\ queue' = queue /\ sent' = sent /\ star' = star
      BY <3>2, ConfigIsKept
    <3>4. CountersSettled'
      BY <2>1, <3>3 DEF CountersSettled, Settled, Past, ComesAfter, Dest, StarsOf, Taken
    <3> QED
      BY <3>1, <3>4
  <2>3. CASE Next
    <3>1. Timely
      BY <2>1 DEF Accountable
    <3> QED
      BY <2>1, <2>3, <3>1, NextLeavesNoneStale, NextKeepsNoDemand, NextKeepsSettled
  <2> QED
    BY <2>1, <2>2, <2>3
<1>3. Accountable /\ CountersSettled => CountsAreExact
  BY ExactAsStated
<1> QED
  BY <1>1, <1>2, <1>3, AccountableHolds, PTL DEF Spec
=============================================================================
