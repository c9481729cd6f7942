---------------------------- MODULE KahnStreams ----------------------------
(***************************************************************************)
(* What a galaxy of the stars of PNStars computes, without threads or      *)
(* buffers: each star is a function from the streams on its inputs to the  *)
(* streams on its outputs, and the galaxy carries the least solution of    *)
(* these equations.  Streams are cut after Horizon particles.              *)
(***************************************************************************)
EXTENDS PNStars

CONSTANTS
    Channel,
    Delays,     \* Delays[g]: the initial particles of g
    Horizon

Cut(stream) == SubSeq(stream, 1, Min({Horizon, Len(stream)}))

\* In turn one particle of each input.
Interleaving(streams) ==
    LET n == Len(streams)
        ready == Min({n * Len(streams[i]) + i - 1 : i \in 1..n})
    IN  [k \in 1..ready |-> streams[((k - 1) % n) + 1][((k - 1) \div n) + 1]]

\* Every n-th particle, from the i-th on.
Share(stream, i, n) ==
    [j \in 1..(Len(stream) + n - i) \div n |-> stream[(j - 1) * n + i]]

\* The increasing union of two increasing streams, as far as both are known.
Merged(a, b) ==
    LET m[i \in 1..Len(a) + 1, j \in 1..Len(b) + 1] ==
            IF i > Len(a) \/ j > Len(b) THEN <<>>
            ELSE <<Min({a[i], b[j]})>> \o
                 m[IF a[i] <= b[j] THEN i + 1 ELSE i,
                   IF b[j] <= a[i] THEN j + 1 ELSE j]
    IN  m[1, 1]

\* The stream that s sends on its i-th output, given all streams.
Output(s, i, streams) ==
    LET x(k) == streams[In[s][k]] IN
    CASE Kind[s] = "DelayInt"    -> <<InitValue[s]>> \o x(1)
      [] Kind[s] = "Commutator"  -> Interleaving([k \in DOMAIN In[s] |-> x(k)])
      [] Kind[s] = "Distributor" -> Share(x(1), i, Len(Out[s]))
      [] Kind[s] = "Merge"       -> Merged(x(1), x(2))
      [] Kind[s] = "SDF"         -> [k \in DOMAIN x(1) |-> Gain[s] * x(1)[k]]

Equations(streams) ==
    [g \in Channel |->
        LET s == Source(g)
            i == CHOOSE k \in DOMAIN Out[s] : Out[s][k] = g
        IN  Cut(Delays[g] \o Output(s, i, streams))]

\* The least solution, reached from empty streams.
RECURSIVE Fixpoint(_)
Fixpoint(streams) ==
    LET next == Equations(streams)
    IN  IF next = streams THEN streams ELSE Fixpoint(next)

Solution == Fixpoint([g \in Channel |-> <<>>])
=============================================================================
