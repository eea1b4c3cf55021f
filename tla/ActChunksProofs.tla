---------------------------- MODULE ActChunksProofs ----------------------------
(***************************************************************************)
(* Proofs about ActChunks for every number of symbols, call graph, packing *)
(* without a cycle, number of workers, of retries and of sessions.         *)
(*                                                                         *)
(* PlanInv is about the plan file: what any order of splits keeps of it.   *)
(* WorkInv ties the workers of a wave to the statuses of their chunks.     *)
(***************************************************************************)
EXTENDS ActChunks, FiniteSetTheorems, TLAPS

-----------------------------------------------------------------------------
(* Intervals.                                                              *)

(* A chunk has a symbol.                                                   *)
LEMMA ChunksHaveSymbols ==
  ASSUME NEW c \in Chunks
  PROVE  SymbolsOf(c) # {} /\ SymbolsOf(c) \subseteq Symbols
PROOF
<1>1. c[1] \in Nat /\ c[2] \in Nat /\ 1 <= c[1] /\ c[1] <= c[2] /\ c[2] <= SymbolCount
  BY SymbolCountIsPositive DEF Chunks, Symbols
<1>2. c[1] \in SymbolsOf(c)
  BY <1>1 DEF SymbolsOf
<1>3. SymbolsOf(c) \subseteq Symbols
  BY <1>1, SymbolCountIsPositive DEF SymbolsOf, Symbols
<1>4. QED
  BY <1>2, <1>3

(* A chunk of several symbols is cut into two chunks that make it up.      *)
LEMMA HalvesMakeUp ==
  ASSUME NEW c \in Chunks, ~Single(c)
  PROVE  /\ Left(c) \in Chunks /\ Right(c) \in Chunks
         /\ SymbolsOf(c) = SymbolsOf(Left(c)) \cup SymbolsOf(Right(c))
         /\ SymbolsOf(Left(c)) \cap SymbolsOf(Right(c)) = {}
         /\ Left(c) # Right(c) /\ Left(c) # c /\ Right(c) # c
PROOF
<1> DEFINE m == (c[2] - c[1]) \div 2
<1>1. c[1] \in Nat /\ c[2] \in Nat /\ 1 <= c[1] /\ c[1] < c[2] /\ c[2] <= SymbolCount
  BY SymbolCountIsPositive DEF Chunks, Symbols, Single
<1>2. m \in Nat /\ c[1] + m < c[2]
  BY <1>1
<1>3. Left(c) = <<c[1], c[1] + m>> /\ Right(c) = <<c[1] + m + 1, c[2]>>
  BY DEF Left, Right
<1>4. c = <<c[1], c[2]>>
  BY DEF Chunks
<1> HIDE DEF m
<1>5. /\ Left(c)[1] = c[1] /\ Left(c)[2] = c[1] + m
      /\ Right(c)[1] = c[1] + m + 1 /\ Right(c)[2] = c[2]
  BY <1>3
<1>6. Left(c) \in Chunks /\ Right(c) \in Chunks
  BY <1>1, <1>2, <1>3, SymbolCountIsPositive DEF Chunks, Symbols
<1>7. /\ SymbolsOf(c) = SymbolsOf(Left(c)) \cup SymbolsOf(Right(c))
      /\ SymbolsOf(Left(c)) \cap SymbolsOf(Right(c)) = {}
  BY <1>1, <1>2, <1>5 DEF SymbolsOf
<1>8. Left(c) # Right(c) /\ Left(c) # c /\ Right(c) # c
  BY <1>1, <1>2, <1>5
<1>9. QED
  BY <1>6, <1>7, <1>8

-----------------------------------------------------------------------------
(* The plan file.                                                          *)

Overlap(c, d) == SymbolsOf(c) \cap SymbolsOf(d) # {}
Superseded == {c \in Chunks : plan[c].status = "superseded"}

(* The leaves cover the symbols and do not overlap; what was split is not  *)
(* part of a leaf; leaves wait for leaves, without a cycle, and for all    *)
(* that they call but for halves that called each other.                   *)
Covered == Leaves # {} => \A s \in Symbols : \E c \in Leaves : s \in SymbolsOf(c)
Apart == \A c, d \in Leaves : Overlap(c, d) => c = d
Unplanned == Leaves = {} => \A c \in Chunks : plan[c].status = "absent"
SplitIsAbove == \A d \in Superseded, c \in Leaves : ~(SymbolsOf(d) \subseteq SymbolsOf(c))
DepsAreLeaves == \A c \in Leaves : plan[c].deps \subseteq Leaves
NoCycle == \A S \in SUBSET Leaves : S # {} => \E c \in S : plan[c].deps \cap S = {}
CallsAreDeps ==
  \A c, d \in Leaves, call \in Calls :
     c # d /\ call[1] \in SymbolsOf(c) /\ call[2] \in SymbolsOf(d) =>
       d \in plan[c].deps \/ SplitMutually(call[1], call[2])

PlanInv ==
  /\ plan \in [Chunks -> Chunk]
  /\ Covered /\ Apart /\ Unplanned /\ SplitIsAbove
  /\ DepsAreLeaves /\ NoCycle /\ CallsAreDeps

(* A chunk that begins to wait is a leaf that wants what it was given.     *)
LEMMA NewChunkWaits ==
  ASSUME NEW deps \in SUBSET Chunks
  PROVE  /\ NewChunk(deps) \in Chunk
         /\ NewChunk(deps).status = "pending" /\ NewChunk(deps).deps = deps
  BY DEF NewChunk, Absent, Chunk, ChunkStatus

(* The plan that was packed.                                               *)
LEMMA InitialPlanIsSound ==
  ASSUME plan \in [Chunks -> Chunk], plan' = InitialPlan
  PROVE  PlanInv' /\ Leaves' = Plan
PROOF
<1> DEFINE Deps(c) == {d \in Plan \ {c} : CallsInto(c, d)}
<1>1. /\ Plan \subseteq Chunks /\ \A s \in Symbols : \E c \in Plan : s \in SymbolsOf(c)
      /\ \A c, d \in Plan : c # d => SymbolsOf(c) \cap SymbolsOf(d) = {}
  BY PlanPartitions
<1>2. \A c \in Chunks : plan'[c] = IF c \in Plan THEN NewChunk(Deps(c)) ELSE Absent
  BY DEF InitialPlan
<1>3. \A c \in Plan : /\ plan'[c] \in Chunk /\ plan'[c].status = "pending"
                      /\ plan'[c].deps = Deps(c)
  <2> SUFFICES ASSUME NEW c \in Plan
               PROVE  /\ plan'[c] \in Chunk /\ plan'[c].status = "pending"
                      /\ plan'[c].deps = Deps(c)
    OBVIOUS
  <2>1. Deps(c) \in SUBSET Chunks /\ plan'[c] = NewChunk(Deps(c))
    BY <1>1, <1>2
  <2> HIDE DEF Deps
  <2>2. QED
    BY <2>1, NewChunkWaits
<1>4. \A c \in Chunks \ Plan : plan'[c] = Absent /\ Absent \in Chunk /\ Absent.status = "absent"
  BY <1>2 DEF Absent, Chunk
<1>5. plan' \in [Chunks -> Chunk]
  <2>1. plan' = [c \in Chunks |-> plan'[c]]
    BY DEF InitialPlan
  <2>2. QED
    BY <1>1, <1>3, <1>4, <2>1
<1>6. Leaves' = Plan /\ Superseded' = {}
  BY <1>1, <1>3, <1>4 DEF Leaves, Superseded
<1>7. Covered' /\ Apart'
  BY <1>1, <1>6 DEF Covered, Apart, Overlap
<1>8. Unplanned' /\ SplitIsAbove'
  BY <1>4, <1>6 DEF Unplanned, SplitIsAbove
<1>9. DepsAreLeaves'
  BY <1>3, <1>6 DEF DepsAreLeaves
<1>10. NoCycle'
  <2> SUFFICES ASSUME NEW S \in SUBSET Plan, S # {}
               PROVE  \E c \in S : plan'[c].deps \cap S = {}
    BY <1>6 DEF NoCycle
  <2>1. PICK c \in S : \A d \in S \ {c} : ~CallsInto(c, d)
    BY PlanIsAcyclic
  <2>2. QED
    BY <1>3, <2>1
<1>11. CallsAreDeps'
  BY <1>3, <1>6 DEF CallsAreDeps, CallsInto
<1>12. QED
  BY <1>5, <1>6, <1>7, <1>8, <1>9, <1>10, <1>11 DEF PlanInv

(* A leaf that only changes its status stays a leaf.                       *)
LEMMA StatusKeepsPlan ==
  ASSUME PlanInv, plan' \in [Chunks -> Chunk], Leaves' = Leaves,
         \A c \in Chunks : plan'[c].deps = plan[c].deps,
         \A c \in Chunks \ Leaves : plan'[c].status = plan[c].status
  PROVE  PlanInv'
PROOF
<1>1. Superseded' = Superseded
  BY DEF Superseded, Leaves
<1>2. \A s, t \in Symbols : SplitMutually(s, t)' <=> SplitMutually(s, t)
  BY <1>1 DEF SplitMutually, Superseded
<1>3. Covered' /\ Apart' /\ Unplanned' /\ SplitIsAbove'
  BY <1>1 DEF PlanInv, Covered, Apart, Unplanned, SplitIsAbove
<1>4. Leaves \subseteq Chunks
  BY DEF Leaves
<1>5. DepsAreLeaves' /\ NoCycle'
  BY <1>4 DEF PlanInv, DepsAreLeaves, NoCycle
<1>6. CallsAreDeps'
  BY <1>2, <1>4, CallsAreEdges DEF PlanInv, CallsAreDeps
<1>7. QED
  BY <1>3, <1>5, <1>6 DEF PlanInv

(* What Split writes, chunk by chunk.                                      *)
LEMMA SplitWrites ==
  ASSUME PlanInv, NEW c \in Leaves, ~Single(c), plan' = Split(c)
  PROVE  /\ plan' \in [Chunks -> Chunk]
         /\ Left(c) \notin Leaves /\ Right(c) \notin Leaves
         /\ Left(c) \notin Superseded /\ Right(c) \notin Superseded
         /\ plan'[c].status = "superseded"
         /\ plan'[Left(c)].status = "pending" /\ plan'[Right(c)].status = "pending"
         /\ plan'[Left(c)].deps = HalfDeps(c, Left(c), Right(c))
         /\ plan'[Right(c)].deps = HalfDeps(c, Right(c), Left(c))
         /\ \A d \in Chunks \ {c, Left(c), Right(c)} :
              /\ plan'[d].status = plan[d].status
              /\ plan'[d].translation = plan[d].translation
              /\ plan'[d].deps = Renamed(plan[d].deps, c)
         /\ Leaves' = (Leaves \ {c}) \cup {Left(c), Right(c)}
         /\ Superseded' = Superseded \cup {c}
PROOF
<1>1. c \in Chunks /\ plan[c] \in Chunk /\ plan \in [Chunks -> Chunk]
  BY DEF PlanInv, Leaves
<1>2. /\ Left(c) \in Chunks /\ Right(c) \in Chunks
      /\ SymbolsOf(c) = SymbolsOf(Left(c)) \cup SymbolsOf(Right(c))
      /\ Left(c) # Right(c) /\ Left(c) # c /\ Right(c) # c
  BY <1>1, HalvesMakeUp
<1>3. Left(c) \notin Leaves /\ Right(c) \notin Leaves
  BY <1>2, ChunksHaveSymbols DEF PlanInv, Apart, Overlap
<1>4. Left(c) \notin Superseded /\ Right(c) \notin Superseded
  BY <1>2 DEF PlanInv, SplitIsAbove
<1>5. /\ HalfDeps(c, Left(c), Right(c)) \in SUBSET Chunks
      /\ HalfDeps(c, Right(c), Left(c)) \in SUBSET Chunks
  BY <1>1, <1>2 DEF HalfDeps, Chunk
<1>6. plan'[c] = [plan[c] EXCEPT !.status = "superseded"]
  BY <1>1, <1>2 DEF Split
<1>7. plan'[Left(c)] = NewChunk(HalfDeps(c, Left(c), Right(c)))
  BY <1>2 DEF Split
<1>8. plan'[Right(c)] = NewChunk(HalfDeps(c, Right(c), Left(c)))
  BY <1>2 DEF Split
<1>9. \A d \in Chunks \ {c, Left(c), Right(c)} :
        plan'[d] = [plan[d] EXCEPT !.deps = Renamed(plan[d].deps, c)]
  BY DEF Split
<1>10. plan'[c] \in Chunk /\ plan'[c].status = "superseded"
  BY <1>1, <1>6 DEF Chunk, ChunkStatus
<1>11. /\ plan'[Left(c)] \in Chunk /\ plan'[Left(c)].status = "pending"
       /\ plan'[Left(c)].deps = HalfDeps(c, Left(c), Right(c))
       /\ plan'[Right(c)] \in Chunk /\ plan'[Right(c)].status = "pending"
       /\ plan'[Right(c)].deps = HalfDeps(c, Right(c), Left(c))
  BY <1>5, <1>7, <1>8, NewChunkWaits
<1>12. \A d \in Chunks \ {c, Left(c), Right(c)} :
         /\ plan'[d] \in Chunk
         /\ plan'[d].status = plan[d].status
         /\ plan'[d].translation = plan[d].translation
         /\ plan'[d].deps = Renamed(plan[d].deps, c)
  <2> SUFFICES ASSUME NEW d \in Chunks \ {c, Left(c), Right(c)}
               PROVE  /\ plan'[d] \in Chunk
                      /\ plan'[d].status = plan[d].status
                      /\ plan'[d].translation = plan[d].translation
                      /\ plan'[d].deps = Renamed(plan[d].deps, c)
    OBVIOUS
  <2>1. plan[d] \in Chunk
    BY <1>1
  <2>2. Renamed(plan[d].deps, c) \in SUBSET Chunks
    BY <1>2, <2>1 DEF Renamed, Chunk
  <2>3. QED
    BY <1>9, <2>1, <2>2 DEF Chunk
<1>13. plan' \in [Chunks -> Chunk]
  <2>1. plan' = [d \in Chunks |-> plan'[d]]
    BY DEF Split
  <2>2. \A d \in Chunks : plan'[d] \in Chunk
    BY <1>10, <1>11, <1>12
  <2>3. QED
    BY <2>1, <2>2
<1>14. /\ Leaves' = (Leaves \ {c}) \cup {Left(c), Right(c)}
       /\ Superseded' = Superseded \cup {c}
  BY <1>1, <1>2, <1>3, <1>4, <1>10, <1>11, <1>12 DEF Leaves, Superseded
<1>15. QED
  BY <1>3, <1>4, <1>10, <1>11, <1>12, <1>13, <1>14

(* A split keeps the plan sound: the halves take the place of their        *)
(* parent, also in every group of chunks that wait for each other.         *)
LEMMA SplitKeepsPlan ==
  ASSUME PlanInv, NEW c \in Leaves, ~Single(c), plan' = Split(c)
  PROVE  PlanInv'
PROOF
<1> DEFINE L == Left(c)
           R == Right(c)
<1>1. /\ c \in Chunks /\ L \in Chunks /\ R \in Chunks
      /\ SymbolsOf(c) = SymbolsOf(L) \cup SymbolsOf(R)
      /\ SymbolsOf(L) \cap SymbolsOf(R) = {}
      /\ L # R /\ L # c /\ R # c
  BY HalvesMakeUp DEF Leaves
<1>2. /\ plan' \in [Chunks -> Chunk]
      /\ L \notin Leaves /\ R \notin Leaves
      /\ plan'[c].status = "superseded"
      /\ plan'[L].deps = HalfDeps(c, L, R) /\ plan'[R].deps = HalfDeps(c, R, L)
      /\ \A d \in Chunks \ {c, L, R} : plan'[d].deps = Renamed(plan[d].deps, c)
      /\ Leaves' = (Leaves \ {c}) \cup {L, R}
      /\ Superseded' = Superseded \cup {c}
  BY SplitWrites
<1>3. /\ Leaves \subseteq Chunks /\ plan[c].deps \subseteq Leaves
      /\ c \notin plan[c].deps
  <2>1. {c} \in SUBSET Leaves /\ {c} # {}
    OBVIOUS
  <2>2. c \notin plan[c].deps
    BY <2>1 DEF PlanInv, NoCycle
  <2>3. QED
    BY <2>2 DEF PlanInv, DepsAreLeaves, Leaves
<1>4. \A d \in Leaves \ {c} :
        /\ d \in Chunks \ {c, L, R} /\ plan[d].deps \subseteq Leaves
        /\ plan'[d].deps = IF c \in plan[d].deps THEN (plan[d].deps \ {c}) \cup {L, R}
                           ELSE plan[d].deps
  BY <1>2, <1>3 DEF Renamed, PlanInv, DepsAreLeaves
<1>5. /\ plan'[L].deps = plan[c].deps \cup
           (IF CallsInto(L, R) /\ ~CallBothWays(L, R) THEN {R} ELSE {})
      /\ plan'[R].deps = plan[c].deps \cup
           (IF CallsInto(R, L) /\ ~CallBothWays(R, L) THEN {L} ELSE {})
  BY <1>2 DEF HalfDeps
<1> HIDE DEF L, R
<1>6. Covered'
  <2> SUFFICES ASSUME NEW s \in Symbols PROVE \E d \in Leaves' : s \in SymbolsOf(d)
    BY DEF Covered
  <2>1. PICK d \in Leaves : s \in SymbolsOf(d)
    BY DEF PlanInv, Covered
  <2>2. QED
    BY <1>1, <1>2, <2>1
<1>7. Apart'
  <2>1. \A d \in Leaves : d # c => SymbolsOf(d) \cap SymbolsOf(c) = {}
    BY DEF PlanInv, Apart, Overlap
  <2>2. QED
    BY <1>1, <1>2, <2>1 DEF PlanInv, Apart, Overlap
<1>8. Unplanned'
  BY <1>2 DEF Unplanned
<1>9. SplitIsAbove'
  <2>1. ~(SymbolsOf(c) \subseteq SymbolsOf(L)) /\ ~(SymbolsOf(c) \subseteq SymbolsOf(R))
    BY <1>1, ChunksHaveSymbols
  <2>2. \A d \in Leaves \ {c} : ~(SymbolsOf(c) \subseteq SymbolsOf(d))
    BY <1>1, ChunksHaveSymbols DEF PlanInv, Apart, Overlap
  <2>3. \A d \in Superseded : ~(SymbolsOf(d) \subseteq SymbolsOf(L)) /\ ~(SymbolsOf(d) \subseteq SymbolsOf(R))
    BY <1>1 DEF PlanInv, SplitIsAbove
  <2>4. QED
    BY <1>2, <2>1, <2>2, <2>3 DEF PlanInv, SplitIsAbove
<1>10. DepsAreLeaves'
  <2>1. plan'[L].deps \subseteq Leaves' /\ plan'[R].deps \subseteq Leaves'
    BY <1>2, <1>3, <1>5
  <2>2. \A d \in Leaves \ {c} : plan'[d].deps \subseteq Leaves'
    BY <1>2, <1>4
  <2>3. QED
    BY <1>2, <2>1, <2>2 DEF DepsAreLeaves
<1>11. NoCycle'
  <2> SUFFICES ASSUME NEW S \in SUBSET Leaves', S # {}
               PROVE  \E d \in S : plan'[d].deps \cap S = {}
    BY DEF NoCycle
  <2>1. CASE S \cap {L, R} = {}
    <3>1. PICK d \in S : plan[d].deps \cap S = {}
      BY <1>2, <2>1 DEF PlanInv, NoCycle
    <3>2. d \in Leaves \ {c}
      BY <1>2, <2>1
    <3>3. QED
      BY <1>2, <1>4, <2>1, <3>1, <3>2
  <2>2. CASE S \cap {L, R} # {}
    <3> DEFINE T == (S \ {L, R}) \cup {c}
    <3>1. T \in SUBSET Leaves /\ T # {}
      BY <1>2
    <3>2. PICK d \in T : plan[d].deps \cap T = {}
      BY <3>1 DEF PlanInv, NoCycle
    <3>3. CASE d # c
      BY <1>2, <1>4, <3>2, <3>3
    <3>4. CASE d = c
      <4>1. plan[c].deps \cap S = {}
        BY <1>2, <1>3, <3>2, <3>4
      <4>2. ~(R \in plan'[L].deps /\ L \in plan'[R].deps)
        BY <1>1, <1>2, <1>3, <1>5 DEF CallBothWays
      <4>3. L \notin plan'[L].deps /\ R \notin plan'[R].deps
        BY <1>1, <1>2, <1>3, <1>5
      <4>4. plan'[L].deps \subseteq plan[c].deps \cup {R} /\ plan'[R].deps \subseteq plan[c].deps \cup {L}
        BY <1>5
      <4>5. QED
        BY <2>2, <4>1, <4>2, <4>3, <4>4
    <3>5. QED
      BY <3>3, <3>4
  <2>3. QED
    BY <2>1, <2>2
<1>12. \A s, t \in Symbols : SplitMutually(s, t) => SplitMutually(s, t)'
  <2> SUFFICES ASSUME NEW s \in Symbols, NEW t \in Symbols, SplitMutually(s, t)
               PROVE  SplitMutually(s, t)'
    OBVIOUS
  <2>1. PICK d \in Chunks : /\ plan[d].status = "superseded"
                            /\ CallBothWays(Left(d), Right(d))
                            /\ \/ s \in SymbolsOf(Left(d)) /\ t \in SymbolsOf(Right(d))
                               \/ s \in SymbolsOf(Right(d)) /\ t \in SymbolsOf(Left(d))
    BY DEF SplitMutually
  <2>2. plan'[d].status = "superseded"
    BY <1>2, <2>1 DEF Superseded
  <2>3. QED
    BY <2>1, <2>2 DEF SplitMutually
<1>13. CallsAreDeps'
  <2> SUFFICES ASSUME NEW d \in Leaves', NEW e \in Leaves', NEW call \in Calls, d # e,
                      call[1] \in SymbolsOf(d), call[2] \in SymbolsOf(e)
               PROVE  e \in plan'[d].deps \/ SplitMutually(call[1], call[2])'
    BY DEF CallsAreDeps
  <2>0. call[1] \in Symbols /\ call[2] \in Symbols
    BY CallsAreEdges
  <2>1. CASE d \in {L, R} /\ e \in {L, R}
    <3>1. CASE CallBothWays(L, R)
      <4>1. plan'[c].status = "superseded" /\ CallBothWays(Left(c), Right(c))
        BY <1>2, <3>1 DEF L, R
      <4>2. \/ call[1] \in SymbolsOf(Left(c)) /\ call[2] \in SymbolsOf(Right(c))
            \/ call[1] \in SymbolsOf(Right(c)) /\ call[2] \in SymbolsOf(Left(c))
        BY <2>1 DEF L, R
      <4>3. QED
        BY <1>1, <4>1, <4>2 DEF SplitMutually
    <3>2. CASE ~CallBothWays(L, R)
      <4>1. CallsInto(d, e) /\ ~CallBothWays(R, L)
        BY <3>2 DEF CallsInto, CallBothWays
      <4>2. QED
        BY <1>5, <2>1, <3>2, <4>1
    <3>3. QED
      BY <3>1, <3>2
  <2>2. CASE d \in {L, R} /\ e \notin {L, R}
    <3>1. e \in Leaves /\ e # c /\ call[1] \in SymbolsOf(c)
      BY <1>1, <1>2, <2>2
    <3>2. e \in plan[c].deps \/ SplitMutually(call[1], call[2])
      BY <3>1 DEF PlanInv, CallsAreDeps
    <3>3. QED
      BY <1>5, <1>12, <2>0, <2>2, <3>2
  <2>3. CASE d \notin {L, R} /\ e \in {L, R}
    <3>1. d \in Leaves /\ d # c /\ call[2] \in SymbolsOf(c)
      BY <1>1, <1>2, <2>3
    <3>2. c \in plan[d].deps \/ SplitMutually(call[1], call[2])
      BY <3>1 DEF PlanInv, CallsAreDeps
    <3>3. QED
      BY <1>4, <1>12, <2>0, <2>3, <3>1, <3>2
  <2>4. CASE d \notin {L, R} /\ e \notin {L, R}
    <3>1. d \in Leaves \ {c} /\ e \in Leaves \ {c}
      BY <1>2, <2>4
    <3>2. e \in plan[d].deps \/ SplitMutually(call[1], call[2])
      BY <3>1 DEF PlanInv, CallsAreDeps
    <3>3. QED
      BY <1>4, <1>12, <2>0, <3>1, <3>2
  <2>5. QED
    BY <2>1, <2>2, <2>3, <2>4
<1>14. QED
  BY <1>2, <1>6, <1>7, <1>8, <1>9, <1>10, <1>11, <1>13 DEF PlanInv

-----------------------------------------------------------------------------
(* The workers.                                                            *)

Typed ==
  /\ contextVersion \in Nat /\ directories \subseteq Nat
  /\ main \in MainPhase /\ worker \in [Chunks -> WorkerPhase]
  /\ attempt \in Nat /\ retry \in Nat /\ sessions \in Nat

(* What the status of a chunk is while its worker is where it is.          *)
Agrees(c, phase, status) ==
  /\ phase = "queued" => status = "pending"
  /\ phase \in {"context", "model"} => status = "running"
  /\ phase = "frozen" => status = "frozen"
  /\ phase = "failing" => status \in {"running", "frozen"}
  /\ phase = "splitting" => status = "failed" /\ ~Single(c)
  /\ phase = "failed" => Single(c)

BeforeFreeze == {"queued", "context", "model"}

(* Workers live in a wave only, agree with the plan, and what they wait    *)
(* for is frozen and nobody's work.                                        *)
WorkInv ==
  /\ main # "wave" => worker = NoWorkers
  /\ \A c \in Chunks : Agrees(c, worker[c], plan[c].status)
  /\ \A c \in Chunks : worker[c] \in BeforeFreeze =>
       \A d \in plan[c].deps : plan[d].status = "frozen" /\ worker[d] = "none"

(* After an Act call has prepared the plan, whatever runs or has failed    *)
(* is in the hands of a worker.                                            *)
PhaseInv ==
  /\ RunningHasWorker
  /\ main \in {"schedule", "wave"} =>
       \A c \in Leaves : plan[c].status = "failed" => worker[c] \in {"splitting", "failed"}

ActInv == PlanInv /\ Typed /\ WorkInv /\ PhaseInv

(* A worker takes a step that changes its own chunk only.                  *)
LEMMA MoveKeeps ==
  ASSUME ActInv, NEW c \in Leaves, NEW to \in WorkerPhase, worker[c] # "none",
         worker' = [worker EXCEPT ![c] = to], main' = main,
         plan' \in [Chunks -> Chunk], \A d \in Chunks \ {c} : plan'[d] = plan[d],
         plan'[c].deps = plan[c].deps, plan'[c].status \in ChunkStatus \ {"superseded"},
         Agrees(c, to, plan'[c].status),
         to \in BeforeFreeze => worker[c] \in BeforeFreeze,
         plan'[c].status = "running" => to \in {"context", "model", "failing"},
         plan'[c].status = "failed" => to \in {"splitting", "failed"}
  PROVE  PlanInv' /\ WorkInv' /\ PhaseInv'
PROOF
<1>1. c \in Chunks /\ worker \in [Chunks -> WorkerPhase] /\ plan \in [Chunks -> Chunk]
  BY DEF ActInv, Typed, Leaves, PlanInv
<1>2. main = "wave" /\ main' = "wave"
  BY <1>1 DEF ActInv, WorkInv, NoWorkers
<1>3. Leaves' = Leaves
  BY <1>1 DEF Leaves, ChunkStatus
<1>4. PlanInv'
  BY <1>1, <1>3, StatusKeepsPlan DEF ActInv
<1>5. worker'[c] = to /\ \A d \in Chunks \ {c} : worker'[d] = worker[d]
  BY <1>1
<1>6. \A d \in Chunks : Agrees(d, worker'[d], plan'[d].status)
  BY <1>5 DEF ActInv, WorkInv
<1>7. \A d \in Chunks : plan'[d].deps = plan[d].deps /\ plan[d].deps \subseteq Chunks
  BY <1>1 DEF Chunk
<1>8. \A d \in Chunks : worker'[d] \in BeforeFreeze =>
        \A e \in plan'[d].deps : plan'[e].status = "frozen" /\ worker'[e] = "none"
  BY <1>5, <1>7 DEF ActInv, WorkInv
<1>9. PhaseInv'
  BY <1>2, <1>3, <1>5 DEF ActInv, PhaseInv, RunningHasWorker, Leaves
<1>10. QED
  BY <1>2, <1>4, <1>6, <1>8, <1>9 DEF WorkInv

(* A worker splits its chunk: it takes nothing from its siblings, because  *)
(* none of them waits for a chunk that is in work, and the halves are new. *)
LEMMA SplitChunkKeeps ==
  ASSUME ActInv, NEW c \in Chunks, SplitChunk(c)
  PROVE  PlanInv' /\ WorkInv' /\ PhaseInv'
PROOF
<1>1. /\ worker[c] = "splitting" /\ worker' = [worker EXCEPT ![c] = "finished"]
      /\ main' = main /\ plan' = Split(c)
  BY DEF SplitChunk, Move
<1>2. /\ worker \in [Chunks -> WorkerPhase] /\ plan \in [Chunks -> Chunk]
      /\ main = "wave" /\ main' = "wave"
  BY <1>1 DEF ActInv, Typed, PlanInv, WorkInv, NoWorkers
<1>3. plan[c].status = "failed" /\ ~Single(c) /\ c \in Leaves
  BY <1>1 DEF ActInv, WorkInv, Agrees, Leaves
<1>4. /\ Left(c) \in Chunks /\ Right(c) \in Chunks /\ Left(c) # c /\ Right(c) # c
  BY <1>3, HalvesMakeUp
<1>5. /\ plan' \in [Chunks -> Chunk]
      /\ Left(c) \notin Leaves /\ Right(c) \notin Leaves
      /\ plan'[Left(c)].status = "pending" /\ plan'[Right(c)].status = "pending"
      /\ \A d \in Chunks \ {c, Left(c), Right(c)} :
           /\ plan'[d].status = plan[d].status
           /\ plan'[d].deps = Renamed(plan[d].deps, c)
      /\ Leaves' = (Leaves \ {c}) \cup {Left(c), Right(c)}
  BY <1>1, <1>3, SplitWrites DEF ActInv
<1>6. PlanInv'
  BY <1>1, <1>3, SplitKeepsPlan DEF ActInv
<1>7. worker'[c] = "finished" /\ \A d \in Chunks \ {c} : worker'[d] = worker[d]
  BY <1>1, <1>2
<1>8. \A d \in {Left(c), Right(c)} : worker'[d] \notin BeforeFreeze \cup {"frozen", "failing", "splitting"}
  BY <1>4, <1>5, <1>7 DEF ActInv, WorkInv, Agrees, Leaves, BeforeFreeze
<1>9. \A d \in Chunks : Agrees(d, worker'[d], plan'[d].status)
  <2> SUFFICES ASSUME NEW d \in Chunks PROVE Agrees(d, worker'[d], plan'[d].status)
    OBVIOUS
  <2>1. CASE d = c
    BY <1>7, <2>1 DEF Agrees
  <2>2. CASE d \in {Left(c), Right(c)}
    <3>1. worker'[d] = "failed" => Single(d)
      BY <1>4, <1>7, <2>2 DEF ActInv, WorkInv, Agrees
    <3>2. QED
      BY <1>8, <2>2, <3>1 DEF Agrees, BeforeFreeze
  <2>3. CASE d \notin {c, Left(c), Right(c)}
    BY <1>5, <1>7, <2>3 DEF ActInv, WorkInv
  <2>4. QED
    BY <2>1, <2>2, <2>3
<1>10. ASSUME NEW d \in Chunks, worker'[d] \in BeforeFreeze, NEW e \in plan'[d].deps
       PROVE  plan'[e].status = "frozen" /\ worker'[e] = "none"
  <2>1. d \notin {c, Left(c), Right(c)} /\ worker[d] = worker'[d]
    BY <1>7, <1>8, <1>10 DEF BeforeFreeze
  <2>2. \A f \in plan[d].deps : plan[f].status = "frozen" /\ worker[f] = "none"
    BY <1>10, <2>1 DEF ActInv, WorkInv
  <2>3. plan[d].deps \subseteq Chunks /\ c \notin plan[d].deps
    BY <1>1, <1>2, <2>2 DEF Chunk
  <2>4. e \in plan[d].deps
    BY <1>5, <1>10, <2>1, <2>3 DEF Renamed
  <2>5. e \in Leaves /\ e \notin {c, Left(c), Right(c)}
    BY <1>5, <2>2, <2>3, <2>4 DEF Leaves
  <2>6. QED
    BY <1>5, <1>7, <2>2, <2>3, <2>4, <2>5
<1>11. PhaseInv'
  <2> SUFFICES ASSUME NEW d \in Leaves'
               PROVE  /\ plan'[d].status = "running" => worker'[d] \in {"context", "model", "failing"}
                      /\ plan'[d].status = "failed" => worker'[d] \in {"splitting", "failed"}
    BY <1>2 DEF PhaseInv, RunningHasWorker
  <2>1. CASE d \in {Left(c), Right(c)}
    BY <1>5, <2>1
  <2>2. CASE d \notin {Left(c), Right(c)}
    <3>1. d \in Leaves /\ d \in Chunks \ {c, Left(c), Right(c)}
      BY <1>5, <2>2 DEF Leaves
    <3>2. QED
      BY <1>2, <1>5, <1>7, <3>1 DEF ActInv, PhaseInv, RunningHasWorker
  <2>3. QED
    BY <2>1, <2>2
<1>12. QED
  BY <1>2, <1>6, <1>9, <1>10, <1>11 DEF WorkInv

(* Every step of a worker, one by one.                                     *)
LEMMA WorkerKeeps ==
  ASSUME ActInv, NEW c \in Chunks, WorkerStep(c)
  PROVE  PlanInv' /\ WorkInv' /\ PhaseInv'
PROOF
<1>1. /\ worker \in [Chunks -> WorkerPhase] /\ plan \in [Chunks -> Chunk]
      /\ plan[c] \in Chunk /\ plan[c].attempts \in Nat
      /\ Agrees(c, worker[c], plan[c].status)
  BY DEF ActInv, Typed, PlanInv, WorkInv, Chunk
<1>2. worker[c] \in {"queued", "context", "model", "frozen", "failing", "splitting"} => c \in Leaves
  BY <1>1 DEF Agrees, Leaves
<1>3. c \in Leaves => /\ plan[c].status = "running" => worker[c] \in {"context", "model", "failing"} \/ main # "wave"
                      /\ plan[c].status = "failed" => worker[c] \in {"splitting", "failed"} \/ main # "wave"
  BY DEF ActInv, PhaseInv, RunningHasWorker
<1>4. worker[c] # "none" => main = "wave"
  BY DEF ActInv, WorkInv, NoWorkers
<1>5. CASE StartChunk(c)
  <2>1. /\ worker[c] = "queued" /\ worker' = [worker EXCEPT ![c] = "context"] /\ main' = main
        /\ plan' = [plan EXCEPT ![c].status = "running", ![c].attempts = @ + 1]
    BY <1>5 DEF StartChunk, Move
  <2>2. /\ plan' \in [Chunks -> Chunk] /\ plan'[c].status = "running"
        /\ plan'[c].deps = plan[c].deps /\ \A d \in Chunks \ {c} : plan'[d] = plan[d]
    BY <1>1, <2>1 DEF Chunk, ChunkStatus
  <2>3. Agrees(c, "context", "running")
    BY DEF Agrees
  <2>4. QED
    BY <1>2, <2>1, <2>2, <2>3, MoveKeeps DEF WorkerPhase, ChunkStatus, BeforeFreeze
<1>6. CASE WriteContext(c)
  <2>1. /\ worker[c] = "context" /\ worker' = [worker EXCEPT ![c] = "model"] /\ main' = main
        /\ plan' = plan
    BY <1>6 DEF WriteContext, Move
  <2>2. plan[c].status = "running" /\ Agrees(c, "model", "running")
    BY <1>1, <2>1 DEF Agrees
  <2>3. QED
    BY <1>1, <1>2, <2>1, <2>2, MoveKeeps DEF WorkerPhase, ChunkStatus, BeforeFreeze
<1>7. CASE FreezeChunk(c)
  <2>1. /\ worker[c] = "model" /\ worker' = [worker EXCEPT ![c] = "frozen"] /\ main' = main
        /\ plan' = [plan EXCEPT ![c].status = "frozen", ![c].translation = plan[c].attempts]
    BY <1>7 DEF FreezeChunk, Move
  <2>2. /\ plan' \in [Chunks -> Chunk] /\ plan'[c].status = "frozen"
        /\ plan'[c].deps = plan[c].deps /\ \A d \in Chunks \ {c} : plan'[d] = plan[d]
    BY <1>1, <2>1 DEF Chunk, ChunkStatus
  <2>3. Agrees(c, "frozen", "frozen")
    BY DEF Agrees
  <2>4. QED
    BY <1>2, <2>1, <2>2, <2>3, MoveKeeps DEF WorkerPhase, ChunkStatus, BeforeFreeze
<1>8. CASE FinishChunk(c)
  <2>1. /\ worker[c] = "frozen" /\ worker' = [worker EXCEPT ![c] = "finished"] /\ main' = main
        /\ plan' = plan
    BY <1>8 DEF FinishChunk, Move
  <2>2. plan[c].status = "frozen" /\ Agrees(c, "finished", "frozen")
    BY <1>1, <2>1 DEF Agrees
  <2>3. QED
    BY <1>1, <1>2, <2>1, <2>2, MoveKeeps DEF WorkerPhase, ChunkStatus, BeforeFreeze
<1>9. CASE ChunkRaises(c)
  <2>1. /\ worker[c] \in {"context", "model", "frozen"}
        /\ worker' = [worker EXCEPT ![c] = "failing"] /\ main' = main /\ plan' = plan
    BY <1>9 DEF ChunkRaises, Move
  <2>2. plan[c].status \in {"running", "frozen"} /\ Agrees(c, "failing", plan[c].status)
    BY <1>1, <2>1 DEF Agrees
  <2>3. QED
    BY <1>1, <1>2, <2>1, <2>2, MoveKeeps DEF WorkerPhase, ChunkStatus, BeforeFreeze
<1>10. CASE FailChunk(c)
  <2> DEFINE to == IF Single(c) THEN "failed" ELSE "splitting"
  <2>1. /\ worker[c] = "failing" /\ worker' = [worker EXCEPT ![c] = to] /\ main' = main
        /\ plan' = [plan EXCEPT ![c].status = "failed"]
    BY <1>10 DEF FailChunk, Move, Update
  <2>2. /\ plan' \in [Chunks -> Chunk] /\ plan'[c].status = "failed"
        /\ plan'[c].deps = plan[c].deps /\ \A d \in Chunks \ {c} : plan'[d] = plan[d]
    BY <1>1, <2>1 DEF Chunk, ChunkStatus
  <2>3. Agrees(c, to, "failed") /\ to \in {"failed", "splitting"}
    BY DEF Agrees
  <2> HIDE DEF to
  <2>4. QED
    BY <1>2, <2>1, <2>2, <2>3, MoveKeeps DEF WorkerPhase, ChunkStatus, BeforeFreeze
<1>11. CASE SplitChunk(c)
  BY <1>11, SplitChunkKeeps
<1>12. QED
  BY <1>5, <1>6, <1>7, <1>8, <1>9, <1>10, <1>11 DEF WorkerStep

-----------------------------------------------------------------------------
(* The main thread.                                                        *)

(* While no wave runs, a plan that stays as it is stays sound.             *)
LEMMA QuietKeeps ==
  ASSUME ActInv, plan' = plan, worker' = NoWorkers, PhaseInv'
  PROVE  PlanInv' /\ WorkInv' /\ PhaseInv'
PROOF
<1>1. PlanInv'
  BY StatusKeepsPlan DEF ActInv, PlanInv, Leaves
<1>2. WorkInv'
  BY DEF WorkInv, NoWorkers, Agrees, BeforeFreeze
<1>3. QED
  BY <1>1, <1>2

(* The first Act packs the chunks, a later one finds them.                 *)
LEMMA ActKeeps == ASSUME ActInv, Act PROVE PlanInv' /\ WorkInv' /\ PhaseInv'
PROOF
<1>1. worker' = NoWorkers /\ main' = "prepare"
  BY DEF Act, ActInv, WorkInv
<1>2. PlanInv'
  <2>1. CASE Leaves = {}
    BY <2>1, InitialPlanIsSound DEF Act, InitializePlan, ActInv, PlanInv
  <2>2. CASE Leaves # {}
    <3>1. plan' = plan
      BY <2>2 DEF Act, InitializePlan
    <3>2. QED
      BY <3>1, StatusKeepsPlan DEF ActInv, PlanInv, Leaves
  <2>3. QED
    BY <2>1, <2>2
<1>3. WorkInv'
  BY <1>1 DEF WorkInv, NoWorkers, Agrees, BeforeFreeze
<1>4. PhaseInv'
  BY <1>1 DEF PhaseInv, RunningHasWorker
<1>5. QED
  BY <1>2, <1>3, <1>4

(* A leaf of an earlier process becomes failed, pending or two halves.     *)
LEMMA PrepareKeeps == ASSUME ActInv, Prepare PROVE PlanInv' /\ WorkInv' /\ PhaseInv'
PROOF
<1>1. main = "prepare" /\ main' = "prepare" /\ worker' = NoWorkers
  BY DEF Prepare, process, ActInv, WorkInv
<1>2. PICK c \in FirstOf(1, Unprepared) :
        plan' = CASE plan[c].status = "running" -> Update(c, "failed")
                  [] plan[c].status = "failed" /\ Single(c) -> Update(c, "pending")
                  [] OTHER -> Split(c)
  BY DEF Prepare
<1>3. /\ c \in Leaves /\ c \in Chunks /\ plan[c].status \in {"running", "failed"}
      /\ plan \in [Chunks -> Chunk] /\ plan[c] \in Chunk
  BY DEF FirstOf, Unprepared, Leaves, ActInv, PlanInv
<1>4. ASSUME NEW status \in {"failed", "pending"}, plan' = Update(c, status) PROVE PlanInv'
  <2>1. /\ plan' \in [Chunks -> Chunk] /\ plan'[c].status = status
        /\ plan'[c].deps = plan[c].deps /\ \A d \in Chunks \ {c} : plan'[d] = plan[d]
    BY <1>3, <1>4 DEF Update, Chunk, ChunkStatus
  <2>2. Leaves' = Leaves
    BY <1>3, <2>1 DEF Leaves
  <2>3. QED
    BY <1>3, <2>1, <2>2, StatusKeepsPlan DEF ActInv
<1>5. PlanInv'
  <2>1. CASE plan[c].status = "running"
    BY <1>2, <1>4, <2>1
  <2>2. CASE plan[c].status = "failed" /\ Single(c)
    BY <1>2, <1>4, <2>2
  <2>3. CASE plan[c].status = "failed" /\ ~Single(c)
    BY <1>2, <1>3, <2>3, SplitKeepsPlan DEF ActInv
  <2>4. QED
    BY <1>3, <2>1, <2>2, <2>3
<1>6. WorkInv'
  BY <1>1 DEF WorkInv, NoWorkers, Agrees, BeforeFreeze
<1>7. PhaseInv'
  BY <1>1 DEF PhaseInv, RunningHasWorker
<1>8. QED
  BY <1>5, <1>6, <1>7

(* A wave takes chunks whose dependencies are frozen, and those are not    *)
(* in it.                                                                  *)
LEMMA StartWaveKeeps == ASSUME ActInv, StartWave PROVE PlanInv' /\ WorkInv' /\ PhaseInv'
PROOF
<1>1. /\ main = "schedule" /\ main' = "wave" /\ plan' = plan /\ worker = NoWorkers
      /\ plan \in [Chunks -> Chunk]
  BY DEF StartWave, disk, ActInv, WorkInv, PlanInv
<1>2. /\ \A c \in Chunks : worker'[c] \in {"queued", "none"}
      /\ \A c \in Chunks : worker'[c] = "queued" => c \in Ready
  BY DEF StartWave, FirstOf
<1>3. Leaves' = Leaves /\ PlanInv'
  BY <1>1, StatusKeepsPlan DEF ActInv, PlanInv, Leaves
<1>4. \A c \in Chunks : Agrees(c, worker'[c], plan'[c].status)
  BY <1>1, <1>2 DEF Agrees, Ready
<1>5. ASSUME NEW c \in Chunks, worker'[c] \in BeforeFreeze, NEW d \in plan'[c].deps
      PROVE  plan'[d].status = "frozen" /\ worker'[d] = "none"
  BY <1>1, <1>2, <1>5 DEF BeforeFreeze, Ready, FrozenChunks
<1>6. PhaseInv'
  <2>1. \A c \in Leaves : plan[c].status \notin {"running", "failed"}
    BY <1>1 DEF ActInv, PhaseInv, RunningHasWorker, NoWorkers, Leaves
  <2>2. QED
    BY <1>1, <1>3, <2>1 DEF PhaseInv, RunningHasWorker
<1>7. QED
  BY <1>1, <1>3, <1>4, <1>5, <1>6 DEF WorkInv

(* A wave whose workers are done leaves nothing running, and a failed      *)
(* chunk only if the session ends with it.                                 *)
LEMMA EndWaveKeeps == ASSUME ActInv, EndWave PROVE PlanInv' /\ WorkInv' /\ PhaseInv'
PROOF
<1>1. /\ main = "wave" /\ plan' = plan /\ worker' = NoWorkers
      /\ main' = IF WaveFailed THEN "idle" ELSE "schedule"
      /\ \A c \in Chunks : worker[c] \in {"none", "finished", "failed"}
  BY DEF EndWave, WaveOver, disk
<1>2. Leaves' = Leaves
  BY <1>1 DEF Leaves
<1>3. \A c \in Leaves : plan[c].status # "running"
  BY <1>1 DEF ActInv, PhaseInv, RunningHasWorker, Leaves
<1>4. ASSUME NEW c \in Leaves, plan[c].status = "failed" PROVE WaveFailed
  <2>1. c \in Chunks /\ worker[c] = "failed"
    BY <1>1, <1>4 DEF ActInv, PhaseInv, Leaves
  <2>2. Single(c)
    BY <2>1 DEF ActInv, WorkInv, Agrees
  <2>3. QED
    BY <1>4, <2>1, <2>2 DEF WaveFailed, FailedSingles
<1>5. PhaseInv'
  BY <1>1, <1>2, <1>3, <1>4 DEF PhaseInv, RunningHasWorker
<1>6. QED
  BY <1>1, <1>5, QuietKeeps

(* An Observation sends chunks that are frozen back to failed.             *)
LEMMA ObserveFailKeeps == ASSUME ActInv, ObserveFail PROVE PlanInv' /\ WorkInv' /\ PhaseInv'
PROOF
<1>1. main' = "reason" /\ worker' = NoWorkers
  BY DEF ObserveFail, ActInv, WorkInv
<1>2. PICK located \in SUBSET (Leaves \cap FrozenChunks) :
        plan' = [c \in Chunks |->
                   IF c \in located THEN [plan[c] EXCEPT !.status = "failed"] ELSE plan[c]]
  BY DEF ObserveFail
<1>3. plan \in [Chunks -> Chunk]
  BY DEF ActInv, PlanInv
<1>4. /\ plan' \in [Chunks -> Chunk]
      /\ \A c \in Chunks : plan'[c].deps = plan[c].deps
      /\ \A c \in located : plan'[c].status = "failed"
      /\ \A c \in Chunks \ located : plan'[c] = plan[c]
  BY <1>2, <1>3 DEF Chunk, ChunkStatus, Leaves
<1>5. Leaves' = Leaves
  BY <1>4 DEF Leaves
<1>6. PlanInv'
  BY <1>4, <1>5, StatusKeepsPlan DEF ActInv
<1>7. WorkInv' /\ PhaseInv'
  BY <1>1 DEF WorkInv, NoWorkers, Agrees, BeforeFreeze, PhaseInv, RunningHasWorker
<1>8. QED
  BY <1>6, <1>7

(* The steps of the main thread that leave the plan as it is.              *)
LEMMA MainKeeps ==
  ASSUME ActInv, Open \/ ManualReview \/ Prepared \/ AllFrozen \/ Aggregate \/ Assemble
                 \/ ObservePass \/ Raise \/ Crash
  PROVE  PlanInv' /\ WorkInv' /\ PhaseInv'
PROOF
<1>1. plan' = plan /\ Leaves' = Leaves
  BY DEF Open, ManualReview, Prepared, AllFrozen, Aggregate, Assemble, ObservePass, Raise,
         Crash, disk, Leaves
<1>2. worker' = NoWorkers
  BY DEF ActInv, WorkInv, Open, ManualReview, Prepared, AllFrozen, Aggregate, Assemble,
         ObservePass, Raise, Crash, disk
<1>3. PhaseInv'
  <2>1. CASE Prepared
    BY <1>1, <2>1 DEF Prepared, Unprepared, PhaseInv, RunningHasWorker
  <2>2. CASE AllFrozen
    BY <1>1, <2>2 DEF AllFrozen, FrozenChunks, PhaseInv, RunningHasWorker
  <2>3. CASE Aggregate \/ Assemble
    BY <1>1, <2>3 DEF Aggregate, Assemble, ActInv, PhaseInv, RunningHasWorker
  <2>4. CASE Open \/ ManualReview \/ ObservePass \/ Raise \/ Crash
    BY <2>4 DEF Open, ManualReview, ObservePass, Raise, Crash, PhaseInv, RunningHasWorker
  <2>5. QED
    BY <2>1, <2>2, <2>3, <2>4
<1>4. QED
  BY <1>1, <1>2, <1>3, QuietKeeps

-----------------------------------------------------------------------------
(* The inductive invariant.                                                *)

(* Every step leaves the variables what they are.                          *)
LEMMA StaysTyped == ASSUME ActInv, Next PROVE Typed'
PROOF
<1>1. Typed /\ plan \in [Chunks -> Chunk]
  BY DEF ActInv, PlanInv
<1>2. CASE \E c \in Chunks : WorkerStep(c)
  <2>1. PICK c \in Chunks : WorkerStep(c)
    BY <1>2
  <2>2. \E from, to \in WorkerPhase : Move(c, from, to)
    BY <2>1 DEF WorkerStep, StartChunk, WriteContext, FreezeChunk, FinishChunk, ChunkRaises,
                FailChunk, SplitChunk, WorkerPhase
  <2>3. /\ worker' \in [Chunks -> WorkerPhase]
        /\ UNCHANGED <<directories, main, attempt, retry, sessions>>
    BY <1>1, <2>2 DEF Move, Typed
  <2>4. contextVersion' \in Nat
    <3>1. plan[c].attempts \in Nat
      BY <1>1 DEF Chunk
    <3>2. QED
      BY <1>1, <2>1, <3>1 DEF Typed, WorkerStep, StartChunk, WriteContext, FreezeChunk,
                              FinishChunk, ChunkRaises, FailChunk, SplitChunk
  <2>5. QED
    BY <1>1, <2>3, <2>4 DEF Typed
<1>3. CASE StartWave \/ EndWave \/ Crash
  <2>1. worker' \in [Chunks -> WorkerPhase]
    BY <1>3 DEF StartWave, EndWave, Crash, NoWorkers, WorkerPhase
  <2>2. QED
    BY <1>1, <1>3, <2>1 DEF Typed, StartWave, EndWave, Crash, disk, MainPhase
<1>4. CASE Prepare \/ ObserveFail
  <2>1. /\ UNCHANGED <<contextVersion, directories, worker, attempt, sessions>>
        /\ main' \in {main, "reason"} /\ retry' \in {retry, retry + 1}
    BY <1>1, <1>4 DEF Prepare, ObserveFail, disk, process, Typed
  <2>2. QED
    BY <1>1, <2>1 DEF Typed, MainPhase
<1>5. CASE Open \/ Act \/ ManualReview \/ Prepared \/ AllFrozen
  <2>1. /\ UNCHANGED <<contextVersion, directories, worker>>
        /\ main' \in {"reason", "prepare", "review", "schedule", "aggregate"}
        /\ attempt' \in {contextVersion, attempt, attempt + 1} /\ retry' \in {retry, 0}
        /\ sessions' \in {sessions, sessions + 1}
    BY <1>1, <1>5 DEF Open, LastVersion, Act, ManualReview, Prepared, AllFrozen, disk, Typed
  <2>2. QED
    BY <1>1, <2>1 DEF Typed, MainPhase
<1>6. CASE Aggregate \/ Assemble \/ ObservePass \/ Raise
  <2>1. /\ UNCHANGED <<contextVersion, worker, attempt, sessions>>
        /\ directories' \in {directories, directories \cup {attempt}}
        /\ main' \in {"assemble", "observe", "frozen", "idle"} /\ retry' \in {retry, retry + 1}
    BY <1>6 DEF Aggregate, Assemble, ObservePass, Raise, disk
  <2>2. QED
    BY <1>1, <2>1 DEF Typed, MainPhase
<1>7. QED
  BY <1>2, <1>3, <1>4, <1>5, <1>6 DEF Next, SessionStep

(* Before the first session there is no plan and no worker.                *)
LEMMA InitIsSound == Init => ActInv
PROOF
<1> SUFFICES ASSUME Init PROVE ActInv
  OBVIOUS
<1>1. Absent \in Chunk /\ Absent.status = "absent"
  BY DEF Absent, Chunk
<1>2. plan \in [Chunks -> Chunk] /\ \A c \in Chunks : plan[c] = Absent
  BY <1>1 DEF Init
<1>3. Leaves = {} /\ Superseded = {}
  BY <1>1, <1>2 DEF Leaves, Superseded
<1>4. PlanInv
  BY <1>1, <1>2, <1>3 DEF PlanInv, Covered, Apart, Unplanned, SplitIsAbove, DepsAreLeaves,
                          NoCycle, CallsAreDeps
<1>5. Typed
  BY DEF Init, Typed, NoWorkers, MainPhase, WorkerPhase
<1>6. WorkInv /\ PhaseInv
  BY DEF Init, WorkInv, PhaseInv, RunningHasWorker, NoWorkers, Agrees, BeforeFreeze
<1>7. QED
  BY <1>4, <1>5, <1>6 DEF ActInv

(* Every step keeps the invariant.                                         *)
LEMMA NextKeeps == ActInv /\ [Next]_vars => ActInv'
PROOF
<1> SUFFICES ASSUME ActInv, [Next]_vars PROVE ActInv'
  OBVIOUS
<1>1. CASE Next
  <2>1. Typed'
    BY <1>1, StaysTyped
  <2>2. PlanInv' /\ WorkInv' /\ PhaseInv'
    <3>1. CASE Act
      BY <3>1, ActKeeps
    <3>2. CASE Prepare
      BY <3>2, PrepareKeeps
    <3>3. CASE StartWave
      BY <3>3, StartWaveKeeps
    <3>4. CASE EndWave
      BY <3>4, EndWaveKeeps
    <3>5. CASE ObserveFail
      BY <3>5, ObserveFailKeeps
    <3>6. CASE \E c \in Chunks : WorkerStep(c)
      BY <3>6, WorkerKeeps
    <3>7. CASE Open \/ ManualReview \/ Prepared \/ AllFrozen \/ Aggregate \/ Assemble
               \/ ObservePass \/ Raise \/ Crash
      BY <3>7, MainKeeps
    <3>8. QED
      BY <1>1, <3>1, <3>2, <3>3, <3>4, <3>5, <3>6, <3>7 DEF Next, SessionStep
  <2>3. QED
    BY <2>1, <2>2 DEF ActInv
<1>2. CASE UNCHANGED vars
  <2>1. UNCHANGED <<plan, contextVersion, directories, main, worker, attempt, retry,
                    sessions>>
    BY <1>2 DEF vars
  <2>2. PlanInv'
    BY <2>1, StatusKeepsPlan DEF ActInv, PlanInv, Leaves
  <2>3. Typed' /\ WorkInv' /\ PhaseInv'
    BY <2>1 DEF ActInv, Typed, WorkInv, PhaseInv, RunningHasWorker, Leaves
  <2>4. QED
    BY <2>2, <2>3 DEF ActInv
<1>3. QED
  BY <1>1, <1>2

(* The invariant of the module.                                            *)
LEMMA ActInvariant == Spec => []ActInv
PROOF
<1>1. QED
  BY InitIsSound, NextKeeps, PTL DEF Spec

-----------------------------------------------------------------------------
(* What follows from it.                                                   *)

(* The plan file always holds each symbol in exactly one leaf and can be   *)
(* scheduled to its end (split, ready, _run_chunks).                       *)
THEOREM PlanStaysSound == Spec => []PlanIsSound
PROOF
<1>1. ActInv => PlanIsSound
  <2> SUFFICES ASSUME ActInv PROVE PlanIsSound
    OBVIOUS
  <2>1. TypeOK
    BY DEF ActInv, PlanInv, Typed, TypeOK
  <2>2. LeavesPartition
    <3> SUFFICES ASSUME Leaves # {}, NEW s \in Symbols
                 PROVE  Cardinality({c \in Leaves : s \in SymbolsOf(c)}) = 1
      BY DEF LeavesPartition
    <3>1. PICK c \in Leaves : s \in SymbolsOf(c)
      BY DEF ActInv, PlanInv, Covered
    <3>2. {d \in Leaves : s \in SymbolsOf(d)} = {c}
      BY <3>1 DEF ActInv, PlanInv, Apart, Overlap
    <3>3. QED
      BY <3>2, FS_Singleton
  <2>3. SchedulerNeverStuck
    <3> SUFFICES ASSUME main = "schedule", ~(Leaves \subseteq FrozenChunks) PROVE Ready # {}
      BY DEF SchedulerNeverStuck
    <3>1. PICK c \in Leaves \ FrozenChunks : plan[c].deps \cap (Leaves \ FrozenChunks) = {}
      BY DEF ActInv, PlanInv, NoCycle
    <3>2. plan[c].deps \subseteq FrozenChunks
      BY <3>1 DEF ActInv, PlanInv, DepsAreLeaves
    <3>3. c \in Chunks /\ worker[c] = "none" /\ plan[c].status \in ChunkStatus \cup {"absent"}
      BY <3>1 DEF ActInv, WorkInv, NoWorkers, Leaves, PlanInv, Chunk
    <3>4. plan[c].status \notin {"running", "failed", "frozen", "absent", "superseded"}
      BY <3>1, <3>3 DEF ActInv, PhaseInv, RunningHasWorker, Leaves, FrozenChunks
    <3>5. QED
      BY <3>2, <3>3, <3>4 DEF Ready, ChunkStatus
  <2>4. QED
    BY <2>1, <2>2, <2>3 DEF PlanIsSound
<1>2. QED
  BY <1>1, ActInvariant, PTL

(* A crash leaves no chunk that waits for a thread that is gone            *)
(* (_prepare_failed_chunks).                                               *)
THEOREM NothingRunsAlone == Spec => []RunningHasWorker
PROOF
<1>1. ActInv => RunningHasWorker
  BY DEF ActInv, PhaseInv
<1>2. QED
  BY <1>1, ActInvariant, PTL

(* A chunk is translated after what it calls, but for halves that called   *)
(* each other (ready, split).                                              *)
THEOREM CalleesAreFirst == Spec => []CallersWait
PROOF
<1>1. ActInv => CallersWait
  <2> SUFFICES ASSUME ActInv, NEW c \in Chunks, NEW call \in Calls,
                      worker[c] \in {"context", "model"}, call[1] \in SymbolsOf(c),
                      call[2] \notin SymbolsOf(c), ~SplitMutually(call[1], call[2])
               PROVE  \E d \in FrozenChunks : call[2] \in SymbolsOf(d)
    BY DEF CallersWait
  <2>1. c \in Leaves
    BY DEF ActInv, WorkInv, Agrees, Leaves
  <2>2. PICK d \in Leaves : call[2] \in SymbolsOf(d)
    BY <2>1, CallsAreEdges DEF ActInv, PlanInv, Covered
  <2>3. d \in plan[c].deps
    BY <2>1, <2>2 DEF ActInv, PlanInv, CallsAreDeps
  <2>4. plan[d].status = "frozen" /\ d \in Chunks
    BY <2>2, <2>3 DEF ActInv, WorkInv, BeforeFreeze, Leaves
  <2>5. QED
    BY <2>2, <2>4 DEF FrozenChunks
<1>2. QED
  BY <1>1, ActInvariant, PTL

(* A frozen chunk keeps its translation until the Observation blames it or *)
(* its own worker fails (initialize, _prepare_failed_chunks, split).       *)
THEOREM SiblingsKeepFrozen == Spec => FrozenChunksKept
PROOF
<1> DEFINE Kept ==
      \A c \in FrozenChunks :
        \/ plan'[c].status = "frozen" /\ plan'[c].translation = plan[c].translation
        \/ main = "observe" \/ worker[c] = "failing"
<1>1. ActInv /\ [Next]_vars => [Kept]_vars
  <2> SUFFICES ASSUME ActInv, Next, NEW c \in FrozenChunks
               PROVE  \/ plan'[c].status = "frozen" /\ plan'[c].translation = plan[c].translation
                      \/ main = "observe" \/ worker[c] = "failing"
    OBVIOUS
  <2>1. /\ plan \in [Chunks -> Chunk] /\ c \in Chunks /\ plan[c].status = "frozen"
        /\ c \in Leaves
    BY DEF ActInv, PlanInv, FrozenChunks, Leaves
  <2>2. ASSUME NEW d \in Leaves, ~Single(d), d # c, plan' = Split(d)
        PROVE  plan'[c].status = "frozen" /\ plan'[c].translation = plan[c].translation
    <3>1. c \notin {d, Left(d), Right(d)}
      BY <2>1, <2>2, SplitWrites DEF ActInv
    <3>2. QED
      BY <2>1, <2>2, <3>1, SplitWrites DEF ActInv
  <2>3. CASE Act
    BY <2>1, <2>3 DEF Act, InitializePlan
  <2>4. CASE Prepare
    <3>1. PICK d \in FirstOf(1, Unprepared) :
            plan' = CASE plan[d].status = "running" -> Update(d, "failed")
                      [] plan[d].status = "failed" /\ Single(d) -> Update(d, "pending")
                      [] OTHER -> Split(d)
      BY <2>4 DEF Prepare
    <3>2. d \in Leaves /\ d \in Chunks /\ plan[d].status \in {"running", "failed"} /\ d # c
      BY <2>1 DEF FirstOf, Unprepared, Leaves
    <3>3. CASE plan[d].status = "running" \/ Single(d)
      <4>1. plan'[c] = plan[c]
        BY <2>1, <3>1, <3>2, <3>3 DEF Update
      <4>2. QED
        BY <2>1, <4>1
    <3>4. CASE plan[d].status = "failed" /\ ~Single(d)
      <4>1. plan' = Split(d)
        BY <3>1, <3>4
      <4>2. QED
        BY <2>2, <3>2, <3>4, <4>1
    <3>5. QED
      BY <3>2, <3>3, <3>4
  <2>5. CASE \E d \in Chunks : WorkerStep(d)
    <3>1. PICK d \in Chunks : WorkerStep(d)
      BY <2>5
    <3>2. Agrees(d, worker[d], plan[d].status)
      BY DEF ActInv, WorkInv
    <3>3. CASE StartChunk(d) \/ FreezeChunk(d)
      <4>1. d # c
        BY <2>1, <3>2, <3>3 DEF StartChunk, FreezeChunk, Move, Agrees
      <4>2. plan'[c] = plan[c]
        BY <2>1, <3>3, <4>1 DEF StartChunk, FreezeChunk
      <4>3. QED
        BY <2>1, <4>2
    <3>4. CASE WriteContext(d) \/ FinishChunk(d) \/ ChunkRaises(d)
      BY <2>1, <3>4 DEF WriteContext, FinishChunk, ChunkRaises
    <3>5. CASE FailChunk(d)
      <4>1. d = c => worker[c] = "failing"
        BY <3>5 DEF FailChunk, Move
      <4>2. d # c => plan'[c] = plan[c]
        BY <2>1, <3>5 DEF FailChunk, Update
      <4>3. QED
        BY <2>1, <4>1, <4>2
    <3>6. CASE SplitChunk(d)
      <4>1. plan[d].status = "failed" /\ ~Single(d) /\ plan' = Split(d)
        BY <3>2, <3>6 DEF SplitChunk, Move, Agrees
      <4>2. d \in Leaves /\ d # c
        BY <2>1, <4>1 DEF Leaves
      <4>3. QED
        BY <2>2, <4>1, <4>2
    <3>7. QED
      BY <3>1, <3>3, <3>4, <3>5, <3>6 DEF WorkerStep
  <2>6. CASE ObserveFail
    BY <2>6 DEF ObserveFail
  <2>7. CASE StartWave \/ EndWave \/ Open \/ ManualReview \/ Prepared
             \/ AllFrozen \/ Aggregate \/ Assemble \/ ObservePass \/ Raise \/ Crash
    <3>1. plan' = plan
      BY <2>7 DEF StartWave, EndWave, Open, ManualReview, Prepared, AllFrozen,
                  Aggregate, Assemble, ObservePass, Raise, Crash, disk
    <3>2. QED
      BY <2>1, <3>1
  <2>8. QED
    BY <2>3, <2>4, <2>5, <2>6, <2>7 DEF Next, SessionStep
<1>2. QED
  BY <1>1, ActInvariant, PTL DEF Spec, FrozenChunksKept
=============================================================================
