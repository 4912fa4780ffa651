----------------------- MODULE OnlineCalibrationProofs -----------------------
(***************************************************************************)
(* Proofs about the online calibration, for any image, any vertices, any   *)
(* coefficient of the lens and any parameters.  The fold over a set of     *)
(* vertices is shown to be a sum, in whatever order it takes them, so that *)
(* a mean movement is a number, and sections that lose nothing make a      *)
(* whole that loses nothing.  Up to the written cost the sums of scores    *)
(* stay unexpanded.                                                        *)
(***************************************************************************)
EXTENDS OnlineCalibration, FiniteSetTheorems, WellFoundedInduction, TLAPS

-----------------------------------------------------------------------------
(* Sums over finite sets, in whatever order the elements are taken *)

\* Induction over the subsets of a finite set: what holds of a set whenever it holds of
\* all smaller ones holds of every subset.
LEMMA SubsetsByInduction ==
    ASSUME NEW S, IsFiniteSet(S), NEW B,
           \A T \in SUBSET S : (\A U \in SUBSET T : U # T => U \in B) => T \in B
    PROVE  \A T \in SUBSET S : T \in B
<1> DEFINE R == StrictSubsetOrdering(S)
           Bad == {T \in SUBSET S : T \notin B}
<1> SUFFICES ASSUME Bad # {} PROVE FALSE
  OBVIOUS
<1>1. IsWellFoundedOn(R, SUBSET S)
  <2>1. IsWellFoundedOn(R, FiniteSubsetsOf(S))
    BY FS_StrictSubsetOrderingWellFounded
  <2>2. FiniteSubsetsOf(S) = SUBSET S
    BY FS_FiniteSubsetsOfFinite
  <2> HIDE DEF R
  <2> QED BY <2>1, <2>2
<1>2. Bad \subseteq SUBSET S
  OBVIOUS
<1>3. PICK T \in Bad : \A U \in Bad : <<U, T>> \notin R
  <2> HIDE DEF Bad, R
  <2> QED BY <1>1, <1>2, WFMin
<1>4. ASSUME NEW U \in SUBSET T, U # T PROVE U \in B
  <2>1. <<U, T>> \in R
    BY <1>4 DEF StrictSubsetOrdering
  <2> QED BY <1>3, <2>1
<1> QED BY <1>4

\* The elements are counted off one by one.
LEMMA CountedByInduction ==
    ASSUME NEW B, 0 \in B, \A n \in Nat : n \in B => n + 1 \in B
    PROVE  \A n \in Nat : n \in B
<1> DEFINE R == OpToRel(<, Nat)
           Bad == {n \in Nat : n \notin B}
<1> SUFFICES ASSUME Bad # {} PROVE FALSE
  OBVIOUS
<1>1. Bad \subseteq Nat
  OBVIOUS
<1>2. PICK n \in Bad : \A m \in Bad : <<m, n>> \notin R
  <2> HIDE DEF Bad, R
  <2>1. IsWellFoundedOn(R, Nat)
    BY NatLessThanWellFounded DEF R
  <2> QED BY <1>1, <2>1, WFMin
<1>3. n \in Nat /\ n # 0 /\ n - 1 \in Nat
  OBVIOUS
<1>4. <<n - 1, n>> \in R
  BY <1>3 DEF OpToRel
<1>5. n - 1 \in B
  BY <1>2, <1>3, <1>4
<1> QED BY <1>3, <1>5

\* The sums of w over the subsets of S, as the fold takes them.
Chosen(s) == CHOOSE x \in s : TRUE
IsSum(g, S, w) ==
    g = [s \in SUBSET S |-> IF s = {} THEN 0 ELSE w[Chosen(s)] + g[s \ {Chosen(s)}]]
Sums(S, w) == CHOOSE g : IsSum(g, S, w)

LEMMA ChosenLeaves ==
    ASSUME NEW S, IsFiniteSet(S), S # {}
    PROVE  /\ Chosen(S) \in S
           /\ Cardinality(S) \in Nat /\ Cardinality(S \ {Chosen(S)}) = Cardinality(S) - 1
<1>1. Chosen(S) \in S
  BY DEF Chosen
<1> QED BY <1>1, FS_CardinalityType, FS_RemoveElement

\* The sums exist: those of the sets with n elements come from those with fewer.
LEMMA SumsExist ==
    ASSUME NEW S, IsFiniteSet(S), NEW w
    PROVE  IsSum(Sums(S, w), S, w)
<1> DEFINE Right(g, n) ==
               \A s \in SUBSET S : Cardinality(s) <= n =>
                   g[s] = IF s = {} THEN 0 ELSE w[Chosen(s)] + g[s \ {Chosen(s)}]
           B == {n \in Nat : \E g : Right(g, n)}
<1>0. \A s \in SUBSET S : IsFiniteSet(s) /\ Cardinality(s) \in Nat /\ Cardinality(s) <= Cardinality(S)
  BY FS_Subset, FS_CardinalityType
<1>1. 0 \in B
  <2> DEFINE g == [s \in SUBSET S |-> 0]
  <2>1. ASSUME NEW s \in SUBSET S, Cardinality(s) <= 0 PROVE s = {}
    BY <1>0, <2>1, FS_EmptySet
  <2>2. Right(g, 0)
    BY <2>1
  <2> QED BY <2>2
<1>2. ASSUME NEW n \in Nat, n \in B PROVE n + 1 \in B
  <2>1. PICK g : Right(g, n)
    BY <1>2
  <2> DEFINE h == [s \in SUBSET S |->
                     IF Cardinality(s) <= n THEN g[s] ELSE w[Chosen(s)] + g[s \ {Chosen(s)}]]
  <2>2. ASSUME NEW s \in SUBSET S, Cardinality(s) <= n + 1, s # {}
        PROVE  h[s] = w[Chosen(s)] + h[s \ {Chosen(s)}]
    <3>1. /\ s \ {Chosen(s)} \in SUBSET S /\ Cardinality(s) \in Nat
          /\ Cardinality(s \ {Chosen(s)}) = Cardinality(s) - 1
      BY <1>0, <2>2, ChosenLeaves
    <3>2. h[s \ {Chosen(s)}] = g[s \ {Chosen(s)}]
      BY <2>2, <3>1
    <3>3. h[s] = w[Chosen(s)] + g[s \ {Chosen(s)}]
      BY <2>1, <2>2
    <3> QED BY <3>2, <3>3
  <2>3. h[{}] = 0
    <3>1. Cardinality({}) = 0 /\ {} \in SUBSET S
      BY FS_EmptySet
    <3> QED BY <2>1, <3>1
  <2> HIDE DEF h
  <2>4. Right(h, n + 1)
    BY <2>2, <2>3
  <2>5. n + 1 \in Nat
    OBVIOUS
  <2> HIDE DEF Right
  <2> QED BY <2>4, <2>5
<1>3. Cardinality(S) \in B
  <2> HIDE DEF B
  <2> QED BY <1>0, <1>1, <1>2, CountedByInduction
<1>4. PICK g : Right(g, Cardinality(S))
  BY <1>3
<1> DEFINE h == [s \in SUBSET S |-> g[s]]
<1>5. \A s \in SUBSET S : h[s] = IF s = {} THEN 0 ELSE w[Chosen(s)] + h[s \ {Chosen(s)}]
  BY <1>0, <1>4
<1>6. IsSum(h, S, w)
  <2> HIDE DEF h
  <2>1. h = [s \in SUBSET S |-> h[s]]
    BY DEF h
  <2> QED BY <1>5, <2>1 DEF IsSum
<1> QED BY <1>6 DEF Sums

\* What the fold computes is the sum: the set it is called for may be any part of S.
LEMMA FoldIsSum ==
    ASSUME NEW S, IsFiniteSet(S), NEW w, NEW T \in SUBSET S
    PROVE  SumOver([v \in T |-> w[v]]) = Sums(S, w)[T]
<1> DEFINE f == [v \in T |-> w[v]]
           F == Sums(T, f)
           G == Sums(S, w)
           B == {s \in SUBSET T : F[s] = G[s]}
<1>1. SumOver(f) = F[T]
  BY DEF SumOver, MapThenSumSet, MapThenFoldSet, Sums, IsSum, Chosen
<1>2. IsFiniteSet(T)
  BY FS_Subset
<1>3. IsSum(F, T, f) /\ IsSum(G, S, w)
  BY <1>2, SumsExist
<1>4. ASSUME NEW s \in SUBSET T, \A u \in SUBSET s : u # s => u \in B PROVE s \in B
  <2> HIDE DEF F, G
  <2>1. CASE s = {}
    <3>1. F[{}] = 0
      BY <1>3 DEF IsSum
    <3>2. G[{}] = 0
      BY <1>3 DEF IsSum
    <3> QED BY <2>1, <3>1, <3>2
  <2>2. CASE s # {}
    <3>1. Chosen(s) \in s
      BY <2>2 DEF Chosen
    <3>2. F[s] = f[Chosen(s)] + F[s \ {Chosen(s)}]
      BY <1>3, <2>2 DEF IsSum
    <3>3. G[s] = w[Chosen(s)] + G[s \ {Chosen(s)}]
      BY <1>3, <2>2 DEF IsSum
    <3>4. F[s \ {Chosen(s)}] = G[s \ {Chosen(s)}]
      BY <1>4, <3>1
    <3> QED BY <3>1, <3>2, <3>3, <3>4
  <2> QED BY <2>1, <2>2
<1>5. T \in B
  <2> HIDE DEF B
  <2> QED BY <1>2, <1>4, SubsetsByInduction
<1> QED BY <1>1, <1>5

\* Sums of integers are integers.
LEMMA SumsTyped ==
    ASSUME NEW S, IsFiniteSet(S), NEW w \in [S -> Int]
    PROVE  Sums(S, w) \in [SUBSET S -> Int]
<1> DEFINE G == Sums(S, w)
           B == {T \in SUBSET S : G[T] \in Int}
<1>1. IsSum(G, S, w)
  BY SumsExist
<1>2. ASSUME NEW T \in SUBSET S, \A U \in SUBSET T : U # T => U \in B PROVE T \in B
  <2> HIDE DEF G
  <2>1. CASE T = {}
    BY <1>1, <2>1 DEF IsSum
  <2>2. CASE T # {}
    <3>1. Chosen(T) \in T
      BY <2>2 DEF Chosen
    <3>2. G[T] = w[Chosen(T)] + G[T \ {Chosen(T)}]
      BY <1>1, <2>2 DEF IsSum
    <3>3. T \ {Chosen(T)} \in B
      BY <1>2, <3>1
    <3> QED BY <3>1, <3>2, <3>3
  <2> QED BY <2>1, <2>2
<1>3. \A T \in SUBSET S : T \in B
  <2> HIDE DEF B
  <2> QED BY <1>2, SubsetsByInduction
<1>4. DOMAIN G = SUBSET S /\ G = [s \in SUBSET S |-> G[s]]
  <2> HIDE DEF G
  <2> QED BY <1>1 DEF IsSum
<1> HIDE DEF G
<1>5. \A T \in SUBSET S : G[T] \in Int
  BY <1>3
<1> QED BY <1>4, <1>5 DEF G

\* The order does not matter: any element may be the first.
LEMMA AnyFirst ==
    ASSUME NEW S, IsFiniteSet(S), NEW w \in [S -> Int], NEW T \in SUBSET S, NEW x \in T
    PROVE  Sums(S, w)[T] = w[x] + Sums(S, w)[T \ {x}]
<1> DEFINE G == Sums(S, w)
           B == {U \in SUBSET S : \A y \in U : G[U] = w[y] + G[U \ {y}]}
<1>1. IsSum(G, S, w) /\ G \in [SUBSET S -> Int]
  BY SumsExist, SumsTyped
<1> HIDE DEF G
<1>2. ASSUME NEW U \in SUBSET S, \A V \in SUBSET U : V # U => V \in B, NEW y \in U
      PROVE  G[U] = w[y] + G[U \ {y}]
  <2> DEFINE c == Chosen(U)
  <2>1. c \in U
    BY DEF Chosen
  <2>2. G[U] = w[c] + G[U \ {c}]
    BY <1>1 DEF IsSum
  <2> HIDE DEF c
  <2>3. CASE y = c
    BY <2>2, <2>3
  <2>4. CASE y # c
    <3>1. G[U \ {c}] = w[y] + G[(U \ {c}) \ {y}]
      <4>1. U \ {c} \in SUBSET U /\ U \ {c} # U /\ y \in U \ {c}
        BY <2>1, <2>4
      <4>2. U \ {c} \in B
        BY <1>2, <4>1
      <4> QED BY <4>1, <4>2
    <3>2. G[U \ {y}] = w[c] + G[(U \ {y}) \ {c}]
      <4>1. U \ {y} \in SUBSET U /\ U \ {y} # U /\ c \in U \ {y}
        BY <2>1, <2>4
      <4>2. U \ {y} \in B
        BY <1>2, <4>1
      <4> QED BY <4>1, <4>2
    <3>3. (U \ {y}) \ {c} = (U \ {c}) \ {y}
      OBVIOUS
    <3> DEFINE r == G[(U \ {c}) \ {y}]
    <3>4. w[c] \in Int /\ w[y] \in Int /\ r \in Int
      BY <1>1, <2>1
    <3>5. G[U] = w[c] + (w[y] + r) /\ G[U \ {y}] = w[c] + r
      BY <2>2, <3>1, <3>2, <3>3
    <3> HIDE DEF r
    <3> QED BY <3>4, <3>5
  <2> QED BY <2>3, <2>4
<1>3. ASSUME NEW U \in SUBSET S, \A V \in SUBSET U : V # U => V \in B PROVE U \in B
  BY <1>2, <1>3
<1>4. T \in B
  <2> HIDE DEF B
  <2> QED BY <1>3, SubsetsByInduction
<1> QED BY <1>4 DEF G

\* The sum over two sets without a common element is the sum of their sums.
LEMMA SumOfParts ==
    ASSUME NEW S, IsFiniteSet(S), NEW w \in [S -> Int],
           NEW T \in SUBSET S, NEW P \in SUBSET T
    PROVE  Sums(S, w)[T] = Sums(S, w)[T \ P] + Sums(S, w)[P]
<1> DEFINE G == Sums(S, w)
           B == {U \in SUBSET P : G[(T \ P) \cup U] = G[T \ P] + G[U]}
<1>1. IsSum(G, S, w) /\ G \in [SUBSET S -> Int]
  BY SumsExist, SumsTyped
<1>2. ASSUME NEW U \in SUBSET S, NEW x \in U PROVE G[U] = w[x] + G[U \ {x}]
  <2> U \in SUBSET S /\ x \in U
    OBVIOUS
  <2>1. Sums(S, w)[U] = w[x] + Sums(S, w)[U \ {x}]
    BY ONLY IsFiniteSet(S), w \in [S -> Int], U \in SUBSET S, x \in U, AnyFirst
  <2> QED BY <2>1
<1> HIDE DEF G
<1>3. ASSUME NEW U \in SUBSET P, \A V \in SUBSET U : V # U => V \in B PROVE U \in B
  <2>1. CASE U = {}
    <3>1. G[{}] = 0
      BY <1>1 DEF IsSum
    <3>2. (T \ P) \cup U = T \ P /\ T \ P \in SUBSET S /\ G[T \ P] \in Int
      BY <1>1, <2>1
    <3> QED BY <2>1, <3>1, <3>2
  <2>2. CASE U # {}
    <3>1. PICK x \in U : TRUE
      BY <2>2
    <3>2. G[(T \ P) \cup (U \ {x})] = G[T \ P] + G[U \ {x}]
      <4>1. U \ {x} \in SUBSET U /\ U \ {x} # U
        OBVIOUS
      <4> QED BY <1>3, <4>1
    <3>3. G[U] = w[x] + G[U \ {x}]
      BY <1>2
    <3>4. G[(T \ P) \cup U] = w[x] + G[((T \ P) \cup U) \ {x}]
      BY <1>2
    <3>5. ((T \ P) \cup U) \ {x} = (T \ P) \cup (U \ {x})
      OBVIOUS
    <3> DEFINE l == G[T \ P]
               r == G[U \ {x}]
    <3>6. w[x] \in Int /\ l \in Int /\ r \in Int
      BY <1>1
    <3>7. G[U] = w[x] + r /\ G[(T \ P) \cup U] = w[x] + (l + r)
      BY <3>2, <3>3, <3>4, <3>5
    <3>8. G[(T \ P) \cup U] = l + G[U]
      <4> HIDE DEF l, r
      <4> QED BY <3>6, <3>7
    <3> QED BY <3>8
  <2> QED BY <2>1, <2>2
<1>4. P \in B
  <2>1. IsFiniteSet(P)
    BY FS_Subset
  <2> HIDE DEF B
  <2> QED BY <1>3, <2>1, SubsetsByInduction
<1>5. (T \ P) \cup P = T
  OBVIOUS
<1> QED BY <1>4, <1>5 DEF G

\* What no section of a set loses the whole set does not lose.
LEMMA SectionsDecide ==
    ASSUME NEW S, IsFiniteSet(S), NEW a \in [S -> Int], NEW b \in [S -> Int],
           \A v \in S : LET P == {u \in S : Section[u] = Section[v]}
                        IN  Sums(S, a)[P] >= Sums(S, b)[P]
    PROVE  Sums(S, a)[S] >= Sums(S, b)[S]
<1> DEFINE A == Sums(S, a)
           C == Sums(S, b)
           Of(v) == {u \in S : Section[u] = Section[v]}
           Whole(T) == \A v \in T : Of(v) \subseteq T
           B == {T \in SUBSET S : Whole(T) => A[T] >= C[T]}
<1>1. IsSum(A, S, a) /\ A \in [SUBSET S -> Int] /\ IsSum(C, S, b) /\ C \in [SUBSET S -> Int]
  BY SumsExist, SumsTyped
<1>2. ASSUME NEW T \in SUBSET S, NEW P \in SUBSET T
      PROVE  A[T] = A[T \ P] + A[P] /\ C[T] = C[T \ P] + C[P]
  BY SumOfParts
<1>3. \A v \in S : A[Of(v)] >= C[Of(v)]
  OBVIOUS
<1> HIDE DEF A, C
<1>4. ASSUME NEW T \in SUBSET S, \A U \in SUBSET T : U # T => U \in B, Whole(T)
      PROVE  A[T] >= C[T]
  <2>1. CASE T = {}
    <3>1. A[{}] = 0 /\ C[{}] = 0
      BY <1>1 DEF IsSum
    <3> QED BY <2>1, <3>1
  <2>2. CASE T # {}
    <3>1. PICK v \in T : TRUE
      BY <2>2
    <3>2. Of(v) \in SUBSET T /\ v \in Of(v)
      BY <1>4, <3>1
    <3>3. Whole(T \ Of(v))
      BY <1>4
    <3>4. A[T \ Of(v)] >= C[T \ Of(v)]
      BY <1>4, <3>2, <3>3
    <3>5. A[Of(v)] >= C[Of(v)]
      BY <1>3, <3>1
    <3>6. /\ A[T] = A[T \ Of(v)] + A[Of(v)]
          /\ C[T] = C[T \ Of(v)] + C[Of(v)]
      BY <1>2, <3>2
    <3>7. /\ A[T \ Of(v)] \in Int /\ A[Of(v)] \in Int
          /\ C[T \ Of(v)] \in Int /\ C[Of(v)] \in Int
      BY <1>1, <3>2
    <3> HIDE DEF Of
    <3> QED BY <3>4, <3>5, <3>6, <3>7
  <2> QED BY <2>1, <2>2
<1>5. ASSUME NEW T \in SUBSET S, \A U \in SUBSET T : U # T => U \in B PROVE T \in B
  <2> HIDE DEF Whole
  <2> QED BY <1>4, <1>5
<1>6. S \in B
  <2> HIDE DEF B
  <2> QED BY <1>5, SubsetsByInduction
<1>7. Whole(S)
  OBVIOUS
<1> QED BY <1>6, <1>7 DEF A, C

-----------------------------------------------------------------------------
(* The invariant *)

USE NaNAssumption, FrameAssumption, ParamsAssumption

\* Every cost in the state is that of the matrix beside it; the runner's parameters wait
\* for validation.
IInv ==
    /\ TypeOK
    /\ pc \in {"validate", "done"} => newCost = Cost(rgbPmat)
    /\ pc = "done" => calib.rgbPmat = rgbPmat /\ calib.cost = newCost
    /\ pc # "done" => params = Start
    /\ AdoptedNotDrifted

\* A step of any length from a matrix stays among the matrices.
LEMMA MovedTyped ==
    ASSUME rgbPmat \in Matrix, NEW s \in Int
    PROVE  Moved(s) \in Matrix
BY DEF Moved, Matrix

\* The length of a vector of integers is a natural number.
LEMMA LengthTyped ==
    ASSUME NEW x \in Int, NEW y \in Int
    PROVE  Length(x, y) \in Nat
<1> DEFINE a == Magnitude(x)
           b == Magnitude(y)
           long == IF a < b THEN b ELSE a
           steps == {n \in long + 1 .. a + b : n * n <= a * a + b * b}
<1>1. a \in Nat /\ b \in Nat /\ long \in Nat
  BY DEF Magnitude
<1> HIDE DEF a, b, long
<1>2. IsFiniteSet(long + 1 .. a + b)
  BY <1>1, FS_Interval
<1>3. Cardinality(steps) \in Nat
  BY <1>2, FS_Subset, FS_CardinalityType
<1>4. Length(x, y) = long + Cardinality(steps)
  BY DEF Length, long, a, b
<1> HIDE DEF steps
<1> QED BY <1>1, <1>3, <1>4

\* The mean movement of any matrix is an integer.
LEMMA MovementTyped ==
    ASSUME at \in Places, k1 \in Coefficients, NEW m \in Int
    PROVE  Movement(m) \in Int
<1> DEFINE far(v) == Length(Uv(v, m)[1] - Uv(v, Start)[1], Uv(v, m)[2] - Uv(v, Start)[2])
           w == [v \in Vertices |-> far(v)]
<1>1. ASSUME NEW v \in Vertices, NEW n \in Int
      PROVE  Uv(v, n)[1] \in Int /\ Uv(v, n)[2] \in Int
  <2> DEFINE x == at[v][1] + n
             y == at[v][2]
             rc == Unit + k1 * (x * x + y * y)
  <2>1. x \in Int /\ y \in Int /\ k1 \in Int /\ Unit \in Int
    BY LensAssumption
  <2> HIDE DEF x, y
  <2>2. x * rc \in Int /\ y * rc \in Int
    BY <2>1
  <2>3. Uv(v, n) = <<x * rc, y * rc>>
    BY DEF Uv, x, y
  <2> HIDE DEF rc
  <2> QED BY <2>2, <2>3
<1>2. ASSUME NEW v \in Vertices PROVE far(v) \in Int
  <2>1. /\ Uv(v, m)[1] - Uv(v, Start)[1] \in Int
        /\ Uv(v, m)[2] - Uv(v, Start)[2] \in Int
    BY <1>1 DEF Start
  <2> QED BY <2>1, LengthTyped
<1> HIDE DEF far
<1>3. w \in [Vertices -> Int]
  BY <1>2
<1>4. w = [v \in Vertices |-> w[v]]
  OBVIOUS
<1>5. Movement(m) = SumOver(w) \div Cardinality(Vertices)
  BY DEF Movement, far
<1> HIDE DEF w
<1>6. SumOver(w) = Sums(Vertices, w)[Vertices]
  BY <1>4, FoldIsSum
<1>7. SumOver(w) \in Int
  <2>1. Sums(Vertices, w) \in [SUBSET Vertices -> Int]
    BY <1>3, SumsTyped
  <2> QED BY <1>6, <2>1
<1>8. Cardinality(Vertices) \in Nat \ {0}
  BY FS_CardinalityType, FS_EmptySet
<1> QED BY <1>5, <1>7, <1>8

\* Clipping leaves a matrix; the movement that is divided by exceeds the limit.
LEMMA ClippedTyped ==
    ASSUME rgbPmat \in Matrix, at \in Places, k1 \in Coefficients
    PROVE  Clipped \in Matrix
<1>1. CASE rgbPmat = NaN
  BY <1>1 DEF Clipped, Matrix
<1>2. CASE rgbPmat # NaN
  <2> DEFINE far == Movement(rgbPmat)
  <2>1. rgbPmat \in Int /\ far \in Int
    BY <1>2, MovementTyped DEF Matrix
  <2>2. CASE far <= MaxMovement
    BY <2>1, <2>2 DEF Clipped, Matrix
  <2>3. CASE ~(far <= MaxMovement)
    <3>1. Clipped = Start + ((rgbPmat - Start) * MaxMovement) \div far
      BY <1>2, <2>3 DEF Clipped
    <3> HIDE DEF far
    <3>2. far \in Nat \ {0} /\ (rgbPmat - Start) * MaxMovement \in Int
      BY <2>1, <2>3 DEF Start
    <3> QED BY <3>1, <3>2 DEF Start, Matrix
  <2> QED BY <2>2, <2>3
<1> QED BY <1>1, <1>2

LEMMA InitInv == Init => IInv
<1> SUFFICES ASSUME Init PROVE IInv
  OBVIOUS
<1>1. 0 \in 0 .. MaxOptimizationIters /\ 0 \in 0 .. MaxStep /\ 0 \in 0 .. MaxBackTrackIters
      /\ 0 < MaxOptimizationIters
  OBVIOUS
<1>2. pc = "gradient" /\ D \in Images /\ at \in Places /\ k1 \in Coefficients /\ validParams \in BOOLEAN
  BY DEF Init
<1>3. rgbPmat \in Matrix /\ paramsNew \in Matrix /\ params \in Matrix
  BY DEF Init, Matrix, Start
<1>4. iterCount = 0 /\ stepSize = 0 /\ tries = 0
  BY DEF Init
<1>5. TypeOK
  BY <1>1, <1>2, <1>3, <1>4 DEF TypeOK
<1> QED BY <1>5 DEF Init, IInv, AdoptedNotDrifted

LEMMA NextInv == IInv /\ [Next]_vars => IInv'
<1> SUFFICES ASSUME IInv, [Next]_vars PROVE IInv'
  OBVIOUS
<1> USE DEF IInv
<1>1. CASE Gradient
  <2>1. iterCount' \in 0 .. MaxOptimizationIters
    BY <1>1 DEF Gradient, CountAfter, TypeOK
  <2>2. paramsNew' \in Matrix
    BY <1>1, MovedTyped DEF Gradient, TypeOK
  <2>3. TypeOK'
    BY <1>1, <2>1, <2>2 DEF Gradient, TypeOK, frame
  <2>4. (params = Start /\ AdoptedNotDrifted)'
    BY <1>1 DEF Gradient, AdoptedNotDrifted
  <2> QED BY <1>1, <2>3, <2>4 DEF Gradient
<1>2. CASE Backtrack
  <2>1. stepSize' \in 0 .. MaxStep /\ tries' \in 0 .. MaxBackTrackIters
    BY <1>2 DEF Backtrack, SearchGoesOn, TypeOK
  <2>2. paramsNew' \in Matrix
    <3>1. paramsNew' = Moved(stepSize') /\ stepSize' \in Int
      BY <1>2, <2>1 DEF Backtrack
    <3> QED BY <3>1, MovedTyped DEF TypeOK
  <2>3. pc' \in {"search", "error"}
    BY <1>2 DEF Backtrack
  <2>4. TypeOK'
    BY <1>2, <2>1, <2>2, <2>3 DEF Backtrack, TypeOK, frame
  <2>5. (params = Start /\ AdoptedNotDrifted)'
    BY <1>2 DEF Backtrack, AdoptedNotDrifted
  <2> QED BY <2>3, <2>4, <2>5
<1>3. CASE EndIteration
  <2>1. pc' \in {"gradient", "validate"} /\ (pc' = "gradient" => iterCount < MaxOptimizationIters)
    BY <1>3 DEF EndIteration, TypeOK
  <2>2. rgbPmat' \in Matrix
    BY <1>3 DEF EndIteration, TypeOK
  <2>3. TypeOK'
    BY <1>3, <2>1, <2>2 DEF EndIteration, TypeOK, frame
  <2>4. newCost' = Cost(rgbPmat)'
    <3>1. newCost' = Cost(rgbPmat') /\ D' = D /\ at' = at /\ k1' = k1
      BY <1>3 DEF EndIteration, CostFound, frame
    <3>2. Cost(rgbPmat') = Cost(rgbPmat)'
      BY ONLY <3>1 DEF Cost, Mean, Total, Inside, Pixel, Uv
    <3> QED BY <3>1, <3>2
  <2>5. (params = Start /\ AdoptedNotDrifted)'
    BY <1>3 DEF EndIteration, AdoptedNotDrifted
  <2> QED BY <2>1, <2>3, <2>4, <2>5
<1>4. CASE Validate
  <2>1. Clipped \in Matrix
    BY ClippedTyped DEF TypeOK
  <2>2. pc' = "done" /\ validParams' \in BOOLEAN /\ (validParams' => ~Drifted(Clipped))
        /\ params' = IF validParams' THEN Clipped ELSE Start
    BY <1>4 DEF Validate
  <2>3. TypeOK'
    BY <1>4, <2>1, <2>2 DEF Validate, TypeOK, frame, Matrix, Start
  <2>4. newCost' = Cost(rgbPmat)'
    BY <1>4 DEF Validate, frame, Cost, Mean, Total, Inside, Pixel, Uv
  <2>5. calib'.rgbPmat = rgbPmat' /\ calib'.cost = newCost'
    BY <1>4 DEF Validate
  <2>6. AdoptedNotDrifted'
    <3> SUFFICES ASSUME params' \notin {NaN, Start}
                 PROVE  validParams' /\ (Movement(params) <= MaxFromOrigin)'
      BY DEF AdoptedNotDrifted
    <3>1. validParams' /\ params' = Clipped /\ Clipped # NaN
      BY <2>2
    <3>2. Clipped \in Int /\ at \in Places /\ k1 \in Coefficients
      BY <2>1, <3>1 DEF Matrix, TypeOK
    <3>3. Movement(Clipped) \in Int /\ ~(Movement(Clipped) > MaxFromOrigin)
      BY <2>2, <3>1, <3>2, MovementTyped DEF Drifted
    <3>4. Movement(params)' = Movement(Clipped)
      BY <1>4, <3>1 DEF Validate, frame, Movement, Uv
    <3> QED BY <3>1, <3>3, <3>4
  <2> QED BY <2>2, <2>3, <2>4, <2>5, <2>6
<1>5. CASE UNCHANGED vars
  <2>1. Cost(rgbPmat)' = Cost(rgbPmat)
    BY <1>5 DEF vars, frame, Cost, Mean, Total, Inside, Pixel, Uv
  <2>2. Movement(params)' = Movement(params)
    BY <1>5 DEF vars, frame, Movement, Uv
  <2>3. TypeOK' /\ AdoptedNotDrifted'
    BY <1>5, <2>2 DEF vars, frame, TypeOK, AdoptedNotDrifted
  <2> QED BY <1>5, <2>1, <2>3 DEF vars
<1> QED BY <1>1, <1>2, <1>3, <1>4, <1>5 DEF Next, Ended

LEMMA SpecInv == Spec => []IInv
BY InitInv, NextInv, PTL DEF Spec

\* The optimiser and the runner are well typed for every image and every start.
THEOREM TypeCorrect == Spec => []TypeOK
<1>1. IInv => TypeOK
  BY DEF IInv
<1> QED BY SpecInv, <1>1, PTL

\* The file new_calib pairs a matrix with its own cost.
THEOREM WrittenCostMatches == Spec => []CalibCostMatches
<1>1. IInv => CalibCostMatches
  BY DEF IInv, CalibCostMatches
<1> QED BY SpecInv, <1>1, PTL

\* Adopted parameters that are numbers are within the drift through any lens, although the
\* clip is exact through none that bends.
THEOREM AdoptedWithinDrift == Spec => []AdoptedNotDrifted
<1>1. IInv => AdoptedNotDrifted
  BY DEF IInv
<1> QED BY SpecInv, <1>1, PTL

-----------------------------------------------------------------------------
(* Adopted parameters score no worse *)

\* The total over vertices that a matrix has in the image is the sum of their scores.
LEMMA TotalIsSum ==
    ASSUME D \in Images, NEW m, NEW S \in SUBSET Inside(m), NEW P \in SUBSET S
    PROVE  LET w == [v \in S |-> D[Pixel(v, m)]]
           IN  /\ IsFiniteSet(S) /\ w \in [S -> Int]
               /\ Total(P, m) = Sums(S, w)[P] /\ Sums(S, w)[P] \in Int
<1> DEFINE w == [v \in S |-> D[Pixel(v, m)]]
<1>1. IsFiniteSet(S)
  BY FS_Subset DEF Inside
<1>2. w \in [S -> Int]
  BY DEF Inside
<1>3. [v \in P |-> D[Pixel(v, m)]] = [v \in P |-> w[v]]
  OBVIOUS
<1>4. Total(P, m) = SumOver([v \in P |-> w[v]])
  BY <1>3 DEF Total
<1> HIDE DEF w
<1>5. SumOver([v \in P |-> w[v]]) = Sums(S, w)[P]
  BY <1>1, FoldIsSum
<1>6. Sums(S, w)[P] \in Int
  <2>1. Sums(S, w) \in [SUBSET S -> Int]
    BY <1>1, <1>2, SumsTyped
  <2> QED BY <2>1
<1> QED BY <1>1, <1>2, <1>4, <1>5, <1>6 DEF w

\* The check by sections covers the whole: if none hurts, nothing is lost in total.
LEMMA NoneHurtsNoLoss ==
    ASSUME D \in Images, \A v \in Vertices : ~Hurts(Clipped, Section[v])
    PROVE  Total(Measured(Clipped), Clipped) >= Total(Measured(Clipped), params)
<1> DEFINE S == Measured(Clipped)
           a == [v \in S |-> D[Pixel(v, Clipped)]]
           b == [v \in S |-> D[Pixel(v, params)]]
           Of(v) == {u \in S : Section[u] = Section[v]}
<1>1. S \in SUBSET Inside(Clipped) /\ S \in SUBSET Inside(params) /\ S \subseteq Vertices
  BY DEF Measured, Inside
<1> HIDE DEF S
<1>2. ASSUME NEW P \in SUBSET S
      PROVE  /\ IsFiniteSet(S) /\ a \in [S -> Int] /\ b \in [S -> Int]
             /\ Total(P, Clipped) = Sums(S, a)[P] /\ Sums(S, a)[P] \in Int
             /\ Total(P, params) = Sums(S, b)[P] /\ Sums(S, b)[P] \in Int
  <2>1. /\ IsFiniteSet(S) /\ a \in [S -> Int]
        /\ Total(P, Clipped) = Sums(S, a)[P] /\ Sums(S, a)[P] \in Int
    BY <1>1, TotalIsSum
  <2>2. /\ b \in [S -> Int]
        /\ Total(P, params) = Sums(S, b)[P] /\ Sums(S, b)[P] \in Int
    <3>1. S \in SUBSET Inside(params)
      BY <1>1
    <3> QED BY ONLY FrameAssumption, D \in Images, <3>1, P \in SUBSET S, TotalIsSum
  <2> QED BY <2>1, <2>2
<1>3. ASSUME NEW v \in S PROVE Sums(S, a)[Of(v)] >= Sums(S, b)[Of(v)]
  <2>1. Of(v) \in SUBSET S /\ Of(v) # {}
    OBVIOUS
  <2>2. ~(Total(Of(v), Clipped) < Total(Of(v), params))
    <3>1. ~Hurts(Clipped, Section[v])
      BY <1>1
    <3>2. Of(v) = {u \in Measured(Clipped) : Section[u] = Section[v]}
      BY DEF S
    <3> QED BY <2>1, <3>1, <3>2 DEF Hurts
  <2> HIDE DEF Of, a, b
  <2> QED BY <1>2, <2>1, <2>2
<1>4. IsFiniteSet(S) /\ a \in [S -> Int] /\ b \in [S -> Int]
  BY <1>2
<1>5. Sums(S, a)[S] >= Sums(S, b)[S]
  <2> HIDE DEF a, b
  <2> QED BY <1>3, <1>4, SectionsDecide
<1>6. Total(S, Clipped) = Sums(S, a)[S] /\ Total(S, params) = Sums(S, b)[S]
  BY <1>2
<1> QED BY <1>5, <1>6 DEF S

LEMMA ScoreStep == IInv /\ ValidNotWorse /\ [Next]_vars => ValidNotWorse'
<1> SUFFICES ASSUME IInv, ValidNotWorse, [Next]_vars PROVE ValidNotWorse'
  OBVIOUS
<1>1. CASE Gradient \/ Backtrack \/ EndIteration
  BY <1>1 DEF Gradient, Backtrack, EndIteration, ValidNotWorse
<1>2. CASE Validate
  <2> SUFFICES ASSUME validParams'
               PROVE  (Total(Measured(params) \cap Inside(Start), params)
                          >= Total(Measured(params) \cap Inside(Start), Start))'
    BY DEF ValidNotWorse
  <2>1. /\ params = Start /\ params' = Clipped /\ at' = at /\ k1' = k1 /\ D' = D
        /\ D \in Images
        /\ \A v \in Vertices : ~Hurts(Clipped, Section[v])
    BY <1>2 DEF Validate, IInv, TypeOK, frame
  <2>2. (Measured(params) \cap Inside(Start))' = Measured(Clipped)
    BY <2>1 DEF Measured, Inside, Pixel, Uv
  <2>3. Total(Measured(Clipped), Clipped) >= Total(Measured(Clipped), Start)
    BY <2>1, NoneHurtsNoLoss
  <2>4. Total(Measured(params) \cap Inside(Start), params)' = Total(Measured(Clipped), Clipped)
    BY ONLY <2>1, <2>2 DEF Total, Pixel, Uv
  <2>5. Total(Measured(params) \cap Inside(Start), Start)' = Total(Measured(Clipped), Start)
    BY ONLY <2>1, <2>2 DEF Total, Pixel, Uv, Start
  <2> QED BY <2>3, <2>4, <2>5
<1>3. CASE UNCHANGED vars
  <2>1. params' = params /\ pc' = pc /\ validParams' = validParams
        /\ at' = at /\ k1' = k1 /\ D' = D
    BY <1>3 DEF vars, frame
  <2> DEFINE S == Measured(params) \cap Inside(Start)
  <2>2. S' = S
    BY ONLY <2>1 DEF Measured, Inside, Pixel, Uv, Start
  <2>3. Total(S, params)' = Total(S, params) /\ Total(S, Start)' = Total(S, Start)
    <3> HIDE DEF S
    <3> QED BY ONLY <2>1, <2>2 DEF Total, Pixel, Uv, Start
  <2> QED BY <2>1, <2>3 DEF ValidNotWorse
<1> QED BY <1>1, <1>2, <1>3 DEF Next, Ended

\* Parameters that are adopted score no worse in total than those before, although only
\* the sections were compared, and only after the clip.
THEOREM AdoptedNotWorse == Spec => []ValidNotWorse
<1>1. Init => ValidNotWorse
  BY DEF Init, ValidNotWorse
<1> QED BY SpecInv, <1>1, ScoreStep, PTL DEF Spec

-----------------------------------------------------------------------------
(* The optimiser ends *)

\* Steps that are left, NaN or not: an iteration takes one for the gradient, one for
\* each time the step is halved and one to end.
PerIteration == MaxBackTrackIters + 2
Remaining ==
    CASE pc = "gradient" -> (MaxOptimizationIters - iterCount) * PerIteration + 1
      [] pc = "search" -> (MaxOptimizationIters - iterCount) * PerIteration + 2
                              + (MaxBackTrackIters - tries)
      [] pc = "validate" -> 1
      [] OTHER -> 0

LEMMA ProductTyped ==
    ASSUME NEW n \in Nat
    PROVE  /\ PerIteration \in Nat /\ n * PerIteration \in Nat
           /\ n > 0 => n * PerIteration = (n - 1) * PerIteration + PerIteration
                       /\ (n - 1) * PerIteration \in Nat
<1>1. PerIteration \in Nat
  BY DEF PerIteration
<1>2. ASSUME NEW p \in Nat
      PROVE  n * p \in Nat /\ (n > 0 => n * p = (n - 1) * p + p)
  OBVIOUS
<1>3. ASSUME NEW p \in Nat, NEW m \in Nat
      PROVE  m * p \in Nat
  OBVIOUS
<1>4. n > 0 => n - 1 \in Nat
  OBVIOUS
<1> QED BY <1>1, <1>2, <1>3, <1>4, Zenon

LEMMA RemainingIsNat == IInv => Remaining \in Nat
<1> SUFFICES ASSUME IInv PROVE Remaining \in Nat
  OBVIOUS
<1>1. /\ MaxOptimizationIters - iterCount \in Nat /\ MaxBackTrackIters - tries \in Nat
  BY DEF IInv, TypeOK
<1>2. (MaxOptimizationIters - iterCount) * PerIteration \in Nat
  BY <1>1, ProductTyped
<1> HIDE DEF PerIteration
<1> QED BY <1>1, <1>2 DEF Remaining

LEMMA RemainingShrinks ==
    ASSUME IInv, Gradient \/ Backtrack \/ EndIteration \/ Validate
    PROVE  Remaining' < Remaining
<1> DEFINE n == MaxOptimizationIters - iterCount
           l == n * PerIteration
           t == MaxBackTrackIters - tries
<1>1. n \in Nat /\ t \in Nat /\ l \in Nat /\ PerIteration = MaxBackTrackIters + 2
  BY ProductTyped DEF IInv, TypeOK, PerIteration
<1>2. CASE Gradient
  <2>1. n > 0 /\ pc = "gradient" /\ pc' = "search" /\ tries' = 0 /\ iterCount' = iterCount + 1
    BY <1>2 DEF Gradient, CountAfter, IInv, TypeOK
  <2>2. MaxOptimizationIters - iterCount' = n - 1
    BY <2>1 DEF IInv, TypeOK
  <2>3. l = (n - 1) * PerIteration + PerIteration /\ (n - 1) * PerIteration \in Nat
    <3>1. n \in Nat /\ n > 0
      BY <1>1, <2>1
    <3> HIDE DEF n
    <3> QED BY <3>1, ProductTyped, Zenon
  <2>4. Remaining = l + 1
    BY <2>1 DEF Remaining
  <2>5. Remaining' = (n - 1) * PerIteration + 2 + (MaxBackTrackIters - 0)
    BY <2>1, <2>2 DEF Remaining
  <2> DEFINE r == (n - 1) * PerIteration
  <2> HIDE DEF n, l, t, r
  <2>6. r \in Nat /\ l = r + (MaxBackTrackIters + 2) /\ Remaining = l + 1
        /\ Remaining' = r + 2 + (MaxBackTrackIters - 0)
    BY <1>1, <2>3, <2>4, <2>5 DEF r
  <2> QED BY <2>6
<1>3. CASE Backtrack
  <2>1. pc = "search" /\ pc' \in {"search", "error"}
    BY <1>3 DEF Backtrack
  <2>2. tries' = tries + 1 /\ iterCount' = iterCount /\ tries \in Nat
    BY <1>3 DEF Backtrack, IInv, TypeOK
  <2>3. Remaining = l + 2 + t
    BY <2>1 DEF Remaining
  <2>4. Remaining' = l + 2 + (t - 1) \/ Remaining' = 0
    BY <2>1, <2>2 DEF Remaining
  <2> HIDE DEF n, l, t
  <2> QED BY <1>1, <2>3, <2>4
<1>4. CASE EndIteration
  <2>1. pc = "search" /\ pc' \in {"gradient", "validate"} /\ iterCount' = iterCount
    BY <1>4 DEF EndIteration
  <2>2. Remaining = l + 2 + t
    BY <2>1 DEF Remaining
  <2>3. Remaining' = l + 1 \/ Remaining' = 1
    BY <2>1 DEF Remaining
  <2> HIDE DEF n, l, t
  <2> QED BY <1>1, <2>2, <2>3
<1>5. CASE Validate
  <2>1. Remaining = 1 /\ Remaining' = 0
    BY <1>5 DEF Validate, Remaining
  <2> QED BY <2>1
<1> QED BY <1>2, <1>3, <1>4, <1>5

\* Every step of the optimiser and the runner leaves fewer steps to be taken, a natural
\* number, also when NaN keeps both criteria from being met.
THEOREM EndsInBoundedSteps ==
    Spec => [](Remaining \in Nat) /\ [][Remaining' < Remaining]_vars
<1>1. IInv /\ [Next]_vars => [Remaining' < Remaining]_vars
  BY RemainingShrinks DEF Next, Ended
<1> QED BY SpecInv, <1>1, RemainingIsNat, PTL DEF Spec
=============================================================================
