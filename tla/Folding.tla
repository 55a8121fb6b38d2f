------------------------------ MODULE Folding ------------------------------
(***************************************************************************)
(* The folds of the community modules, for proofs.  FoldSet and FoldLeft   *)
(* apply an operation once per element, and both unfold to one recursive   *)
(* function on the subsets of what they fold over: Iteration.  A module    *)
(* that folds instantiates this one with its operation for Op and the      *)
(* order in which elements are taken for Choose, and has what the fold     *)
(* preserves from Keeps.  p stands for what the operation depends on       *)
(* beside the element and the result so far.  That an interval is Grounded *)
(* needs the library's theorems on finite sets; each of the modules that   *)
(* instantiate this one proves it once and supplies it as a hypothesis,    *)
(* so that no instance carries a copy of those theorems.                   *)
(***************************************************************************)
EXTENDS Integers, FiniteSetsExt, TLAPS

CONSTANTS Op(_, _, _),   \* Op(p, x, d): x applied to the result d of the rest
          Choose(_)      \* the element of a set that is applied last

(* The equation of the fold of S. *)
Iteration(p, base, S, g) ==
  [s \in SUBSET S |-> IF s = {} THEN base ELSE Op(p, Choose(s), g[s \ {Choose(s)}])]

(* Its solution. *)
Fold(p, base, S) == CHOOSE g : g = Iteration(p, base, S, g)

(* Every family of subsets of S has a minimal member: S is finite. *)
Grounded(S) ==
  \A C \in SUBSET (SUBSET S) : C # {} => \E X \in C : \A Y \in C : Y \subseteq X => Y = X

(* A choice picks a member. *)
Chooses(S) == \A X \in SUBSET S : X # {} => Choose(X) \in X

(* The equation of a fold has a solution: a smallest subset without one    *)
(* could extend those of its parts, which agree.                           *)
LEMMA Solved ==
  ASSUME NEW p, NEW base, NEW S, Grounded(S), Chooses(S)
  PROVE  Fold(p, base, S) = Iteration(p, base, S, Fold(p, base, S))
<1> DEFINE Upto(X, g) ==
             g = [s \in SUBSET X |-> IF s = {} THEN base ELSE Op(p, Choose(s), g[s \ {Choose(s)}])]
           C == {X \in SUBSET S : ~ \E g : Upto(X, g)}
<1>0. SUFFICES C = {}
  <2>1. C = {} => \E g : Upto(S, g)
    OBVIOUS
  <2>2. \A g : Upto(S, g) <=> g = Iteration(p, base, S, g)
    BY DEF Iteration
  <2> HIDE DEF C, Upto
  <2> QED
    BY <2>1, <2>2 DEF Fold
<1>1. SUFFICES ASSUME C # {} PROVE FALSE
  OBVIOUS
<1>2. PICK X \in C : \A Y \in C : Y \subseteq X => Y = X
  <2>1. C \in SUBSET (SUBSET S)
    OBVIOUS
  <2> HIDE DEF C
  <2> QED
    BY <1>1, <2>1 DEF Grounded
<1> DEFINE sol(Y) == CHOOSE g : Upto(Y, g)
<1>3. \A Y \in SUBSET X : Y # X => Upto(Y, sol(Y))
  <2> TAKE Y \in SUBSET X
  <2> HAVE Y # X
  <2>1. \E g : Upto(Y, g)
    BY <1>2
  <2> HIDE DEF Upto
  <2> QED
    BY <2>1
<1>4. ASSUME NEW Y \in SUBSET X, NEW Z \in SUBSET X, NEW g, NEW h, Upto(Y, g), Upto(Z, h)
      PROVE  \A s \in SUBSET X : s \subseteq Y /\ s \subseteq Z => g[s] = h[s]
  <2> DEFINE D == {s \in SUBSET X : s \subseteq Y /\ s \subseteq Z /\ g[s] # h[s]}
  <2> SUFFICES ASSUME D # {} PROVE FALSE
    OBVIOUS
  <2>1. D \in SUBSET (SUBSET S)
    OBVIOUS
  <2>2. PICK s \in D : \A t \in D : t \subseteq s => t = s
    BY <2>1 DEF Grounded
  <2>3. s # {}
    BY <1>4
  <2> DEFINE x == Choose(s)  t == s \ {x}
  <2>4. x \in s
    BY <2>3 DEF Chooses
  <2>5. g[s] = Op(p, x, g[t])
    BY <1>4, <2>3
  <2>6. h[s] = Op(p, x, h[t])
    BY <1>4, <2>3
  <2>7. t \subseteq s /\ t # s /\ t \in SUBSET X /\ t \subseteq Y /\ t \subseteq Z
    BY <2>4
  <2>8. g[t] = h[t]
    BY <2>2, <2>7
  <2> QED
    BY <2>5, <2>6, <2>8
<1> DEFINE all == [s \in SUBSET X |-> IF s = {} THEN base
                     ELSE Op(p, Choose(s), sol(s \ {Choose(s)})[s \ {Choose(s)}])]
<1>5. ASSUME NEW s \in SUBSET X, s # {}
      PROVE  sol(s \ {Choose(s)})[s \ {Choose(s)}] = all[s \ {Choose(s)}]
  <2> DEFINE x == Choose(s)  t == s \ {x}
  <2>1. x \in s
    BY <1>5 DEF Chooses
  <2>2. t \in SUBSET X /\ t # X
    BY <2>1
  <2>3. Upto(t, sol(t))
    BY <2>2, <1>3
  <2> HIDE DEF sol
  <2>4. CASE t = {}
    <3>1. sol(t)[t] = base
      BY <2>3, <2>4
    <3>2. all[t] = base
      BY <2>4
    <3> HIDE DEF all
    <3> QED
      BY <3>1, <3>2
  <2>5. CASE t # {}
    <3> DEFINE y == Choose(t)  u == t \ {y}
    <3>1. y \in t
      BY <2>2, <2>5 DEF Chooses
    <3>2. u \in SUBSET X /\ u # X /\ u \subseteq t
      BY <3>1, <2>2
    <3>3. sol(t)[t] = Op(p, y, sol(t)[u])
      BY <2>3, <2>5
    <3>4. all[t] = Op(p, y, sol(u)[u])
      BY <2>2, <2>5
    <3>5. Upto(u, sol(u))
      BY <3>2, <1>3
    <3> HIDE DEF y, all, Upto, u, t, sol
    <3>6. sol(t)[u] = sol(u)[u]
      BY <3>2, <2>2, <2>3, <3>5, <1>4
    <3>7. sol(t)[t] = all[t]
      BY <3>3, <3>4, <3>6
    <3> QED
      BY <3>7 DEF t
  <2> QED
    BY <2>4, <2>5
<1>6. Upto(X, all)
  <2> HIDE DEF sol
  <2> QED
    BY <1>5
<1> QED
  BY <1>2, <1>6

(* The invariant of a fold.  G says, for each part of S that the fold goes *)
(* through (Parts), where its result may be: if the base is right for {},  *)
(* and the last application for every part whose rest is right, the fold   *)
(* of S is.                                                                *)
LEMMA Keeps ==
  ASSUME NEW p, NEW base, NEW S, Grounded(S), Chooses(S),
         NEW Parts \in SUBSET (SUBSET S), S \in Parts, NEW G,
         \A X \in Parts : X = {} => base \in G[X],
         \A X \in Parts : X # {} =>
           /\ X \ {Choose(X)} \in Parts
           /\ \A d \in G[X \ {Choose(X)}] : Op(p, Choose(X), d) \in G[X]
  PROVE  Fold(p, base, S)[S] \in G[S]
<1> DEFINE g == Fold(p, base, S)
           C == {X \in Parts : g[X] \notin G[X]}
<1>0. g = Iteration(p, base, S, g)
  BY Solved
<1> HIDE DEF g
<1>1. SUFFICES ASSUME C # {} PROVE FALSE
  BY DEF g
<1>2. PICK X \in C : \A Y \in C : Y \subseteq X => Y = X
  <2>1. C \in SUBSET (SUBSET S)
    OBVIOUS
  <2> HIDE DEF C
  <2> QED
    BY <1>1, <2>1 DEF Grounded
<1>3. CASE X = {}
  <2>1. g[X] = base
    BY <1>0, <1>3 DEF Iteration
  <2> QED
    BY <1>2, <1>3, <2>1
<1>4. CASE X # {}
  <2> DEFINE x == Choose(X)  Y == X \ {x}
  <2>1. x \in X
    BY <1>2, <1>4 DEF Chooses
  <2>2. Y \in Parts /\ Y \subseteq X /\ Y # X
    BY <1>2, <1>4, <2>1
  <2>3. g[X] = Op(p, x, g[Y])
    BY <1>0, <1>2, <1>4 DEF Iteration
  <2>4. g[Y] \in G[Y]
    BY <2>2, <1>2
  <2>5. Op(p, x, g[Y]) \in G[X]
    BY <1>2, <1>4, <2>4
  <2> QED
    BY <1>2, <2>3, <2>5
<1> QED
  BY <1>3, <1>4
-----------------------------------------------------------------------------
(* FoldLeft takes the positions of a sequence by Max: 1 .. n for some n,    *)
(* whose first parts are the segments 1 .. i.                              *)
Segments(n) == {1 .. i : i \in 0 .. n}

(* Some members of an interval have a greatest and a least one.            *)
LEMMA Ends ==
  ASSUME NEW m \in Int, NEW n \in Int, Grounded(m .. n), NEW X \in SUBSET (m .. n), X # {}
  PROVE  /\ Max(X) \in X /\ \A y \in X : Max(X) >= y
         /\ Min(X) \in X /\ \A y \in X : Min(X) <= y
<1> DEFINE Topped(Z) == \E k \in Z : \A y \in Z : k >= y
           Based(Z) == \E k \in Z : \A y \in Z : k <= y
           C == {Z \in SUBSET (m .. n) : Z # {} /\ ~(Topped(Z) /\ Based(Z))}
<1>1. /\ Topped(X) => Max(X) \in X /\ \A y \in X : Max(X) >= y
      /\ Based(X) => Min(X) \in X /\ \A y \in X : Min(X) <= y
  BY DEF Max, Min
<1>2. SUFFICES ASSUME C # {} PROVE FALSE
  BY <1>1
<1>3. PICK Z \in C : \A Y \in C : Y \subseteq Z => Y = Z
  <2>1. C \in SUBSET (SUBSET (m .. n))
    OBVIOUS
  <2> HIDE DEF C
  <2> QED
    BY <1>2, <2>1 DEF Grounded
<1>4. PICK x \in Z : TRUE
  BY <1>3
<1> DEFINE Y == Z \ {x}
<1>5. Y = {} \/ (Topped(Y) /\ Based(Y))
  <2>1. Y \in SUBSET (m .. n) /\ Y \subseteq Z /\ Y # Z
    BY <1>3, <1>4
  <2> HIDE DEF Topped, Based, Y
  <2> QED
    BY <1>3, <2>1
<1>6. \A y \in Z : y \in Int
  BY <1>3
<1>7. CASE Y = {}
  BY <1>3, <1>4, <1>6, <1>7
<1>8. CASE Topped(Y) /\ Based(Y)
  <2>1. PICK t \in Y : \A y \in Y : t >= y
    BY <1>8
  <2>2. PICK b \in Y : \A y \in Y : b <= y
    BY <1>8
  <2>3. \A y \in Z : y \in Y \/ y = x
    OBVIOUS
  <2>4. Topped(Z)
    <3>1. CASE t >= x
      BY <2>1, <2>3, <3>1
    <3>2. CASE x >= t
      <4>1. \A y \in Z : x >= y
        BY <1>4, <1>6, <2>1, <2>3, <3>2
      <4> QED
        BY <4>1
    <3> QED
      BY <1>4, <1>6, <2>1, <3>1, <3>2
  <2>5. Based(Z)
    <3>1. CASE b <= x
      BY <2>2, <2>3, <3>1
    <3>2. CASE x <= b
      <4>1. \A y \in Z : x <= y
        BY <1>4, <1>6, <2>2, <2>3, <3>2
      <4> QED
        BY <4>1
    <3> QED
      BY <1>4, <1>6, <2>2, <3>1, <3>2
  <2> QED
    BY <1>3, <2>4, <2>5
<1> QED
  BY <1>5, <1>7, <1>8

(* The segments: all of it, none of it, and each ends with its last one.   *)
LEMMA SegmentsInOrder ==
  ASSUME NEW n \in Nat, Grounded(1 .. n)
  PROVE  /\ Segments(n) \in SUBSET (SUBSET (1 .. n)) /\ 1 .. n \in Segments(n) /\ {} \in Segments(n)
         /\ \A X \in Segments(n) : X # {} =>
              \E i \in 1 .. n : /\ Max(X) = i /\ X = 1 .. i
                                /\ X \ {i} = 1 .. i - 1 /\ X \ {i} \in Segments(n)
<1>1. Segments(n) \in SUBSET (SUBSET (1 .. n)) /\ 1 .. n \in Segments(n)
  BY DEF Segments
<1>2. {} \in Segments(n)
  BY DEF Segments
<1>3. ASSUME NEW X \in Segments(n), X # {}
      PROVE  \E i \in 1 .. n : /\ Max(X) = i /\ X = 1 .. i
                               /\ X \ {i} = 1 .. i - 1 /\ X \ {i} \in Segments(n)
  <2>1. PICK i \in 0 .. n : X = 1 .. i
    BY <1>3 DEF Segments
  <2>2. i \in 1 .. n /\ i \in X
    BY <1>3, <2>1
  <2>3. Max(X) \in X /\ Max(X) >= i
    <3>1. X \in SUBSET (1 .. n) /\ 1 \in Int /\ n \in Int
      BY <1>1
    <3> QED
      BY <2>2, <3>1, Ends
  <2>4. Max(X) = i
    BY <2>1, <2>3
  <2>5. X \ {i} = 1 .. i - 1 /\ i - 1 \in 0 .. n
    BY <2>1, <2>2
  <2> QED
    BY <2>1, <2>2, <2>4, <2>5 DEF Segments
<1> QED
  BY <1>1, <1>2, <1>3

(* The invariant of a fold of a sequence: the base is in H[0], and the     *)
(* application at position i takes what is in H[i - 1] into H[i].          *)
LEMMA InOrder ==
  ASSUME NEW p, NEW base, NEW n \in Nat, Grounded(1 .. n),
         \A X \in SUBSET (1 .. n) : X # {} => Choose(X) \in X /\ \A y \in X : Choose(X) >= y,
         NEW H, base \in H[0],
         \A i \in 1 .. n : \A d \in H[i - 1] : Op(p, i, d) \in H[i]
  PROVE  Fold(p, base, 1 .. n)[1 .. n] \in H[n]
<1> DEFINE last(X) == IF X = {} THEN 0 ELSE Max(X)
           S == 1 .. n
           Parts == Segments(n)
           G == [X \in Parts |-> H[last(X)]]
<1>1. /\ Parts \in SUBSET (SUBSET S) /\ S \in Parts /\ {} \in Parts
      /\ \A X \in Parts : X # {} =>
           \E i \in 1 .. n : /\ Max(X) = i /\ X = 1 .. i
                             /\ X \ {i} = 1 .. i - 1 /\ X \ {i} \in Parts
  BY SegmentsInOrder
<1>2. \A X \in Parts : X # {} => Choose(X) = Max(X)
  <2> TAKE X \in Parts
  <2> HAVE X # {}
  <2>1. X \in SUBSET (1 .. n) /\ 1 \in Int /\ n \in Int
    BY <1>1
  <2>2. Max(X) \in X /\ \A y \in X : Max(X) >= y
    BY <2>1, Ends
  <2>3. Choose(X) \in X /\ \A y \in X : Choose(X) >= y
    BY <2>1
  <2>4. Choose(X) >= Max(X) /\ Max(X) >= Choose(X)
    BY <2>2, <2>3
  <2>5. Choose(X) \in Int /\ Max(X) \in Int
    <3>1. \A y \in X : y \in Int
      BY <2>1
    <3> QED
      BY <2>2, <2>3, <3>1
  <2> QED
    BY <2>4, <2>5
<1>3. Grounded(S) /\ Chooses(S)
  BY DEF Chooses
<1>4. \A i \in 0 .. n : last(1 .. i) = i
  <2> TAKE i \in 0 .. n
  <2>1. CASE i = 0
    BY <2>1
  <2>2. CASE i # 0
    <3>1. 1 .. i \in Parts /\ 1 .. i # {}
      <4>1. 1 \in 1 .. i
        BY <2>2
      <4> QED
        BY <4>1 DEF Segments
    <3>2. PICK j \in 1 .. n : Max(1 .. i) = j /\ 1 .. i = 1 .. j
      BY <1>1, <3>1
    <3>3. i = j
      BY <2>2, <3>2
    <3> QED
      BY <3>1, <3>2, <3>3
  <2> QED
    BY <2>1, <2>2
<1>5. \A X \in Parts : X = {} => base \in G[X]
  OBVIOUS
<1>6. ASSUME NEW X \in Parts, X # {}
      PROVE  /\ X \ {Choose(X)} \in Parts
             /\ \A d \in G[X \ {Choose(X)}] : Op(p, Choose(X), d) \in G[X]
  <2>1. PICK i \in 1 .. n : /\ Max(X) = i /\ X = 1 .. i
                            /\ X \ {i} = 1 .. i - 1 /\ X \ {i} \in Parts
    BY <1>1, <1>6
  <2>2. Choose(X) = i
    BY <1>2, <1>6, <2>1
  <2>3. last(X) = i /\ last(X \ {i}) = i - 1
    <3>1. i \in 0 .. n /\ i - 1 \in 0 .. n
      OBVIOUS
    <3> HIDE DEF last
    <3> QED
      BY <1>4, <2>1, <3>1
  <2>4. G[X] = H[i] /\ G[X \ {i}] = H[i - 1]
    BY <2>1, <2>3
  <2> HIDE DEF G, last, Parts
  <2> QED
    BY <2>1, <2>2, <2>4
<1>7. G[S] = H[n]
  BY <1>1, <1>4
<1> HIDE DEF G, Parts, S
<1>8. Fold(p, base, S)[S] \in G[S]
  BY <1>1, <1>3, <1>5, <1>6, Keeps
<1> QED
  BY <1>7, <1>8 DEF S
=============================================================================
