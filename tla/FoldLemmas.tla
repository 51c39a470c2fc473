---------------------------- MODULE FoldLemmas ----------------------------
(***************************************************************************)
(* What a fold over a sequence computes, step by step.                     *)
(*                                                                         *)
(* FoldLeft of the community modules is a function of the sets of          *)
(* positions, chosen to satisfy its own equation.  No operator can be a    *)
(* parameter of a lemma here, so the step is a function F: F[k] takes the  *)
(* value before position k to the one after it.  A function that satisfies *)
(* the equation exists (RecursionOnSubsets), hence the chosen one does,    *)
(* and its values on 1 .. k are the trace of the steps (TraceOfFold).      *)
(* What every step keeps, the fold keeps (UpTo).                           *)
(***************************************************************************)
EXTENDS FiniteSetsExt, WellFoundedInduction, TLAPS

(* Every set of numbers that is not empty has a least one. *)
LEMMA LeastOf ==
    ASSUME NEW T \in SUBSET Nat, T # {}
    PROVE  \E m \in T : \A k \in T : m <= k
<1> DEFINE R == OpToRel(<, Nat)
<1>1. PICK m \in T : \A k \in T : ~ (<<k, m>> \in R)
    BY NatLessThanWellFounded, WFMin
<1>2. R = {ss \in Nat \X Nat : ss[1] < ss[2]}
    BY DEF OpToRel
<1> HIDE DEF R
<1>3. \A a, b \in Nat : a < b => <<a, b>> \in R
    BY <1>2
<1>4. \A k \in T : m <= k
    <2> SUFFICES ASSUME NEW k \in T PROVE m <= k
        OBVIOUS
    <2>1. ~ (k < m)
        BY <1>1, <1>3
    <2> QED  BY <2>1
<1> QED  BY <1>4

(* What holds of 0 and of the next number after each below n holds up to n. *)
LEMMA UpTo ==
    ASSUME NEW n \in Nat, NEW T, 0 \in T, \A k \in 0 .. n - 1 : k \in T => k + 1 \in T
    PROVE  0 .. n \subseteq T
<1> SUFFICES ASSUME ~(0 .. n \subseteq T) PROVE FALSE
    OBVIOUS
<1> DEFINE Out == {k \in 0 .. n : k \notin T}
<1>1. Out \in SUBSET Nat /\ Out # {}
    OBVIOUS
<1>2. PICK m \in Out : \A k \in Out : m <= k
    <2> HIDE DEF Out
    <2> QED  BY <1>1, LeastOf
<1>3. m # 0 /\ m \in 0 .. n
    BY <1>2
<1>4. m - 1 \in 0 .. n - 1 /\ m - 1 \notin Out
    BY <1>2, <1>3
<1>5. m \in T
    BY <1>4, <1>3
<1> QED  BY <1>5

(* The maximum of a set of numbers. *)
LEMMA MaxUpTo ==
    ASSUME NEW n \in Nat, NEW s \in SUBSET (1 .. n), s # {}
    PROVE  Max(s) \in s /\ \A k \in s : k <= Max(s)
<1> DEFINE Above == {k \in 0 .. n : \A j \in s : j <= k}
<1>1. Above \in SUBSET Nat /\ n \in Above
    OBVIOUS
<1>2. PICK m \in Above : \A k \in Above : m <= k
    <2> HIDE DEF Above
    <2> QED  BY <1>1, LeastOf
<1>3. m \in s
    <2> SUFFICES ASSUME m \notin s PROVE FALSE
        OBVIOUS
    <2>1. m # 0
        <3>1. PICK j \in s : TRUE
            OBVIOUS
        <3>2. j <= m /\ 1 <= j
            BY <1>2
        <3> QED  BY <3>2
    <2>2. m - 1 \in Above
        BY <1>2, <2>1
    <2> QED  BY <1>2, <2>2, <2>1
<1>4. \E x \in s : \A y \in s : x >= y
    BY <1>2, <1>3
<1> QED  BY <1>4 DEF Max

\* g[s] is what F makes of base at the positions s of 1 .. n, in their order.
Iterates(g, n, S, base, F) ==
    /\ g \in [SUBSET (1 .. n) -> S]
    /\ \A s \in SUBSET (1 .. n) :
          g[s] = IF s = {} THEN base ELSE F[Max(s)][g[s \ {Max(s)}]]

(* There is a function that iterates F over every subset of 1 .. n. *)
LEMMA RecursionOnSubsets ==
    ASSUME NEW n \in Nat, NEW S, NEW base \in S, NEW F \in [1 .. n -> [S -> S]]
    PROVE  \E g : Iterates(g, n, S, base, F)
<1> DEFINE Good(g, k) == \A s \in SUBSET (1 .. k) :
                           g[s] = IF s = {} THEN base ELSE F[Max(s)][g[s \ {Max(s)}]]
           T == {k \in 0 .. n : \E g \in [SUBSET (1 .. k) -> S] : Good(g, k)}
<1>1. 0 \in T
    <2> DEFINE g == [s \in SUBSET (1 .. 0) |-> base]
    <2>1. g \in [SUBSET (1 .. 0) -> S]
        OBVIOUS
    <2>2. Good(g, 0)
        OBVIOUS
    <2> HIDE DEF g, Good
    <2>3. 0 \in 0 .. n
        OBVIOUS
    <2> QED  BY <2>1, <2>2, <2>3, Zenon
<1>2. ASSUME NEW k \in 0 .. n - 1, k \in T PROVE k + 1 \in T
    <2>1. PICK g \in [SUBSET (1 .. k) -> S] : Good(g, k)
        BY <1>2
    <2> DEFINE h == [s \in SUBSET (1 .. k + 1) |->
                        IF k + 1 \in s THEN F[k + 1][g[s \ {k + 1}]] ELSE g[s]]
    <2>2. \A s \in SUBSET (1 .. k + 1) : s \ {k + 1} \in SUBSET (1 .. k)
        OBVIOUS
    <2>3. h \in [SUBSET (1 .. k + 1) -> S]
        <3> SUFFICES ASSUME NEW s \in SUBSET (1 .. k + 1)
                     PROVE  (IF k + 1 \in s THEN F[k + 1][g[s \ {k + 1}]] ELSE g[s]) \in S
            OBVIOUS
        <3>1. CASE k + 1 \in s
            <4>1. g[s \ {k + 1}] \in S /\ k + 1 \in 1 .. n
                BY <2>2
            <4> QED  BY <3>1, <4>1
        <3>2. CASE k + 1 \notin s
            <4>1. s \in SUBSET (1 .. k)
                BY <3>2, <2>2
            <4> QED  BY <3>2, <4>1
        <3> QED  BY <3>1, <3>2
    <2>4. Good(h, k + 1)
        <3> SUFFICES ASSUME NEW s \in SUBSET (1 .. k + 1)
                     PROVE  h[s] = IF s = {} THEN base ELSE F[Max(s)][h[s \ {Max(s)}]]
            OBVIOUS
        <3>1. CASE s = {}
            BY <2>1, <3>1
        <3>2. CASE s # {}
            <4> k + 1 \in Nat
                OBVIOUS
            <4>1. Max(s) \in s /\ \A j \in s : j <= Max(s)
                BY <3>2, MaxUpTo
            <4>2. CASE k + 1 \in s
                <5>1. Max(s) = k + 1
                    <6>1. Max(s) \in 1 .. k + 1 /\ k + 1 <= Max(s)
                        BY <4>1, <4>2
                    <6> QED  BY <6>1
                <5>2. s \ {k + 1} \in SUBSET (1 .. k) /\ s \ {k + 1} \in SUBSET (1 .. k + 1)
                    OBVIOUS
                <5>3. h[s \ {k + 1}] = g[s \ {k + 1}]
                    BY <5>2
                <5> QED  BY <3>2, <4>2, <5>1, <5>3
            <4>3. CASE k + 1 \notin s
                <5>1. s \in SUBSET (1 .. k) /\ s \ {Max(s)} \in SUBSET (1 .. k)
                    <6>1. \A j \in s : j \in 1 .. k
                        BY <4>3
                    <6> QED  BY <6>1
                <5>2. h[s] = g[s] /\ h[s \ {Max(s)}] = g[s \ {Max(s)}]
                    BY <4>3, <5>1
                <5>3. g[s] = F[Max(s)][g[s \ {Max(s)}]]
                    BY <2>1, <3>2, <5>1
                <5> QED  BY <3>2, <5>2, <5>3
            <4> QED  BY <4>2, <4>3
        <3> QED  BY <3>1, <3>2
    <2> HIDE DEF h, Good
    <2> QED  BY <2>3, <2>4
<1>3. n \in T
    <2> HIDE DEF T
    <2>1. \A k \in 0 .. n - 1 : k \in T => k + 1 \in T
        BY <1>2
    <2>2. 0 .. n \subseteq T
        BY <1>1, <2>1, UpTo, Zenon
    <2> QED  BY <2>2
<1> QED  BY <1>3 DEF Iterates

\* w[k] is what F has made of base after position k.
Trace(w, n, S, base, F) ==
    /\ w \in [0 .. n -> S] /\ w[0] = base
    /\ \A k \in 1 .. n : w[k] = F[k][w[k - 1]]

\* The equation of FoldLeft, where the values are in S.
FoldsAs(iter, n, S, base, F) ==
    /\ iter[{}] = base
    /\ \A s \in SUBSET (1 .. n) : s # {} /\ iter[s \ {Max(s)}] \in S
                                      => iter[s] = F[Max(s)][iter[s \ {Max(s)}]]

(* What a fold defined by such an equation holds after k steps. *)
LEMMA TraceOfFold ==
    ASSUME NEW n \in Nat, NEW S, NEW base \in S, NEW F \in [1 .. n -> [S -> S]], NEW iter,
           FoldsAs(iter, n, S, base, F)
    PROVE  Trace([k \in 0 .. n |-> iter[1 .. k]], n, S, base, F)
<1> DEFINE T == {k \in 0 .. n : iter[1 .. k] \in S}
<1> USE DEF FoldsAs
<1>1. iter[1 .. 0] = base
    <2>1. 1 .. 0 = {}
        OBVIOUS
    <2> QED  BY <2>1, Zenon
<1>2. ASSUME NEW k \in 1 .. n, iter[1 .. k - 1] \in S
      PROVE  iter[1 .. k] = F[k][iter[1 .. k - 1]]
    <2>1. 1 .. k \in SUBSET (1 .. n) /\ k \in 1 .. k
        OBVIOUS
    <2>2. Max(1 .. k) = k
        <3>1. Max(1 .. k) \in 1 .. k /\ k <= Max(1 .. k)
            BY <2>1, MaxUpTo
        <3> QED  BY <3>1
    <2>3. (1 .. k) \ {k} = 1 .. k - 1
        OBVIOUS
    <2> QED  BY <1>2, <2>1, <2>2, <2>3
<1>3. 0 .. n \subseteq T
    <2>1. 0 \in T
        <3>1. 0 \in 0 .. n /\ iter[1 .. 0] \in S
            BY <1>1
        <3> QED  BY <3>1, Zenon
    <2>2. \A k \in 0 .. n - 1 : k \in T => k + 1 \in T
        <3> SUFFICES ASSUME NEW k \in 0 .. n - 1, iter[1 .. k] \in S PROVE iter[1 .. k + 1] \in S
            OBVIOUS
        <3>1. k + 1 \in 1 .. n /\ iter[1 .. k + 1] = F[k + 1][iter[1 .. k]]
            BY <1>2
        <3> QED  BY <3>1
    <2> HIDE DEF T
    <2> QED  BY <2>1, <2>2, UpTo, Zenon
<1> DEFINE w == [k \in 0 .. n |-> iter[1 .. k]]
<1>4. w \in [0 .. n -> S]
    BY <1>3
<1>5. \A k \in 1 .. n : w[k] = F[k][w[k - 1]]
    BY <1>2, <1>3
<1>6. w[0] = base
    BY <1>1
<1> HIDE DEF w
<1>7. Trace(w, n, S, base, F)
    BY <1>4, <1>5, <1>6 DEF Trace
<1> QED  BY <1>7, Zenon DEF w
=============================================================================
