--------------------------- MODULE CountingLemmas ---------------------------
(***************************************************************************)
(* Counting elements of finite sets that a step changes in one place: the  *)
(* arguments by which what happens once too often is owed to a mishap.     *)
(***************************************************************************)
EXTENDS Naturals, FiniteSets, FiniteSetTheorems, TLAPS

\* 1 for what is so, 0 for what is not.
Worth(holds) == IF holds THEN 1 ELSE 0

\* A step that may change the membership of x, and otherwise only removes
\* elements, changes the number of elements as it changes x.
LEMMA CountOne ==
    ASSUME NEW S, NEW T, NEW x, IsFiniteSet(S), T \ {x} \subseteq S \ {x}
    PROVE  /\ IsFiniteSet(T)
           /\ Cardinality(S) \in Nat /\ Cardinality(T) \in Nat
           /\ Cardinality(T) + Worth(x \in S) <= Cardinality(S) + Worth(x \in T)
<1> DEFINE R == S \ {x}
           Q == T \ {x}
<1>1. IsFiniteSet(R) /\ IsFiniteSet(Q) /\ Cardinality(Q) <= Cardinality(R)
  <2>1. IsFiniteSet(R)
    BY FS_Difference
  <2> QED
    BY <2>1, FS_Subset
<1>2. /\ Cardinality(R) \in Nat /\ Cardinality(Q) \in Nat
      /\ Cardinality(S) \in Nat
  BY <1>1, FS_CardinalityType
<1>3. x \in S => Cardinality(S) = Cardinality(R) + 1
  <2>1. x \in S => S = R \cup {x} /\ x \notin R
    OBVIOUS
  <2> QED
    BY <2>1, <1>1, FS_AddElement
<1>4. x \notin S => S = R
  OBVIOUS
<1>5. x \in T => T = Q \cup {x} /\ x \notin Q
  OBVIOUS
<1>6. x \in T => IsFiniteSet(T) /\ Cardinality(T) = Cardinality(Q) + 1
  BY <1>5, <1>1, FS_AddElement
<1>7. x \notin T => T = Q
  OBVIOUS
<1> HIDE DEF R, Q
<1>8. IsFiniteSet(T) /\ Cardinality(T) \in Nat
  BY <1>1, <1>2, <1>6, <1>7
<1> QED
  BY <1>1, <1>2, <1>3, <1>4, <1>6, <1>7, <1>8 DEF Worth

\* A set that only loses elements does not grow in number.
LEMMA CountNone ==
    ASSUME NEW S, NEW T, IsFiniteSet(S), T \subseteq S
    PROVE  /\ IsFiniteSet(T)
           /\ Cardinality(S) \in Nat /\ Cardinality(T) \in Nat
           /\ Cardinality(T) <= Cardinality(S)
BY FS_Subset, FS_CardinalityType

\* A step that may change the membership of two elements.
LEMMA CountTwo ==
    ASSUME NEW S, NEW T, NEW x, NEW y, x # y, IsFiniteSet(S), T \ {x, y} \subseteq S
    PROVE  /\ IsFiniteSet(T)
           /\ Cardinality(S) \in Nat /\ Cardinality(T) \in Nat
           /\ Cardinality(T) + Worth(x \in S) + Worth(y \in S)
                <= Cardinality(S) + Worth(x \in T) + Worth(y \in T)
<1> DEFINE U == IF y \in T THEN S \cup {y} ELSE S \ {y}
<1>1. U \ {y} \subseteq S \ {y} /\ T \ {x} \subseteq U \ {x}
  OBVIOUS
<1>2. (y \in U <=> y \in T) /\ (x \in U <=> x \in S)
  OBVIOUS
<1> HIDE DEF U
<1>3. /\ IsFiniteSet(U) /\ Cardinality(S) \in Nat /\ Cardinality(U) \in Nat
      /\ Cardinality(U) + Worth(y \in S) <= Cardinality(S) + Worth(y \in U)
  BY <1>1, CountOne
<1>4. /\ IsFiniteSet(T) /\ Cardinality(T) \in Nat
      /\ Cardinality(T) + Worth(x \in U) <= Cardinality(U) + Worth(x \in T)
  BY <1>1, <1>3, CountOne
<1>5. Worth(y \in U) = Worth(y \in T) /\ Worth(x \in U) = Worth(x \in S)
  BY <1>2 DEF Worth
<1>6. {Worth(x \in S), Worth(y \in S), Worth(x \in T), Worth(y \in T)} \subseteq Nat
  BY DEF Worth
<1> QED
  BY <1>3, <1>4, <1>5, <1>6

\* What such a step adds to the sets, and to other counts, may be paid for by
\* what it takes away.
LEMMA CountPaid ==
    ASSUME NEW S, NEW T, NEW x, NEW y, x # y, IsFiniteSet(S), T \ {x, y} \subseteq S,
           NEW P, NEW Q, NEW p, IsFiniteSet(P), Q \ {p} \subseteq P,
           NEW before \in Nat, NEW after \in Nat, NEW paid \in Nat, NEW owed \in Nat,
           after + Worth(x \in T) + Worth(y \in T) + Worth(p \in Q) + paid
             <= before + Worth(x \in S) + Worth(y \in S) + Worth(p \in P) + owed
    PROVE  /\ Cardinality(S) \in Nat /\ Cardinality(T) \in Nat
           /\ Cardinality(P) \in Nat /\ Cardinality(Q) \in Nat
           /\ after + Cardinality(T) + Cardinality(Q) + paid
                <= before + Cardinality(S) + Cardinality(P) + owed
<1>1. /\ Cardinality(S) \in Nat /\ Cardinality(T) \in Nat
      /\ Cardinality(T) + Worth(x \in S) + Worth(y \in S)
           <= Cardinality(S) + Worth(x \in T) + Worth(y \in T)
  BY CountTwo
<1>2. Q \ {p} \subseteq P \ {p}
  OBVIOUS
<1>3. /\ Cardinality(P) \in Nat /\ Cardinality(Q) \in Nat
      /\ Cardinality(Q) + Worth(p \in P) <= Cardinality(P) + Worth(p \in Q)
  BY <1>2, CountOne
<1>4. {Worth(x \in S), Worth(y \in S), Worth(x \in T), Worth(y \in T),
       Worth(p \in P), Worth(p \in Q)} \subseteq Nat
  BY DEF Worth
<1> QED
  BY <1>1, <1>3, <1>4
=============================================================================
