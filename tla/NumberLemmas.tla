---------------------------- MODULE NumberLemmas ----------------------------
(***************************************************************************)
(* Facts about numbers and sets of numbers that several proofs cite.       *)
(***************************************************************************)
EXTENDS Integers, FiniteSetsExt, TLAPS, WellFoundedInduction

(***************************************************************************)
(* Min and Max of the community modules are what their names say.          *)
(***************************************************************************)

\* A set of naturals that is not empty has a least element.
LEMMA LeastNatural ==
  ASSUME NEW S, S \subseteq Nat, S # {}
  PROVE  \E x \in S : \A y \in S : x <= y
<1>1. PICK x \in S : \A y \in S : ~ (<<y, x>> \in OpToRel(<, Nat))
  BY NatLessThanWellFounded, WFMin
<1>2. \A y \in S : ~ (y < x)
  BY <1>1, Zenon DEF OpToRel
<1>3. \A y \in S : x <= y
  BY <1>2
<1>. QED  BY <1>3

LEMMA MinIsLeast ==
  ASSUME NEW S, S \subseteq Nat, S # {}
  PROVE  Min(S) \in S /\ \A y \in S : Min(S) <= y
BY LeastNatural DEF Min

LEMMA MaxIsGreatest ==
  ASSUME NEW n \in Nat, NEW S, S \subseteq 0 .. n, S # {}
  PROVE  Max(S) \in S /\ \A y \in S : Max(S) >= y
<1>. DEFINE T == {n - x : x \in S}
<1>1. T \subseteq Nat
  OBVIOUS
<1>0. T # {}
  OBVIOUS
<1>2. PICK t \in T : \A u \in T : t <= u
  BY <1>0, <1>1, LeastNatural
<1>3. PICK x \in S : t = n - x
  BY <1>2
<1>4. \A y \in S : x >= y
  BY <1>2, <1>3
<1>. QED  BY <1>4 DEF Max

(***************************************************************************)
(* Whole division by a positive number.                                    *)
(***************************************************************************)

\* Rounding down keeps a natural a natural and never makes it larger.
LEMMA DivType ==
  ASSUME NEW n \in Nat, NEW b \in Nat \ {0}
  PROVE  n \div b \in Nat /\ n \div b <= n
BY SMT

LEMMA DivMonotone ==
  ASSUME NEW n \in Nat, NEW m \in Nat, n <= m, NEW b \in Nat \ {0}
  PROVE  n \div b <= m \div b
BY SMT

\* Counting up by one stays in the block or enters the next one.
LEMMA DivStep ==
  ASSUME NEW n \in Nat, NEW b \in Nat \ {0}
  PROVE  (n + 1) \div b \in {n \div b, (n \div b) + 1}
BY SMT

\* At least one whole block fits when the block is no longer than the whole.
LEMMA DivPositive ==
  ASSUME NEW n \in Nat, NEW b \in Nat \ {0}, b <= n
  PROVE  n \div b >= 1
BY SMT

\* When b divides n, n starts a new block.
LEMMA DivExact ==
  ASSUME NEW n \in Nat \ {0}, NEW b \in Nat \ {0}, n % b = 0
  PROVE  (n - 1) \div b = (n \div b) - 1
BY SMT

\* When it does not, n is in the block of the number before it.
LEMMA DivInexact ==
  ASSUME NEW n \in Nat \ {0}, NEW b \in Nat \ {0}, n % b # 0
  PROVE  (n - 1) \div b = n \div b
BY SMT

\* Division by anything but one makes a positive number smaller.
LEMMA DivSame ==
  ASSUME NEW n \in Nat \ {0}, NEW b \in Nat \ {0}, n \div b = n
  PROVE  (n - 1) \div b = n - 1
BY SMT
=============================================================================
