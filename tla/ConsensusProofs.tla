-------------------------- MODULE ConsensusProofs ---------------------------
(***************************************************************************)
(* What the functions of Consensus guarantee for every validator set and   *)
(* every distribution of voting power.                                     *)
(***************************************************************************)
EXTENDS Consensus, BaseProofs, TLAPS

\* The power of a set of validators is a number, and disjoint sets add up.
LEMMA PowerAdditive ==
  \A S, T \in SUBSET Validators :
     /\ PowerOf(S) \in Nat
     /\ S \cap T = {} => PowerOf(S \cup T) = PowerOf(S) + PowerOf(T)
<1>1. \A S \in SUBSET Validators : IsFiniteSet(S) /\ Numbers(Power, S)
  BY PowerAssumption, FS_Subset DEF Numbers
<1>2. ASSUME NEW S \in SUBSET Validators PROVE PowerOf(S) \in Nat
  BY <1>1, SumType DEF PowerOf
<1>3. ASSUME NEW S \in SUBSET Validators, NEW T \in SUBSET Validators, S \cap T = {}
      PROVE  PowerOf(S \cup T) = PowerOf(S) + PowerOf(T)
  <2>1. S \cup T \in SUBSET Validators
    OBVIOUS
  <2> QED
    BY <1>1, <1>3, <2>1, SumDisjoint DEF PowerOf
<1> QED
  BY <1>2, <1>3

\* A set of validators has no more power than a set that contains it.
LEMMA PowerMonotone ==
  ASSUME NEW T \in SUBSET Validators, NEW S \in SUBSET T
  PROVE  PowerOf(S) \in Nat /\ PowerOf(T) \in Nat /\ PowerOf(S) <= PowerOf(T)
<1>1. S \in SUBSET Validators /\ T \ S \in SUBSET Validators
  OBVIOUS
<1>2. S \cup (T \ S) = T /\ S \cap (T \ S) = {}
  OBVIOUS
<1>3. PowerOf(T) = PowerOf(S) + PowerOf(T \ S)
  BY <1>1, <1>2, PowerAdditive
<1>4. PowerOf(S) \in Nat /\ PowerOf(T \ S) \in Nat /\ PowerOf(T) \in Nat
  BY <1>1, PowerAdditive
<1> QED
  BY <1>3, <1>4

\* Two sets that each hold more than two thirds of the power share a validator
\* outside any set that holds at most a third.
LEMMA QuorumIntersection ==
  ASSUME NEW S \in SUBSET Validators, NEW T \in SUBSET Validators,
         NEW B \in SUBSET Validators,
         3 * PowerOf(S) > 2 * PowerOf(Validators),
         3 * PowerOf(T) > 2 * PowerOf(Validators),
         3 * PowerOf(B) <= PowerOf(Validators)
  PROVE  \E v \in S \cap T : v \notin B
<1> DEFINE Both == S \cap T
<1> DEFINE OnlyS == S \ T
<1>1. /\ OnlyS \in SUBSET Validators /\ Both \in SUBSET Validators
      /\ OnlyS \cup Both = S /\ OnlyS \cap Both = {}
      /\ OnlyS \cap T = {} /\ OnlyS \cup T \in SUBSET Validators
  OBVIOUS
<1>2. PowerOf(S) = PowerOf(OnlyS) + PowerOf(Both)
  BY <1>1, PowerAdditive
<1>3. PowerOf(OnlyS \cup T) = PowerOf(OnlyS) + PowerOf(T)
  BY <1>1, PowerAdditive
<1>4. PowerOf(OnlyS \cup T) <= PowerOf(Validators)
  BY <1>1, PowerMonotone
<1>5. /\ PowerOf(S) \in Nat /\ PowerOf(T) \in Nat /\ PowerOf(Both) \in Nat
      /\ PowerOf(OnlyS) \in Nat /\ PowerOf(Validators) \in Nat /\ PowerOf(B) \in Nat
  BY <1>1, PowerAdditive
<1> HIDE DEF Both, OnlyS
<1>6. PowerOf(Both) > PowerOf(B)
  BY <1>2, <1>3, <1>4, <1>5
<1>7. ~(Both \subseteq B)
  BY <1>5, <1>6, PowerMonotone
<1> QED
  BY <1>7 DEF Both

\* Saturating at u64::MAX can only lose a quorum, never make one: what passes
\* exceeds_two_thirds really holds more than two thirds of the power.
LEMMA QuorumIsExact ==
  ASSUME NEW p \in Nat, NEW total \in Nat, p <= total,
         has_quorum(Saturated(p), Saturated(total))
  PROVE  3 * p > 2 * total
  BY PowerAssumption DEF has_quorum, Saturated

\* A polka on a block means that validators with more than two thirds of the power
\* signed votes for it in the vector.
LEMMA PolkaIsQuorum ==
  ASSUME NEW V, NEW b, polka(V, b)
  PROVE  3 * PowerOf(Signers(V, b) \cap Validators) > 2 * PowerOf(Validators)
<1> DEFINE S == Signers(V, b) \cap Validators
<1>1. PowerOf(S) \in Nat /\ PowerOf(Validators) \in Nat
         /\ PowerOf(S) <= PowerOf(Validators)
  BY PowerMonotone
<1>2. has_quorum(Saturated(PowerOf(S)), Saturated(PowerOf(Validators)))
  BY DEF polka, tally, total_power
<1> QED
  BY <1>1, <1>2, QuorumIsExact
=============================================================================
