------------------------------ MODULE Settling ------------------------------
(***************************************************************************)
(* A number below 2^14 that from some point on never grows is in the end   *)
(* constant.  The controllers' distances from the limits they drive the    *)
(* cgroups to are such numbers: the theorem turns "every decision makes    *)
(* progress" into "the limit is reached".                                  *)
(*                                                                         *)
(* Temporal reasoning is propositional here, so the argument goes bit by   *)
(* bit.  H1, H2, ... are the number halved once, twice, ...; a halving     *)
(* drops the lowest bit.  Once H(k+1) is constant the lowest bit of Hk can *)
(* only be cleared, so in the end it is constant, and with it Hk.          *)
(***************************************************************************)
EXTENDS Integers, TLAPS

VARIABLE n

H1 == n \div 2
H2 == H1 \div 2
H3 == H2 \div 2
H4 == H3 \div 2
H5 == H4 \div 2
H6 == H5 \div 2
H7 == H6 \div 2
H8 == H7 \div 2
H9 == H8 \div 2
H10 == H9 \div 2
H11 == H10 \div 2
H12 == H11 \div 2
H13 == H12 \div 2
H14 == H13 \div 2

Odd0 == n % 2 = 1
Odd1 == H1 % 2 = 1
Odd2 == H2 % 2 = 1
Odd3 == H3 % 2 = 1
Odd4 == H4 % 2 = 1
Odd5 == H5 % 2 = 1
Odd6 == H6 % 2 = 1
Odd7 == H7 % 2 = 1
Odd8 == H8 % 2 = 1
Odd9 == H9 % 2 = 1
Odd10 == H10 % 2 = 1
Odd11 == H11 % 2 = 1
Odd12 == H12 % 2 = 1
Odd13 == H13 % 2 = 1

LEMMA Halved ==
    ASSUME NEW x \in Nat, NEW y \in Nat, y <= x
    PROVE  x \div 2 \in Nat /\ y \div 2 \in Nat /\ y \div 2 <= x \div 2
  OBVIOUS

LEMMA LowestBit ==
    ASSUME NEW x \in Nat, NEW y \in Nat, y <= x, y \div 2 = x \div 2
    PROVE  /\ y % 2 = 1 => x % 2 = 1
           /\ (y % 2 = 1 <=> x % 2 = 1) => y = x
  OBVIOUS

LEMMA AllHalved ==
    ASSUME NEW x \in Nat, x < 128 * 128
    PROVE  ((((((((((((((x \div 2) \div 2) \div 2) \div 2) \div 2) \div 2) \div 2)
               \div 2) \div 2) \div 2) \div 2) \div 2) \div 2) \div 2) = 0
  <1> DEFINE h1 == x \div 2
             h2 == h1 \div 2
             h3 == h2 \div 2
             h4 == h3 \div 2
             h5 == h4 \div 2
             h6 == h5 \div 2
             h7 == h6 \div 2
             h8 == h7 \div 2
             h9 == h8 \div 2
             h10 == h9 \div 2
             h11 == h10 \div 2
             h12 == h11 \div 2
             h13 == h12 \div 2
             h14 == h13 \div 2
  <1>1. h1 \in Nat /\ h1 < 64 * 128
    OBVIOUS
  <1> HIDE DEF h1
  <1>2. h2 \in Nat /\ h2 < 32 * 128
    BY <1>1
  <1> HIDE DEF h2
  <1>3. h3 \in Nat /\ h3 < 16 * 128
    BY <1>2
  <1> HIDE DEF h3
  <1>4. h4 \in Nat /\ h4 < 8 * 128
    BY <1>3
  <1> HIDE DEF h4
  <1>5. h5 \in Nat /\ h5 < 4 * 128
    BY <1>4
  <1> HIDE DEF h5
  <1>6. h6 \in Nat /\ h6 < 2 * 128
    BY <1>5
  <1> HIDE DEF h6
  <1>7. h7 \in Nat /\ h7 < 128
    BY <1>6
  <1> HIDE DEF h7
  <1>8. h8 \in Nat /\ h8 < 64
    BY <1>7
  <1> HIDE DEF h8
  <1>9. h9 \in Nat /\ h9 < 32
    BY <1>8
  <1> HIDE DEF h9
  <1>10. h10 \in Nat /\ h10 < 16
    BY <1>9
  <1> HIDE DEF h10
  <1>11. h11 \in Nat /\ h11 < 8
    BY <1>10
  <1> HIDE DEF h11
  <1>12. h12 \in Nat /\ h12 < 4
    BY <1>11
  <1> HIDE DEF h12
  <1>13. h13 \in Nat /\ h13 < 2
    BY <1>12
  <1> HIDE DEF h13
  <1>14. h14 \in Nat /\ h14 < 1
    BY <1>13
  <1> HIDE DEF h14
  <1> QED
    BY <1>14 DEF h1, h2, h3, h4, h5, h6, h7, h8, h9, h10, h11, h12, h13, h14

LEMMA HalvesKept ==
    ASSUME n' = n
    PROVE  /\ H1' = H1
           /\ H2' = H2
           /\ H3' = H3
           /\ H4' = H4
           /\ H5' = H5
           /\ H6' = H6
           /\ H7' = H7
           /\ H8' = H8
           /\ H9' = H9
           /\ H10' = H10
           /\ H11' = H11
           /\ H12' = H12
           /\ H13' = H13
  BY DEF H1, H2, H3, H4, H5, H6, H7, H8, H9, H10, H11, H12, H13

\* A number that does not grow, halved any number of times, does not grow.
LEMMA HalvesFall ==
    ASSUME n \in Nat, n' \in Nat, n' <= n
    PROVE  /\ H1 \in Nat /\ H1' \in Nat /\ H1' <= H1
           /\ H2 \in Nat /\ H2' \in Nat /\ H2' <= H2
           /\ H3 \in Nat /\ H3' \in Nat /\ H3' <= H3
           /\ H4 \in Nat /\ H4' \in Nat /\ H4' <= H4
           /\ H5 \in Nat /\ H5' \in Nat /\ H5' <= H5
           /\ H6 \in Nat /\ H6' \in Nat /\ H6' <= H6
           /\ H7 \in Nat /\ H7' \in Nat /\ H7' <= H7
           /\ H8 \in Nat /\ H8' \in Nat /\ H8' <= H8
           /\ H9 \in Nat /\ H9' \in Nat /\ H9' <= H9
           /\ H10 \in Nat /\ H10' \in Nat /\ H10' <= H10
           /\ H11 \in Nat /\ H11' \in Nat /\ H11' <= H11
           /\ H12 \in Nat /\ H12' \in Nat /\ H12' <= H12
           /\ H13 \in Nat /\ H13' \in Nat /\ H13' <= H13
  <1>1. H1 \in Nat /\ H1' \in Nat /\ H1' <= H1
    BY Halved, Zenon DEF H1
  <1>2. H2 \in Nat /\ H2' \in Nat /\ H2' <= H2
    BY <1>1, Halved, Zenon DEF H2
  <1>3. H3 \in Nat /\ H3' \in Nat /\ H3' <= H3
    BY <1>2, Halved, Zenon DEF H3
  <1>4. H4 \in Nat /\ H4' \in Nat /\ H4' <= H4
    BY <1>3, Halved, Zenon DEF H4
  <1>5. H5 \in Nat /\ H5' \in Nat /\ H5' <= H5
    BY <1>4, Halved, Zenon DEF H5
  <1>6. H6 \in Nat /\ H6' \in Nat /\ H6' <= H6
    BY <1>5, Halved, Zenon DEF H6
  <1>7. H7 \in Nat /\ H7' \in Nat /\ H7' <= H7
    BY <1>6, Halved, Zenon DEF H7
  <1>8. H8 \in Nat /\ H8' \in Nat /\ H8' <= H8
    BY <1>7, Halved, Zenon DEF H8
  <1>9. H9 \in Nat /\ H9' \in Nat /\ H9' <= H9
    BY <1>8, Halved, Zenon DEF H9
  <1>10. H10 \in Nat /\ H10' \in Nat /\ H10' <= H10
    BY <1>9, Halved, Zenon DEF H10
  <1>11. H11 \in Nat /\ H11' \in Nat /\ H11' <= H11
    BY <1>10, Halved, Zenon DEF H11
  <1>12. H12 \in Nat /\ H12' \in Nat /\ H12' <= H12
    BY <1>11, Halved, Zenon DEF H12
  <1>13. H13 \in Nat /\ H13' \in Nat /\ H13' <= H13
    BY <1>12, Halved, Zenon DEF H13
  <1> QED
    BY <1>1, <1>2, <1>3, <1>4, <1>5, <1>6, <1>7, <1>8, <1>9, <1>10, <1>11, <1>12, <1>13

\* A number below 2^14 that from some point on never grows is in the end
\* constant.
LEMMA Settles == [](n \in Nat /\ n < 128 * 128) /\ <>[][n' <= n]_n => <>[][FALSE]_n
  <1> DEFINE InRange == n \in Nat /\ n < 128 * 128
             Fall == InRange /\ InRange' /\ [n' <= n]_n
             Falling == []InRange /\ <>[][n' <= n]_n
  <1>1. ASSUME Fall PROVE n \in Nat /\ n' \in Nat /\ n' <= n
    BY <1>1
  <1>2. Fall => H14' = H14
    <2>1. InRange => H14 = 0
      BY AllHalved DEF H1, H2, H3, H4, H5, H6, H7, H8, H9, H10, H11, H12, H13, H14
    <2>2. InRange' => H14' = 0
      BY AllHalved, Zenon DEF H1, H2, H3, H4, H5, H6, H7, H8, H9, H10, H11, H12, H13, H14
    <2> QED
      BY <2>1, <2>2
  <1>3. Falling => <>[][H13' = H13]_n
    <2>1. Fall /\ H14' = H14 => (Odd13' => Odd13)
      BY <1>1, HalvesFall, LowestBit DEF H14, Odd13
    <2>2. Fall /\ H14' = H14 /\ (Odd13' <=> Odd13) => [H13' = H13]_n
      BY <1>1, HalvesFall, LowestBit DEF H14, Odd13
    <2> HIDE DEF InRange
    <2> QED
      BY <1>2, <2>1, <2>2, PTL
  <1>4. Falling => <>[][H12' = H12]_n
    <2>1. Fall /\ [H13' = H13]_n => (Odd12' => Odd12)
      BY <1>1, HalvesFall, HalvesKept, LowestBit DEF H13, Odd12
    <2>2. Fall /\ [H13' = H13]_n /\ (Odd12' <=> Odd12) => [H12' = H12]_n
      BY <1>1, HalvesFall, LowestBit DEF H13, Odd12
    <2> HIDE DEF InRange
    <2> QED
      BY <1>3, <2>1, <2>2, PTL
  <1>5. Falling => <>[][H11' = H11]_n
    <2>1. Fall /\ [H12' = H12]_n => (Odd11' => Odd11)
      BY <1>1, HalvesFall, HalvesKept, LowestBit DEF H12, Odd11
    <2>2. Fall /\ [H12' = H12]_n /\ (Odd11' <=> Odd11) => [H11' = H11]_n
      BY <1>1, HalvesFall, LowestBit DEF H12, Odd11
    <2> HIDE DEF InRange
    <2> QED
      BY <1>4, <2>1, <2>2, PTL
  <1>6. Falling => <>[][H10' = H10]_n
    <2>1. Fall /\ [H11' = H11]_n => (Odd10' => Odd10)
      BY <1>1, HalvesFall, HalvesKept, LowestBit DEF H11, Odd10
    <2>2. Fall /\ [H11' = H11]_n /\ (Odd10' <=> Odd10) => [H10' = H10]_n
      BY <1>1, HalvesFall, LowestBit DEF H11, Odd10
    <2> HIDE DEF InRange
    <2> QED
      BY <1>5, <2>1, <2>2, PTL
  <1>7. Falling => <>[][H9' = H9]_n
    <2>1. Fall /\ [H10' = H10]_n => (Odd9' => Odd9)
      BY <1>1, HalvesFall, HalvesKept, LowestBit DEF H10, Odd9
    <2>2. Fall /\ [H10' = H10]_n /\ (Odd9' <=> Odd9) => [H9' = H9]_n
      BY <1>1, HalvesFall, LowestBit DEF H10, Odd9
    <2> HIDE DEF InRange
    <2> QED
      BY <1>6, <2>1, <2>2, PTL
  <1>8. Falling => <>[][H8' = H8]_n
    <2>1. Fall /\ [H9' = H9]_n => (Odd8' => Odd8)
      BY <1>1, HalvesFall, HalvesKept, LowestBit DEF H9, Odd8
    <2>2. Fall /\ [H9' = H9]_n /\ (Odd8' <=> Odd8) => [H8' = H8]_n
      BY <1>1, HalvesFall, LowestBit DEF H9, Odd8
    <2> HIDE DEF InRange
    <2> QED
      BY <1>7, <2>1, <2>2, PTL
  <1>9. Falling => <>[][H7' = H7]_n
    <2>1. Fall /\ [H8' = H8]_n => (Odd7' => Odd7)
      BY <1>1, HalvesFall, HalvesKept, LowestBit DEF H8, Odd7
    <2>2. Fall /\ [H8' = H8]_n /\ (Odd7' <=> Odd7) => [H7' = H7]_n
      BY <1>1, HalvesFall, LowestBit DEF H8, Odd7
    <2> HIDE DEF InRange
    <2> QED
      BY <1>8, <2>1, <2>2, PTL
  <1>10. Falling => <>[][H6' = H6]_n
    <2>1. Fall /\ [H7' = H7]_n => (Odd6' => Odd6)
      BY <1>1, HalvesFall, HalvesKept, LowestBit DEF H7, Odd6
    <2>2. Fall /\ [H7' = H7]_n /\ (Odd6' <=> Odd6) => [H6' = H6]_n
      BY <1>1, HalvesFall, LowestBit DEF H7, Odd6
    <2> HIDE DEF InRange
    <2> QED
      BY <1>9, <2>1, <2>2, PTL
  <1>11. Falling => <>[][H5' = H5]_n
    <2>1. Fall /\ [H6' = H6]_n => (Odd5' => Odd5)
      BY <1>1, HalvesFall, HalvesKept, LowestBit DEF H6, Odd5
    <2>2. Fall /\ [H6' = H6]_n /\ (Odd5' <=> Odd5) => [H5' = H5]_n
      BY <1>1, HalvesFall, LowestBit DEF H6, Odd5
    <2> HIDE DEF InRange
    <2> QED
      BY <1>10, <2>1, <2>2, PTL
  <1>12. Falling => <>[][H4' = H4]_n
    <2>1. Fall /\ [H5' = H5]_n => (Odd4' => Odd4)
      BY <1>1, HalvesFall, HalvesKept, LowestBit DEF H5, Odd4
    <2>2. Fall /\ [H5' = H5]_n /\ (Odd4' <=> Odd4) => [H4' = H4]_n
      BY <1>1, HalvesFall, LowestBit DEF H5, Odd4
    <2> HIDE DEF InRange
    <2> QED
      BY <1>11, <2>1, <2>2, PTL
  <1>13. Falling => <>[][H3' = H3]_n
    <2>1. Fall /\ [H4' = H4]_n => (Odd3' => Odd3)
      BY <1>1, HalvesFall, HalvesKept, LowestBit DEF H4, Odd3
    <2>2. Fall /\ [H4' = H4]_n /\ (Odd3' <=> Odd3) => [H3' = H3]_n
      BY <1>1, HalvesFall, LowestBit DEF H4, Odd3
    <2> HIDE DEF InRange
    <2> QED
      BY <1>12, <2>1, <2>2, PTL
  <1>14. Falling => <>[][H2' = H2]_n
    <2>1. Fall /\ [H3' = H3]_n => (Odd2' => Odd2)
      BY <1>1, HalvesFall, HalvesKept, LowestBit DEF H3, Odd2
    <2>2. Fall /\ [H3' = H3]_n /\ (Odd2' <=> Odd2) => [H2' = H2]_n
      BY <1>1, HalvesFall, LowestBit DEF H3, Odd2
    <2> HIDE DEF InRange
    <2> QED
      BY <1>13, <2>1, <2>2, PTL
  <1>15. Falling => <>[][H1' = H1]_n
    <2>1. Fall /\ [H2' = H2]_n => (Odd1' => Odd1)
      BY <1>1, HalvesFall, HalvesKept, LowestBit DEF H2, Odd1
    <2>2. Fall /\ [H2' = H2]_n /\ (Odd1' <=> Odd1) => [H1' = H1]_n
      BY <1>1, HalvesFall, LowestBit DEF H2, Odd1
    <2> HIDE DEF InRange
    <2> QED
      BY <1>14, <2>1, <2>2, PTL
  <1>16. Falling => <>[][FALSE]_n
    <2>1. Fall /\ [H1' = H1]_n => (Odd0' => Odd0)
      BY <1>1, HalvesKept, LowestBit, Zenon DEF H1, Odd0
    <2>2. Fall /\ [H1' = H1]_n /\ (Odd0' <=> Odd0) => [FALSE]_n
      BY <1>1, LowestBit, Zenon DEF H1, Odd0
    <2> HIDE DEF InRange
    <2> QED
      BY <1>15, <2>1, <2>2, PTL
  <1> QED
    BY <1>16 DEF InRange

=============================================================================
