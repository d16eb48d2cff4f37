----------------------------- MODULE MerkleProofs -----------------------------
(***************************************************************************)
(* Merkle trees, for lists of any length: the tree that BuildMerkleTree    *)
(* makes, the proof that GetMerkleProof takes from it, what                *)
(* VerifyMerkleProof accepts, and that two lists with one root are the     *)
(* same but for a last transaction that is repeated.                       *)
(***************************************************************************)
EXTENDS Merkle, WellFoundedInduction, TLAPS

(***************************************************************************)
(* Induction over the naturals, for sets, and sequences of numbers by      *)
(* recursion.                                                              *)
(***************************************************************************)
LEMMA SetInduction ==
    ASSUME NEW S \in SUBSET Nat, 0 \in S, \A n \in S : n + 1 \in S
    PROVE  \A n \in Nat : n \in S
<1> SUFFICES ASSUME Nat \ S # {} PROVE FALSE
  OBVIOUS
<1>1. PICK m \in Nat \ S : \A k \in Nat \ S : ~(<<k, m>> \in OpToRel(<, Nat))
  BY WFMin, NatLessThanWellFounded
<1>2. \A k \in Nat \ S : ~(k < m)
  BY <1>1 DEF OpToRel
<1>3. m # 0 /\ m \in Nat
  OBVIOUS
<1>4. m - 1 \in Nat /\ m - 1 < m /\ (m - 1) + 1 = m
  BY <1>3
<1>5. m - 1 \in S
  BY <1>2, <1>4
<1>6. QED
  BY <1>1, <1>4, <1>5

\* b, and then what g makes of each number and the place of the next.
Iterates(f, g, b, m) ==
    f = [n \in 0..m |-> IF n = 0 THEN b ELSE g[<<f[n - 1], n>>]]

LEMMA NumbersByRecursion ==
    ASSUME NEW g \in [Nat \X Nat -> Nat], NEW b \in Nat
    PROVE  \A m \in Nat : \E f \in [0..m -> Nat] : Iterates(f, g, b, m)
<1> DEFINE S == {m \in Nat : \E f \in [0..m -> Nat] : Iterates(f, g, b, m)}
<1>1. 0 \in S
  <2> DEFINE f == [n \in 0..0 |-> b]
  <2>1. f \in [0..0 -> Nat] /\ \A n \in 0..0 : n = 0
    OBVIOUS
  <2>2. Iterates(f, g, b, 0)
    BY <2>1 DEF Iterates
  <2>3. QED
    BY <2>1, <2>2
<1>2. ASSUME NEW m \in S PROVE m + 1 \in S
  <2>1. PICK f \in [0..m -> Nat] : Iterates(f, g, b, m)
    OBVIOUS
  <2> DEFINE h == [n \in 0..m + 1 |-> IF n <= m THEN f[n] ELSE g[<<f[m], m + 1>>]]
  <2>2. \A n \in 0..m : f[n] = IF n = 0 THEN b ELSE g[<<f[n - 1], n>>]
    BY <2>1 DEF Iterates
  <2>3. f[m] \in Nat /\ g[<<f[m], m + 1>>] \in Nat
    OBVIOUS
  <2>4. h \in [0..m + 1 -> Nat]
    BY <2>3
  <2>5. ASSUME NEW n \in 0..m + 1 PROVE h[n] = IF n = 0 THEN b ELSE g[<<h[n - 1], n>>]
    <3>1. CASE n <= m
      <4>1. n \in 0..m /\ h[n] = f[n]
        BY <3>1
      <4>2. n # 0 => h[n - 1] = f[n - 1]
        BY <3>1
      <4>3. QED
        BY <2>2, <4>1, <4>2
    <3>2. CASE ~(n <= m)
      <4>1. n = m + 1 /\ n # 0 /\ n - 1 = m /\ m \in 0..m + 1 /\ m <= m
        BY <3>2
      <4>2. h[n] = g[<<f[m], m + 1>>] /\ h[m] = f[m]
        BY <3>2, <4>1
      <4>3. QED
        BY <4>1, <4>2
    <3>3. QED
      BY <3>1, <3>2
  <2>6. h = [n \in 0..m + 1 |-> h[n]]
    OBVIOUS
  <2> HIDE DEF h
  <2>7. Iterates(h, g, b, m + 1)
    BY <2>5, <2>6 DEF Iterates
  <2>8. \E k \in [0..m + 1 -> Nat] : Iterates(k, g, b, m + 1)
    BY <2>4, <2>7
  <2>9. m \in Nat /\ m + 1 \in Nat
    OBVIOUS
  <2>10. QED
    BY <2>8, <2>9
<1>3. S \in SUBSET Nat
  OBVIOUS
<1> HIDE DEF S
<1>4. \A m \in Nat : m \in S
  BY <1>1, <1>2, <1>3, SetInduction
<1>5. QED
  BY <1>4 DEF S

(***************************************************************************)
(* Digests, layers and trees.                                              *)
(***************************************************************************)
LEMMA LeafDigests ==
    ASSUME NEW a, NEW b
    PROVE  HashTransaction(a) = HashTransaction(b) => a = b
BY DEF HashTransaction

LEMMA PairDigests ==
    ASSUME NEW a, NEW b, NEW c, NEW d
    PROVE  HashPair(a, b) = HashPair(c, d) => a = c /\ b = d
BY DEF HashPair

LEMMA DigestsDiffer ==
    ASSUME NEW a, NEW b, NEW c
    PROVE  /\ HashTransaction(a) # HashPair(b, c)
           /\ HashTransaction(a) # EmptyRoot /\ HashPair(b, c) # EmptyRoot
<1>1. /\ Len(HashTransaction(a)) = 2 /\ Len(HashPair(b, c)) = 3
      /\ Len(EmptyRoot) = 1
  BY DEF HashTransaction, HashPair, EmptyRoot
<1>2. QED
  BY <1>1

IsLayer(s) == Len(s) \in Nat \ {0} /\ DOMAIN s = 1..Len(s)

LEMMA LayerOf ==
    ASSUME NEW m \in Nat \ {0}, NEW f, f = [i \in 1..m |-> f[i]]
    PROVE  IsLayer(f) /\ Len(f) = m
<1>1. f \in [1..m -> {f[i] : i \in 1..m}]
  OBVIOUS
<1>2. f \in Seq({f[i] : i \in 1..m})
  BY <1>1
<1>3. Len(f) = m
  BY <1>1, <1>2
<1>4. QED
  BY <1>2, <1>3 DEF IsLayer

\* Node i of the next layer is made of these two.
LeftOf(i)         == 2 * i - 1
RightOf(i, layer) == IF 2 * i <= Len(layer) THEN 2 * i ELSE 2 * i - 1

LEMMA NextLayerNodes ==
    ASSUME NEW s, IsLayer(s)
    PROVE  /\ IsLayer(NextLayer(s))
           /\ Len(NextLayer(s)) = (Len(s) + 1) \div 2
           /\ \A i \in 1..Len(NextLayer(s)) :
                 /\ LeftOf(i) \in 1..Len(s) /\ RightOf(i, s) \in 1..Len(s)
                 /\ NextLayer(s)[i] = HashPair(s[LeftOf(i)], s[RightOf(i, s)])
<1> DEFINE m == (Len(s) + 1) \div 2
           t == NextLayer(s)
<1>1. Len(s) \in Nat \ {0} /\ m \in Nat \ {0}
  BY DEF IsLayer
<1>2. t = [i \in 1..m |-> HashPair(s[LeftOf(i)], s[RightOf(i, s)])]
  BY DEF NextLayer, LeftOf, RightOf
<1>3. \A i \in 1..m : LeftOf(i) \in 1..Len(s) /\ RightOf(i, s) \in 1..Len(s)
  BY <1>1 DEF LeftOf, RightOf
<1> HIDE DEF t
<1>4. t = [i \in 1..m |-> t[i]]
  BY <1>2
<1> HIDE DEF m
<1>5. IsLayer(t) /\ Len(t) = m
  BY <1>1, <1>4, LayerOf
<1>6. QED
  BY <1>2, <1>3, <1>5 DEF t, m
\* The first layers of the tree above a list.
Tree(layers, txs) ==
    /\ Len(layers) # 0 /\ \E S : layers \in Seq(S)
    /\ Len(layers[1]) = Len(txs)
    /\ \A i \in 1..Len(txs) : layers[1][i] = HashTransaction(txs[i])
    /\ \A k \in 1..Len(layers) : IsLayer(layers[k])
    /\ \A k \in 1..Len(layers) - 1 :
          Len(layers[k]) # 1 /\ layers[k + 1] = NextLayer(layers[k])

Top(layers) == layers[Len(layers)]

\* With each round there are fewer nodes.
TreeAfter(layers, txs, rounds) ==
    /\ Tree(layers, txs)
    /\ Len(layers) + Len(Top(layers)) <= Len(txs) + 1
    /\ Len(Top(layers)) = 1 \/ Len(layers) = rounds + 1

LEMMA AppendedLayer ==
    ASSUME NEW layers, NEW txs, Tree(layers, txs), Len(Top(layers)) # 1
    PROVE  LET more == Append(layers, NextLayer(Top(layers)))
           IN  /\ Tree(more, txs)
               /\ Len(more) = Len(layers) + 1 /\ Top(more) = NextLayer(Top(layers))
<1> DEFINE next == NextLayer(Top(layers))
           more == Append(layers, next)
<1>1. PICK S : layers \in Seq(S)
  BY DEF Tree
<1>2. layers \in Seq(S \cup {next}) /\ Len(layers) \in Nat \ {0}
  BY <1>1 DEF Tree
<1>3. IsLayer(next)
  <2>1. IsLayer(Top(layers))
    BY <1>2 DEF Tree, Top
  <2>2. QED
    BY <2>1, NextLayerNodes
<1>4. Len(layers[Len(layers)]) # 1 /\ next = NextLayer(layers[Len(layers)])
  BY DEF Top
<1> HIDE DEF next
<1>5. /\ more \in Seq(S \cup {next}) /\ Len(more) = Len(layers) + 1
      /\ \A k \in 1..Len(layers) : more[k] = layers[k]
      /\ more[Len(layers) + 1] = next
  BY <1>2
<1> HIDE DEF more
<1>6. \A k \in 1..Len(more) : IsLayer(more[k])
  <2>1. \A k \in 1..Len(more) : k \in 1..Len(layers) \/ k = Len(layers) + 1
    BY <1>2, <1>5
  <2>2. QED
    BY <1>3, <1>5, <2>1 DEF Tree
<1>7. ASSUME NEW k \in 1..Len(more) - 1
      PROVE  Len(more[k]) # 1 /\ more[k + 1] = NextLayer(more[k])
  <2>1. k \in 1..Len(layers) /\ more[k] = layers[k]
    BY <1>2, <1>5
  <2>2. CASE k = Len(layers)
    BY <1>4, <1>5, <2>1, <2>2
  <2>3. CASE k # Len(layers)
    <3>1. k \in 1..Len(layers) - 1 /\ k + 1 \in 1..Len(layers)
      BY <1>2, <2>1, <2>3
    <3>2. QED
      BY <1>5, <2>1, <3>1 DEF Tree
  <2>4. QED
    BY <2>2, <2>3
<1>8. Len(more) # 0 /\ (\E T : more \in Seq(T)) /\ more[1] = layers[1]
  BY <1>2, <1>5
<1>9. Tree(more, txs)
  BY <1>6, <1>7, <1>8 DEF Tree
<1>10. Top(more) = next
  BY <1>5 DEF Top
<1>11. QED
  BY <1>5, <1>9, <1>10 DEF more, next

\* One round of the loop.
Round(layers) ==
    IF Len(Top(layers)) = 1 THEN layers ELSE Append(layers, NextLayer(Top(layers)))

LEMMA RoundOfLoop ==
    ASSUME NEW layers, NEW txs, Len(txs) \in Nat, NEW n \in Nat, TreeAfter(layers, txs, n)
    PROVE  TreeAfter(Round(layers), txs, n + 1)
<1>1. CASE Len(Top(layers)) = 1
  BY <1>1 DEF Round, TreeAfter
<1>2. CASE Len(Top(layers)) # 1
  <2> DEFINE more == Append(layers, NextLayer(Top(layers)))
  <2>1. /\ Tree(more, txs)
        /\ Len(more) = Len(layers) + 1 /\ Top(more) = NextLayer(Top(layers))
    BY <1>2, AppendedLayer DEF TreeAfter
  <2>2. Len(layers) \in Nat \ {0} /\ IsLayer(Top(layers))
    BY DEF TreeAfter, Tree, Top
  <2>3. Len(Top(more)) = (Len(Top(layers)) + 1) \div 2
    BY <2>1, <2>2, NextLayerNodes
  <2> HIDE DEF more
  <2>4. /\ Len(Top(layers)) \in Nat \ {0, 1}
        /\ Len(layers) + Len(Top(layers)) <= Len(txs) + 1 /\ Len(layers) = n + 1
    BY <1>2, <2>2 DEF TreeAfter, IsLayer
  <2>5. \A w \in Nat \ {0, 1} : (w + 1) \div 2 + 1 <= w /\ (w + 1) \div 2 \in Nat
    OBVIOUS
  <2>6. Len(Top(more)) + 1 <= Len(Top(layers)) /\ Len(Top(more)) \in Nat
    BY <2>3, <2>4, <2>5
  <2>7. TreeAfter(more, txs, n + 1)
    BY <2>1, <2>2, <2>4, <2>6 DEF TreeAfter
  <2>8. QED
    BY <1>2, <2>7 DEF Round, more
<1>3. QED
  BY <1>1, <1>2

\* The layers after each round of the loop.
Rounds(f, txs, m) ==
    f = [n \in 0..m |->
            IF n = 0 THEN << [i \in DOMAIN txs |-> HashTransaction(txs[i])] >>
                     ELSE Round(f[n - 1])]

LEMMA RoundsExist ==
    ASSUME NEW txs
    PROVE  \A m \in Nat : \E f : Rounds(f, txs, m)
<1> DEFINE first == << [i \in DOMAIN txs |-> HashTransaction(txs[i])] >>
           S == {m \in Nat : \E f : Rounds(f, txs, m)}
<1>1. 0 \in S
  <2> HIDE DEF first
  <2> DEFINE f == [n \in 0..0 |-> first]
  <2>1. f = [n \in 0..0 |-> IF n = 0 THEN first ELSE Round(f[n - 1])]
    OBVIOUS
  <2>2. Rounds(f, txs, 0)
    BY <2>1 DEF Rounds, first
  <2>3. QED
    BY <2>2
<1>2. ASSUME NEW m \in S PROVE m + 1 \in S
  <2>1. PICK f : Rounds(f, txs, m)
    OBVIOUS
  <2> DEFINE h == [n \in 0..m + 1 |-> IF n <= m THEN f[n] ELSE Round(f[m])]
  <2>2. f = [n \in 0..m |-> IF n = 0 THEN first ELSE Round(f[n - 1])]
    BY <2>1 DEF Rounds
  <2> HIDE DEF first
  <2>3. \A n \in 0..m : f[n] = IF n = 0 THEN first ELSE Round(f[n - 1])
    BY <2>2
  <2>4. ASSUME NEW n \in 0..m + 1 PROVE h[n] = IF n = 0 THEN first ELSE Round(h[n - 1])
    <3>1. CASE n <= m
      <4>1. n \in 0..m /\ h[n] = f[n]
        BY <3>1
      <4>2. n # 0 => h[n - 1] = f[n - 1]
        BY <3>1
      <4>3. QED
        BY <2>3, <4>1, <4>2
    <3>2. CASE ~(n <= m)
      <4>1. n = m + 1 /\ n # 0 /\ n - 1 = m /\ m \in 0..m + 1 /\ m <= m
        BY <3>2
      <4>2. h[n] = Round(f[m]) /\ h[m] = f[m]
        BY <3>2, <4>1
      <4>3. QED
        BY <4>1, <4>2
    <3>3. QED
      BY <3>1, <3>2
  <2>5. h = [n \in 0..m + 1 |-> h[n]]
    OBVIOUS
  <2> HIDE DEF h
  <2>6. Rounds(h, txs, m + 1)
    BY <2>4, <2>5 DEF Rounds, first
  <2>7. \E k : Rounds(k, txs, m + 1)
    BY <2>6
  <2>8. QED
    BY <2>7
<1>3. S \in SUBSET Nat
  OBVIOUS
<1> HIDE DEF S
<1>4. \A m \in Nat : m \in S
  BY <1>1, <1>2, <1>3, SetInduction
<1>5. QED
  BY <1>4 DEF S

\* The tree of a list that is not empty has a root.
LEMMA TreeBuilt ==
    ASSUME NEW S, NEW txs \in Seq(S), txs # <<>>
    PROVE  LET layers == BuildMerkleTree(txs)
           IN  /\ Tree(layers, txs)
               /\ Len(Top(layers)) = 1
               /\ Len(layers) <= Len(txs)
<1> DEFINE f == CHOOSE f : Rounds(f, txs, Len(txs))
<1>1. Len(txs) \in Nat \ {0} /\ DOMAIN txs = 1..Len(txs)
  OBVIOUS
<1>2. Rounds(f, txs, Len(txs))
  BY <1>1, RoundsExist
<1>3. BuildMerkleTree(txs) = f[Len(txs)]
  BY DEF BuildMerkleTree, Rounds, Round, Top
<1> HIDE DEF f
<1> DEFINE leaves == [i \in DOMAIN txs |-> HashTransaction(txs[i])]
<1>4. \A n \in 0..Len(txs) : f[n] = IF n = 0 THEN <<leaves>> ELSE Round(f[n - 1])
  BY <1>2 DEF Rounds
<1>5. IsLayer(leaves) /\ Len(leaves) = Len(txs)
      /\ \A i \in 1..Len(txs) : leaves[i] = HashTransaction(txs[i])
  <2>1. leaves = [i \in 1..Len(txs) |-> leaves[i]]
    BY <1>1
  <2>2. \A i \in 1..Len(txs) : leaves[i] = HashTransaction(txs[i])
    BY <1>1
  <2> HIDE DEF leaves
  <2>3. QED
    BY <1>1, <2>1, <2>2, LayerOf
<1> HIDE DEF leaves
<1> DEFINE T == {n \in Nat : n <= Len(txs) => TreeAfter(f[n], txs, n)}
<1>6. 0 \in T
  <2> DEFINE one == <<leaves>>
  <2>1. one \in Seq({leaves}) /\ Len(one) = 1 /\ one[1] = leaves
    OBVIOUS
  <2>2. f[0] = one
    BY <1>1, <1>4
  <2> HIDE DEF one
  <2>3. Tree(one, txs) /\ Top(one) = leaves
    <3>1. \A k \in 1..Len(one) : IsLayer(one[k])
      BY <1>5, <2>1
    <3>2. \A k \in 1..Len(one) - 1 : FALSE
      BY <2>1
    <3>3. QED
      BY <1>5, <2>1, <3>1, <3>2 DEF Tree, Top
  <2>4. Len(Top(one)) = Len(txs) /\ Len(one) = 1
    BY <1>5, <2>1, <2>3
  <2>5. TreeAfter(one, txs, 0)
    BY <1>1, <2>3, <2>4 DEF TreeAfter
  <2>6. QED
    BY <2>2, <2>5
<1>7. ASSUME NEW n \in T PROVE n + 1 \in T
  <2>1. CASE n + 1 <= Len(txs)
    <3>1. n \in 0..Len(txs) /\ n + 1 \in 0..Len(txs) /\ TreeAfter(f[n], txs, n)
      BY <1>1, <2>1
    <3>2. f[n + 1] = Round(f[n])
      BY <1>4, <3>1
    <3>3. TreeAfter(f[n + 1], txs, n + 1)
      BY <1>1, <3>1, <3>2, RoundOfLoop
    <3>4. QED
      BY <3>3
  <2>2. CASE ~(n + 1 <= Len(txs))
    BY <2>2
  <2>3. QED
    BY <2>1, <2>2
<1>8. T \in SUBSET Nat
  OBVIOUS
<1> HIDE DEF T
<1>9. Len(txs) \in T
  BY <1>1, <1>6, <1>7, <1>8, SetInduction
<1> DEFINE layers == BuildMerkleTree(txs)
<1>10. TreeAfter(layers, txs, Len(txs))
  BY <1>1, <1>3, <1>9 DEF T
<1> HIDE DEF layers
<1>11. Len(layers) \in Nat \ {0} /\ IsLayer(Top(layers))
  BY <1>10 DEF TreeAfter, Tree, Top
<1>12. Len(Top(layers)) = 1 /\ Len(layers) <= Len(txs)
  BY <1>1, <1>10, <1>11 DEF TreeAfter, IsLayer
<1>13. QED
  BY <1>10, <1>12 DEF TreeAfter, layers

(***************************************************************************)
(* Proofs.                                                                 *)
(***************************************************************************)
LEMMA Halves ==
    ASSUME NEW j \in Nat
    PROVE  /\ j \div 2 \in Nat
           /\ j % 2 = 1 => j = 2 * (j \div 2) + 1
           /\ j % 2 # 1 => j = 2 * (j \div 2)
OBVIOUS

LEMMA SiblingFields ==
    ASSUME NEW s, NEW j \in Nat
    PROVE  /\ j % 2 = 1 =>
                 /\ Sibling(s, j).position = "left"
                 /\ Sibling(s, j).hash = s[(IF j - 1 < Len(s) THEN j - 1 ELSE j) + 1]
           /\ j % 2 # 1 =>
                 /\ Sibling(s, j).position = "right"
                 /\ Sibling(s, j).hash = s[(IF j + 1 < Len(s) THEN j + 1 ELSE j) + 1]
BY DEF Sibling

\* With its sibling a node gives the node above both.
LEMMA NodeAbove ==
    ASSUME NEW s, IsLayer(s), NEW j \in Nat, j < Len(s)
    PROVE  /\ j \div 2 \in Nat /\ j \div 2 < Len(NextLayer(s))
           /\ Up(s[j + 1], Sibling(s, j)) = NextLayer(s)[j \div 2 + 1]
<1> DEFINE h == j \div 2
<1>1. h \in Nat /\ (j % 2 = 1 => j = 2 * h + 1) /\ (j % 2 # 1 => j = 2 * h)
  BY Halves
<1>2. Len(s) \in Nat
  BY DEF IsLayer
<1>3. /\ Len(NextLayer(s)) = (Len(s) + 1) \div 2
      /\ \A i \in 1..Len(NextLayer(s)) :
            NextLayer(s)[i] = HashPair(s[LeftOf(i)], s[RightOf(i, s)])
  BY NextLayerNodes
<1>4. h < (Len(s) + 1) \div 2
  BY <1>2
<1>5. h + 1 \in 1..Len(NextLayer(s))
  BY <1>1, <1>2, <1>3, <1>4
<1>6. NextLayer(s)[h + 1] = HashPair(s[LeftOf(h + 1)], s[RightOf(h + 1, s)])
  BY <1>3, <1>5
<1> HIDE DEF h
<1>7. CASE j % 2 = 1
  <2>1. LeftOf(h + 1) = j /\ RightOf(h + 1, s) = j + 1
    BY <1>1, <1>2, <1>7 DEF LeftOf, RightOf
  <2>2. Sibling(s, j).position = "left" /\ Sibling(s, j).hash = s[j]
    <3>1. (IF j - 1 < Len(s) THEN j - 1 ELSE j) + 1 = j
      BY <1>2
    <3>2. QED
      BY <1>7, <3>1, SiblingFields
  <2>3. Up(s[j + 1], Sibling(s, j)) = HashPair(s[j], s[j + 1])
    BY <2>2 DEF Up
  <2>4. QED
    BY <1>1, <1>3, <1>4, <1>6, <2>1, <2>3 DEF h
<1>8. CASE j % 2 # 1
  <2>1. LeftOf(h + 1) = j + 1 /\ RightOf(h + 1, s) = (IF j + 1 < Len(s) THEN j + 1 ELSE j) + 1
    BY <1>1, <1>2, <1>8 DEF LeftOf, RightOf
  <2>2. /\ Sibling(s, j).position = "right"
        /\ Sibling(s, j).hash = s[(IF j + 1 < Len(s) THEN j + 1 ELSE j) + 1]
    BY <1>8, SiblingFields
  <2>3. Up(s[j + 1], Sibling(s, j)) = HashPair(s[j + 1], Sibling(s, j).hash)
    BY <2>2 DEF Up
  <2>4. QED
    BY <1>1, <1>3, <1>4, <1>6, <2>1, <2>2, <2>3 DEF h
<1>9. QED
  BY <1>7, <1>8

\* The hashes verifyMerkleProof goes through.
Climbs(f, tx, proof, m) ==
    f = [n \in 0..m |-> IF n = 0 THEN HashTransaction(tx) ELSE Up(f[n - 1], proof[n])]

LEMMA ClimbsExist ==
    ASSUME NEW tx, NEW proof
    PROVE  \A m \in Nat : \E f : Climbs(f, tx, proof, m)
<1> DEFINE S == {m \in Nat : \E f : Climbs(f, tx, proof, m)}
<1>1. 0 \in S
  <2> DEFINE f == [n \in 0..0 |-> HashTransaction(tx)]
  <2>1. f = [n \in 0..0 |-> IF n = 0 THEN HashTransaction(tx) ELSE Up(f[n - 1], proof[n])]
    OBVIOUS
  <2>2. Climbs(f, tx, proof, 0)
    BY <2>1 DEF Climbs
  <2>3. QED
    BY <2>2
<1>2. ASSUME NEW m \in S PROVE m + 1 \in S
  <2>1. PICK f : Climbs(f, tx, proof, m)
    OBVIOUS
  <2> DEFINE h == [n \in 0..m + 1 |-> IF n <= m THEN f[n] ELSE Up(f[m], proof[m + 1])]
  <2>2. \A n \in 0..m : f[n] = IF n = 0 THEN HashTransaction(tx) ELSE Up(f[n - 1], proof[n])
    BY <2>1 DEF Climbs
  <2>3. ASSUME NEW n \in 0..m + 1
        PROVE  h[n] = IF n = 0 THEN HashTransaction(tx) ELSE Up(h[n - 1], proof[n])
    <3>1. CASE n <= m
      <4>1. n \in 0..m /\ h[n] = f[n]
        BY <3>1
      <4>2. n # 0 => h[n - 1] = f[n - 1]
        BY <3>1
      <4>3. QED
        BY <2>2, <4>1, <4>2
    <3>2. CASE ~(n <= m)
      <4>1. n = m + 1 /\ n # 0 /\ n - 1 = m /\ m \in 0..m + 1 /\ m <= m
        BY <3>2
      <4>2. h[n] = Up(f[m], proof[m + 1]) /\ h[m] = f[m]
        BY <3>2, <4>1
      <4>3. QED
        BY <4>1, <4>2
    <3>3. QED
      BY <3>1, <3>2
  <2>4. h = [n \in 0..m + 1 |-> h[n]]
    OBVIOUS
  <2> HIDE DEF h
  <2>5. Climbs(h, tx, proof, m + 1)
    BY <2>3, <2>4 DEF Climbs
  <2>6. \E k : Climbs(k, tx, proof, m + 1)
    BY <2>5
  <2>7. QED
    BY <2>6
<1>3. S \in SUBSET Nat
  OBVIOUS
<1> HIDE DEF S
<1>4. \A m \in Nat : m \in S
  BY <1>1, <1>2, <1>3, SetInduction
<1>5. QED
  BY <1>4 DEF S

LEMMA Verification ==
    ASSUME NEW tx, NEW proof, Len(proof) \in Nat, NEW root
    PROVE  \E f : /\ f[0] = HashTransaction(tx)
                  /\ \A n \in 1..Len(proof) : f[n] = Up(f[n - 1], proof[n])
                  /\ VerifyMerkleProof(tx, proof, root) <=> f[Len(proof)] = root
<1> DEFINE f == CHOOSE f : Climbs(f, tx, proof, Len(proof))
<1>1. Climbs(f, tx, proof, Len(proof))
  BY ClimbsExist
<1>2. VerifyMerkleProof(tx, proof, root) <=> f[Len(proof)] = root
  BY DEF VerifyMerkleProof, Climbs
<1> HIDE DEF f
<1>3. \A n \in 0..Len(proof) :
          f[n] = IF n = 0 THEN HashTransaction(tx) ELSE Up(f[n - 1], proof[n])
  BY <1>1 DEF Climbs
<1>4. f[0] = HashTransaction(tx) /\ \A n \in 1..Len(proof) : f[n] = Up(f[n - 1], proof[n])
  BY <1>3
<1>5. QED
  BY <1>2, <1>4

\* getMerkleProof takes the siblings on the way up from leaf i.
LEMMA ProofTaken ==
    ASSUME NEW txs, NEW i \in Nat, Len(BuildMerkleTree(txs)) \in Nat \ {0}
    PROVE  LET layers == BuildMerkleTree(txs)
               proof  == GetMerkleProof(txs, i)
           IN  \E index \in [0..Len(layers) -> Nat] :
                  /\ index[0] = i
                  /\ \A k \in 1..Len(layers) : index[k] = index[k - 1] \div 2
                  /\ Len(proof) = Len(layers) - 1
                  /\ \A k \in 1..Len(layers) - 1 : proof[k] = Sibling(layers[k], index[k - 1])
<1> DEFINE layers == BuildMerkleTree(txs)
           g == [x \in Nat \X Nat |-> x[1] \div 2]
           Is(f) == f = [level \in 0..Len(layers) |-> IF level = 0 THEN i ELSE f[level - 1] \div 2]
           index == CHOOSE f : Is(f)
<1>1. \A n \in Nat : n \div 2 \in Nat
  OBVIOUS
<1>2. g \in [Nat \X Nat -> Nat]
  BY <1>1
<1>3. \A n, m \in Nat : g[<<n, m>>] = n \div 2
  OBVIOUS
<1> HIDE DEF g
<1>4. PICK f \in [0..Len(layers) -> Nat] : Iterates(f, g, i, Len(layers))
  BY <1>2, NumbersByRecursion
<1>5. \A k \in 0..Len(layers) : f[k] = IF k = 0 THEN i ELSE g[<<f[k - 1], k>>]
  BY <1>4 DEF Iterates
<1> HIDE DEF layers
<1>6. ASSUME NEW k \in 0..Len(layers)
      PROVE  f[k] = IF k = 0 THEN i ELSE f[k - 1] \div 2
  <2>1. k # 0 => k - 1 \in 0..Len(layers) /\ k \in Nat
    BY DEF layers
  <2>2. k # 0 => f[k - 1] \in Nat
    BY <2>1
  <2>3. QED
    BY <1>3, <1>5, <2>1, <2>2
<1>7. Is(f)
  BY <1>6
<1>8. Is(index)
  BY <1>7
<1>9. GetMerkleProof(txs, i) = [k \in 1..Len(layers) - 1 |-> Sibling(layers[k], index[k - 1])]
  BY DEF GetMerkleProof, layers
<1> HIDE DEF index
<1>10. \A k \in 0..Len(layers) : index[k] = IF k = 0 THEN i ELSE index[k - 1] \div 2
  BY <1>8
<1>11. Len(layers) \in Nat \ {0}
  BY DEF layers
<1> DEFINE T == {k \in Nat : k <= Len(layers) => index[k] \in Nat}
<1>12. 0 \in T
  BY <1>10, <1>11
<1>13. ASSUME NEW k \in T PROVE k + 1 \in T
  <2>1. CASE k + 1 <= Len(layers)
    <3>1. k + 1 \in 0..Len(layers) /\ k + 1 # 0 /\ (k + 1) - 1 = k /\ index[k] \in Nat
      BY <1>11, <2>1
    <3>2. index[k + 1] = index[k] \div 2
      BY <1>10, <3>1
    <3>3. QED
      BY <1>1, <3>1, <3>2
  <2>2. CASE ~(k + 1 <= Len(layers))
    BY <2>2
  <2>3. QED
    BY <2>1, <2>2
<1>14. T \in SUBSET Nat
  OBVIOUS
<1> HIDE DEF T
<1>15. \A k \in Nat : k \in T
  BY <1>12, <1>13, <1>14, SetInduction
<1>16. \A k \in 0..Len(layers) : index[k] \in Nat
  BY <1>11, <1>15 DEF T
<1>17. index \in [0..Len(layers) -> Nat]
  BY <1>8, <1>16
<1> HIDE DEF Is
<1>18. index[0] = i /\ \A k \in 1..Len(layers) : index[k] = index[k - 1] \div 2
  BY <1>10, <1>11
<1>19. Len(GetMerkleProof(txs, i)) = Len(layers) - 1
  <2> DEFINE p == GetMerkleProof(txs, i)
             V == {Sibling(layers[k], index[k - 1]) : k \in 1..Len(layers) - 1}
  <2>1. p \in [1..Len(layers) - 1 -> V]
    BY <1>9
  <2> HIDE DEF p, V
  <2>2. Len(layers) - 1 \in Nat
    BY <1>11
  <2>3. Len(p) = Len(layers) - 1
    BY <2>1, <2>2
  <2>4. QED
    BY <2>3 DEF p
<1>20. QED
  BY <1>9, <1>17, <1>18, <1>19 DEF layers

LEMMA UpTellsApart ==
    ASSUME NEW a, NEW b, NEW step, Up(a, step) = Up(b, step)
    PROVE  a = b
<1>1. CASE step.position = "left"
  <2>1. HashPair(step.hash, a) = HashPair(step.hash, b)
    BY <1>1 DEF Up
  <2>2. QED
    BY <2>1, PairDigests
<1>2. CASE step.position # "left"
  <2>1. HashPair(a, step.hash) = HashPair(b, step.hash)
    BY <1>2 DEF Up
  <2>2. QED
    BY <2>1, PairDigests
<1>3. QED
  BY <1>1, <1>2

\* Two transactions that climb the same siblings never meet.
LEMMA ClimbsStayApart ==
    ASSUME NEW proof, NEW m \in Nat, NEW f, NEW g, f[m] = g[m],
           \A n \in 1..m : f[n] = Up(f[n - 1], proof[n]) /\ g[n] = Up(g[n - 1], proof[n])
    PROVE  f[0] = g[0]
<1> DEFINE T == {n \in Nat : n <= m /\ f[n] = g[n] => f[0] = g[0]}
<1>1. 0 \in T
  OBVIOUS
<1>2. ASSUME NEW n \in T PROVE n + 1 \in T
  <2> SUFFICES ASSUME n + 1 <= m, f[n + 1] = g[n + 1] PROVE f[0] = g[0]
    OBVIOUS
  <2>1. n + 1 \in 1..m /\ (n + 1) - 1 = n /\ n <= m
    OBVIOUS
  <2>2. Up(f[n], proof[n + 1]) = Up(g[n], proof[n + 1])
    BY <2>1
  <2>3. f[n] = g[n]
    BY <2>2, UpTellsApart
  <2>4. QED
    BY <2>1, <2>3
<1>3. T \in SUBSET Nat
  OBVIOUS
<1> HIDE DEF T
<1>4. m \in T
  BY <1>1, <1>2, <1>3, SetInduction
<1>5. QED
  BY <1>4 DEF T

\* The proof of a place verifies for the transaction there and for no other.
LEMMA ProofOfPlace ==
    ASSUME NEW S, NEW txs \in Seq(S), NEW i \in 0..Len(txs) - 1, NEW tx
    PROVE  VerifyMerkleProof(tx, GetMerkleProof(txs, i), GetMerkleRoot(txs)) <=> tx = txs[i + 1]
<1> DEFINE layers == BuildMerkleTree(txs)
           proof  == GetMerkleProof(txs, i)
           root   == GetMerkleRoot(txs)
<1>1. Len(txs) \in Nat /\ txs # <<>> /\ i \in Nat /\ i < Len(txs)
  OBVIOUS
<1>2. Tree(layers, txs) /\ Len(Top(layers)) = 1
  BY <1>1, TreeBuilt
<1>3. Len(layers) \in Nat \ {0}
  <2> HIDE DEF layers
  <2>1. QED
    BY <1>2 DEF Tree
<1>4. PICK index \in [0..Len(layers) -> Nat] :
          /\ index[0] = i
          /\ \A k \in 1..Len(layers) : index[k] = index[k - 1] \div 2
          /\ Len(proof) = Len(layers) - 1
          /\ \A k \in 1..Len(layers) - 1 : proof[k] = Sibling(layers[k], index[k - 1])
  <2>1. i \in Nat
    BY <1>1
  <2>2. Len(BuildMerkleTree(txs)) \in Nat \ {0}
    BY <1>3
  <2>3. QED
    BY <2>1, <2>2, ProofTaken, Zenon
<1>5. root = layers[Len(layers)][1]
  BY DEF GetMerkleRoot
<1> HIDE DEF layers, proof, root
<1>6. Len(proof) \in Nat
  BY <1>3, <1>4
<1>7. PICK f : /\ f[0] = HashTransaction(txs[i + 1])
               /\ \A n \in 1..Len(proof) : f[n] = Up(f[n - 1], proof[n])
  <2>1. PICK own : own = txs[i + 1]
    OBVIOUS
  <2>2. PICK f : /\ f[0] = HashTransaction(own)
                 /\ \A n \in 1..Len(proof) : f[n] = Up(f[n - 1], proof[n])
                 /\ VerifyMerkleProof(own, proof, root) <=> f[Len(proof)] = root
    BY <1>6, Verification
  <2>3. QED
    BY <2>1, <2>2
<1>8. PICK g : /\ g[0] = HashTransaction(tx)
               /\ \A n \in 1..Len(proof) : g[n] = Up(g[n - 1], proof[n])
               /\ VerifyMerkleProof(tx, proof, root) <=> g[Len(proof)] = root
  BY <1>6, Verification
<1> DEFINE T == {k \in Nat : k < Len(layers) =>
                     /\ index[k] \in Nat /\ index[k] < Len(layers[k + 1])
                     /\ f[k] = layers[k + 1][index[k] + 1]
                     /\ tx = txs[i + 1] => g[k] = f[k]}
<1>9. 0 \in T
  <2>1. Len(layers[1]) = Len(txs) /\ layers[1][i + 1] = HashTransaction(txs[i + 1])
    BY <1>1, <1>2 DEF Tree
  <2>2. QED
    BY <1>1, <1>4, <1>7, <1>8, <2>1
<1>10. ASSUME NEW k \in T PROVE k + 1 \in T
  <2> SUFFICES ASSUME k + 1 < Len(layers)
               PROVE  /\ index[k + 1] \in Nat /\ index[k + 1] < Len(layers[(k + 1) + 1])
                      /\ f[k + 1] = layers[(k + 1) + 1][index[k + 1] + 1]
                      /\ tx = txs[i + 1] => g[k + 1] = f[k + 1]
    OBVIOUS
  <2>1. /\ k \in Nat /\ k < Len(layers) /\ (k + 1) - 1 = k
        /\ k + 1 \in 1..Len(layers) /\ k + 1 \in 1..Len(layers) - 1
        /\ k + 1 \in 1..Len(proof)
    BY <1>3, <1>4
  <2>2. /\ index[k] \in Nat /\ index[k] < Len(layers[k + 1])
        /\ f[k] = layers[k + 1][index[k] + 1]
        /\ tx = txs[i + 1] => g[k] = f[k]
    BY <2>1
  <2>3. IsLayer(layers[k + 1]) /\ layers[(k + 1) + 1] = NextLayer(layers[k + 1])
    BY <1>2, <2>1 DEF Tree
  <2>4. index[k + 1] = index[k] \div 2 /\ proof[k + 1] = Sibling(layers[k + 1], index[k])
    BY <1>4, <2>1
  <2>5. f[k + 1] = Up(f[k], proof[k + 1]) /\ g[k + 1] = Up(g[k], proof[k + 1])
    BY <1>7, <1>8, <2>1
  <2>6. /\ index[k] \div 2 \in Nat /\ index[k] \div 2 < Len(NextLayer(layers[k + 1]))
        /\ Up(layers[k + 1][index[k] + 1], Sibling(layers[k + 1], index[k]))
              = NextLayer(layers[k + 1])[index[k] \div 2 + 1]
    BY <2>2, <2>3, NodeAbove
  <2>7. QED
    BY <2>2, <2>3, <2>4, <2>5, <2>6
<1>11. T \in SUBSET Nat
  OBVIOUS
<1> HIDE DEF T
<1>12. Len(proof) \in T
  BY <1>6, <1>9, <1>10, <1>11, SetInduction
<1>13. /\ index[Len(proof)] \in Nat /\ index[Len(proof)] < Len(layers[Len(layers)])
       /\ f[Len(proof)] = layers[Len(layers)][index[Len(proof)] + 1]
       /\ tx = txs[i + 1] => g[Len(proof)] = f[Len(proof)]
  <2>1. Len(proof) + 1 = Len(layers) /\ Len(proof) < Len(layers)
    BY <1>3, <1>4
  <2>2. QED
    BY <1>12, <2>1 DEF T
<1>14. f[Len(proof)] = root
  BY <1>2, <1>5, <1>13 DEF Top
<1>15. ASSUME g[Len(proof)] = f[Len(proof)] PROVE tx = txs[i + 1]
  <2>1. PICK m \in Nat : m = Len(proof)
    BY <1>6
  <2>2. /\ f[m] = g[m]
        /\ \A n \in 1..m : f[n] = Up(f[n - 1], proof[n]) /\ g[n] = Up(g[n - 1], proof[n])
    BY <1>7, <1>8, <1>15, <2>1
  <2>3. f[0] = g[0]
    BY <2>2, ClimbsStayApart
  <2>4. QED
    BY <1>7, <1>8, <2>3, LeafDigests
<1>16. QED
  BY <1>8, <1>13, <1>14, <1>15 DEF proof, root

(***************************************************************************)
(* Roots.                                                                  *)
(***************************************************************************)
LEMMA WidthsHalve ==
    ASSUME NEW n \in Nat
    PROVE  /\ Widths(n)[0] = n
           /\ \A k \in 1..n : Widths(n)[k] = (Widths(n)[k - 1] + 1) \div 2
<1> DEFINE g == [x \in Nat \X Nat |-> (x[1] + 1) \div 2]
           Is(f) == f = [level \in 0..n |-> IF level = 0 THEN n ELSE (f[level - 1] + 1) \div 2]
           width == CHOOSE f : Is(f)
<1>1. \A k \in Nat : (k + 1) \div 2 \in Nat
  OBVIOUS
<1>2. g \in [Nat \X Nat -> Nat]
  BY <1>1
<1>3. \A k, m \in Nat : g[<<k, m>>] = (k + 1) \div 2
  OBVIOUS
<1> HIDE DEF g
<1>4. PICK f \in [0..n -> Nat] : Iterates(f, g, n, n)
  BY <1>2, NumbersByRecursion
<1>5. \A k \in 0..n : f[k] = IF k = 0 THEN n ELSE g[<<f[k - 1], k>>]
  BY <1>4 DEF Iterates
<1>6. ASSUME NEW k \in 0..n
      PROVE  f[k] = IF k = 0 THEN n ELSE (f[k - 1] + 1) \div 2
  <2>1. k # 0 => k - 1 \in 0..n /\ k \in Nat
    OBVIOUS
  <2>2. k # 0 => f[k - 1] \in Nat
    BY <2>1
  <2>3. QED
    BY <1>3, <1>5, <2>1, <2>2
<1>7. Is(f)
  BY <1>6
<1>8. Is(width)
  BY <1>7
<1>9. Widths(n) = width
  BY DEF Widths
<1> HIDE DEF width
<1>10. \A k \in 0..n : width[k] = IF k = 0 THEN n ELSE (width[k - 1] + 1) \div 2
  BY <1>8
<1>11. QED
  BY <1>9, <1>10

\* The widths are those of the layers, and the height is their number.
LEMMA WidthsOfLayers ==
    ASSUME NEW S, NEW txs \in Seq(S), txs # <<>>
    PROVE  LET layers == BuildMerkleTree(txs)
           IN  /\ Height(Len(txs)) = Len(layers) - 1
               /\ \A k \in 1..Len(layers) : Widths(Len(txs))[k - 1] = Len(layers[k])
<1> DEFINE layers == BuildMerkleTree(txs)
           w == Widths(Len(txs))
<1>1. Len(txs) \in Nat
  OBVIOUS
<1>2. Tree(layers, txs) /\ Len(Top(layers)) = 1 /\ Len(layers) <= Len(txs)
  BY TreeBuilt
<1>3. w[0] = Len(txs) /\ \A k \in 1..Len(txs) : w[k] = (w[k - 1] + 1) \div 2
  BY <1>1, WidthsHalve
<1>4. Height(Len(txs)) = CHOOSE h \in 0..Len(txs) : w[h] = 1 /\ \A k \in 0..h - 1 : w[k] # 1
  BY DEF Height
<1> HIDE DEF layers, w
<1>5. Len(layers) \in Nat \ {0}
  BY <1>2 DEF Tree
<1> DEFINE T == {k \in Nat : k < Len(layers) => w[k] = Len(layers[k + 1])}
<1>6. 0 \in T
  BY <1>2, <1>3 DEF Tree
<1>7. ASSUME NEW k \in T PROVE k + 1 \in T
  <2> SUFFICES ASSUME k + 1 < Len(layers) PROVE w[k + 1] = Len(layers[(k + 1) + 1])
    OBVIOUS
  <2>1. /\ k \in Nat /\ k < Len(layers) /\ k + 1 \in 1..Len(layers) - 1
        /\ k + 1 \in 1..Len(txs) /\ (k + 1) - 1 = k /\ k + 1 \in 1..Len(layers)
    BY <1>1, <1>2, <1>5
  <2>2. IsLayer(layers[k + 1]) /\ layers[(k + 1) + 1] = NextLayer(layers[k + 1])
    BY <1>2, <2>1 DEF Tree
  <2>3. Len(layers[(k + 1) + 1]) = (Len(layers[k + 1]) + 1) \div 2
    BY <2>2, NextLayerNodes
  <2>4. w[k] = Len(layers[k + 1])
    BY <2>1
  <2>5. w[k + 1] = (w[k] + 1) \div 2
    BY <1>3, <2>1
  <2>6. QED
    BY <2>3, <2>4, <2>5
<1>8. T \in SUBSET Nat
  OBVIOUS
<1> HIDE DEF T
<1>9. \A k \in Nat : k \in T
  BY <1>6, <1>7, <1>8, SetInduction
<1>10. \A k \in 1..Len(layers) : w[k - 1] = Len(layers[k])
  <2> SUFFICES ASSUME NEW k \in 1..Len(layers) PROVE w[k - 1] = Len(layers[k])
    OBVIOUS
  <2>1. k - 1 \in Nat /\ k - 1 < Len(layers) /\ (k - 1) + 1 = k
    BY <1>5
  <2>2. QED
    BY <1>9, <2>1 DEF T
<1> DEFINE h == Len(layers) - 1
<1>11. h \in 0..Len(txs) /\ w[h] = 1
  <2>1. Len(layers[Len(layers)]) = 1 /\ Len(layers) <= Len(txs)
    BY <1>2 DEF Top
  <2>2. w[Len(layers) - 1] = Len(layers[Len(layers)])
    BY <1>5, <1>10
  <2>3. QED
    BY <1>1, <1>5, <2>1, <2>2
<1>12. \A k \in 0..h - 1 : w[k] # 1
  <2> SUFFICES ASSUME NEW k \in 0..h - 1 PROVE w[k] # 1
    OBVIOUS
  <2>1. k + 1 \in 1..Len(layers) - 1 /\ k + 1 \in 1..Len(layers) /\ (k + 1) - 1 = k
    BY <1>5
  <2>2. Len(layers[k + 1]) # 1
    BY <1>2, <2>1 DEF Tree
  <2>3. QED
    BY <1>10, <2>1, <2>2
<1>13. ASSUME NEW g \in 0..Len(txs), w[g] = 1, \A k \in 0..g - 1 : w[k] # 1
       PROVE  g = h
  <2>1. h \in Nat /\ g \in Nat
    BY <1>5
  <2>2. ~(g < h) /\ ~(h < g)
    BY <1>11, <1>12, <1>13, <2>1
  <2>3. QED
    BY <2>1, <2>2
<1> HIDE DEF h
<1>14. Height(Len(txs)) = h
  BY <1>4, <1>11, <1>12, <1>13
<1>15. QED
  BY <1>10, <1>14 DEF h, layers, w

\* The two nodes below a node, by their turns.
LEMMA NodesBelow ==
    ASSUME NEW s, IsLayer(s), NEW v \in Nat, v < Len(NextLayer(s))
    PROVE  /\ \A turn \in {0, 1} : Child(v, turn, Len(s)) \in Nat /\ Child(v, turn, Len(s)) < Len(s)
           /\ NextLayer(s)[v + 1] =
                 HashPair(s[Child(v, 0, Len(s)) + 1], s[Child(v, 1, Len(s)) + 1])
<1>1. Len(s) \in Nat \ {0}
  BY DEF IsLayer
<1>2. /\ Len(NextLayer(s)) = (Len(s) + 1) \div 2
      /\ \A i \in 1..Len(NextLayer(s)) :
            /\ LeftOf(i) \in 1..Len(s) /\ RightOf(i, s) \in 1..Len(s)
            /\ NextLayer(s)[i] = HashPair(s[LeftOf(i)], s[RightOf(i, s)])
  BY NextLayerNodes
<1>3. v + 1 \in 1..Len(NextLayer(s))
  BY <1>1, <1>2
<1>4. Child(v, 0, Len(s)) + 1 = LeftOf(v + 1) /\ Child(v, 1, Len(s)) + 1 = RightOf(v + 1, s)
  <2>1. LeftOf(v + 1) \in 1..Len(s)
    BY <1>2, <1>3
  <2>2. 2 * v < Len(s)
    BY <1>1, <2>1 DEF LeftOf
  <2>3. QED
    BY <1>1, <2>2 DEF Child, LeftOf, RightOf
<1>5. \A turn \in {0, 1} : Child(v, turn, Len(s)) \in Nat /\ Child(v, turn, Len(s)) < Len(s)
  <2>1. /\ LeftOf(v + 1) \in 1..Len(s) /\ RightOf(v + 1, s) \in 1..Len(s)
    BY <1>2, <1>3
  <2>2. \A turn \in {0, 1} : Child(v, turn, Len(s)) \in Int
    BY <1>1 DEF Child
  <2>3. QED
    BY <1>1, <1>4, <2>1, <2>2
<1>6. NextLayer(s)[v + 1] = HashPair(s[LeftOf(v + 1)], s[RightOf(v + 1, s)])
  BY <1>2, <1>3
<1>7. QED
  BY <1>4, <1>5, <1>6

\* The nodes on a path from the root, one layer down at a time.
Walk(place, txs, path) ==
    LET layers == BuildMerkleTree(txs)
        h      == Len(layers) - 1
    IN  /\ place[0] = 0
        /\ \A d \in 1..h : place[d] = Child(place[d - 1], path[d], Len(layers[h + 1 - d]))
        /\ \A d \in 0..h : place[d] \in Nat /\ place[d] < Len(layers[h + 1 - d])
        /\ FilledUp(txs)[path] = txs[place[h] + 1]

Paths(txs) == [1..Len(BuildMerkleTree(txs)) - 1 -> {0, 1}]

LEMMA ChildIsNumber ==
    ASSUME NEW v \in Nat, NEW turn \in {0, 1}, NEW width \in Nat \ {0}
    PROVE  Child(v, turn, width) \in Nat
BY DEF Child

LEMMA PathsWalked ==
    ASSUME NEW S, NEW txs \in Seq(S), txs # <<>>, NEW path \in Paths(txs)
    PROVE  \E place : Walk(place, txs, path)
<1> DEFINE layers == BuildMerkleTree(txs)
           h == Len(layers) - 1
           width(d) == Len(layers[h + 1 - d])
           g == [x \in Nat \X Nat |->
                    IF x[2] \in 1..h THEN Child(x[1], path[x[2]], width(x[2])) ELSE 0]
           Is(f) == f = [d \in 0..h |-> IF d = 0 THEN 0 ELSE Child(f[d - 1], path[d], width(d))]
           place == CHOOSE f : Is(f)
<1>1. Tree(layers, txs) /\ Len(Top(layers)) = 1
  BY TreeBuilt
<1>2. /\ Height(Len(txs)) = h
      /\ \A k \in 1..Len(layers) : Widths(Len(txs))[k - 1] = Len(layers[k])
  BY WidthsOfLayers
<1>3. path \in [1..h -> {0, 1}]
  BY DEF Paths
<1> HIDE DEF layers
<1>4. Len(layers) \in Nat \ {0} /\ h \in Nat
  BY <1>1 DEF Tree
<1>5. ASSUME NEW d \in 0..h
      PROVE  h + 1 - d \in 1..Len(layers) /\ IsLayer(layers[h + 1 - d]) /\ width(d) \in Nat \ {0}
  <2>1. h + 1 - d \in 1..Len(layers)
    BY <1>4
  <2>2. IsLayer(layers[h + 1 - d])
    BY <1>1, <2>1 DEF Tree
  <2>3. QED
    BY <2>1, <2>2 DEF IsLayer
<1>6. \A d \in 1..h : Widths(Len(txs))[h - d] = width(d)
  <2> SUFFICES ASSUME NEW d \in 1..h PROVE Widths(Len(txs))[h - d] = width(d)
    OBVIOUS
  <2>1. h + 1 - d \in 1..Len(layers) /\ (h + 1 - d) - 1 = h - d
    BY <1>4
  <2>2. QED
    BY <1>2, <2>1
<1>7. LeafAt(Len(txs), path) = place[h]
  <2> DEFINE Pf(f) == f = [d \in 0..h |-> IF d = 0 THEN 0
                                 ELSE Child(f[d - 1], path[d], Widths(Len(txs))[h - d])]
  <2>1. ASSUME NEW f PROVE Pf(f) <=> Is(f)
    <3>1. ASSUME NEW d \in 0..h
          PROVE  (IF d = 0 THEN 0 ELSE Child(f[d - 1], path[d], Widths(Len(txs))[h - d]))
                    = (IF d = 0 THEN 0 ELSE Child(f[d - 1], path[d], width(d)))
      <4>1. d # 0 => d \in 1..h
        BY <1>4
      <4>2. QED
        BY <1>6, <4>1
    <3> HIDE DEF width, h
    <3>2. [d \in 0..h |-> IF d = 0 THEN 0 ELSE Child(f[d - 1], path[d], Widths(Len(txs))[h - d])]
             = [d \in 0..h |-> IF d = 0 THEN 0 ELSE Child(f[d - 1], path[d], width(d))]
      BY <3>1
    <3>3. QED
      BY <3>2
  <2>2. LeafAt(Len(txs), path) = (CHOOSE f : Pf(f))[h]
    BY <1>2 DEF LeafAt
  <2> HIDE DEF Pf, Is
  <2>3. (CHOOSE f : Pf(f)) = (CHOOSE f : Is(f))
    BY <2>1
  <2>4. QED
    BY <2>2, <2>3
<1> HIDE DEF h, width
<1>8. ASSUME NEW v \in Nat, NEW d \in 1..h PROVE Child(v, path[d], width(d)) \in Nat
  <2>1. d \in 0..h /\ path[d] \in {0, 1}
    BY <1>3, <1>4
  <2>2. width(d) \in Nat \ {0}
    BY <1>5, <2>1
  <2>3. PICK turn \in {0, 1} : turn = path[d]
    BY <2>1
  <2>4. PICK w \in Nat \ {0} : w = width(d)
    BY <2>2
  <2>5. Child(v, turn, w) \in Nat
    BY ChildIsNumber
  <2>6. QED
    BY <2>3, <2>4, <2>5
<1>9. g \in [Nat \X Nat -> Nat]
  <2>1. ASSUME NEW x \in Nat \X Nat
        PROVE  (IF x[2] \in 1..h THEN Child(x[1], path[x[2]], width(x[2])) ELSE 0) \in Nat
    BY <1>8
  <2>2. QED
    BY <2>1
<1>10. ASSUME NEW v \in Nat, NEW d \in 1..h PROVE g[<<v, d>>] = Child(v, path[d], width(d))
  <2>1. d \in Nat
    BY <1>4
  <2>2. QED
    BY <2>1
<1> HIDE DEF g
<1>11. PICK f \in [0..h -> Nat] : Iterates(f, g, 0, h)
  BY <1>4, <1>9, NumbersByRecursion
<1>12. \A d \in 0..h : f[d] = IF d = 0 THEN 0 ELSE g[<<f[d - 1], d>>]
  BY <1>11 DEF Iterates
<1>13. ASSUME NEW d \in 0..h
       PROVE  f[d] = IF d = 0 THEN 0 ELSE Child(f[d - 1], path[d], width(d))
  <2>1. d # 0 => d - 1 \in 0..h /\ d \in 1..h
    BY <1>4
  <2>2. d # 0 => f[d - 1] \in Nat
    BY <2>1
  <2>3. QED
    BY <1>10, <1>12, <2>1, <2>2
<1>14. Is(f)
  BY <1>13
<1>15. Is(place)
  BY <1>14
<1> HIDE DEF place
<1>16. \A d \in 0..h : place[d] = IF d = 0 THEN 0 ELSE Child(place[d - 1], path[d], width(d))
  BY <1>15
<1> HIDE DEF Is
<1> DEFINE T == {d \in Nat : d <= h => place[d] \in Nat /\ place[d] < width(d)}
<1>17. 0 \in T
  <2>1. width(0) = 1 /\ place[0] = 0
    <3>1. 0 \in 0..h /\ h + 1 - 0 = Len(layers)
      BY <1>4 DEF h
    <3>2. QED
      BY <1>1, <1>16, <3>1 DEF width, Top
  <2>2. QED
    BY <2>1
<1>18. ASSUME NEW d \in T PROVE d + 1 \in T
  <2> SUFFICES ASSUME d + 1 <= h
               PROVE  place[d + 1] \in Nat /\ place[d + 1] < width(d + 1)
    OBVIOUS
  <2>1. /\ d \in 0..h /\ d + 1 \in 0..h /\ d + 1 # 0 /\ (d + 1) - 1 = d /\ d + 1 \in 1..h
        /\ place[d] \in Nat /\ place[d] < width(d)
    BY <1>4
  <2> DEFINE s == layers[h + 1 - (d + 1)]
  <2>2. IsLayer(s) /\ NextLayer(s) = layers[h + 1 - d]
    <3>1. /\ h + 1 - (d + 1) \in 1..Len(layers) /\ h + 1 - (d + 1) \in 1..Len(layers) - 1
          /\ (h + 1 - (d + 1)) + 1 = h + 1 - d
      BY <1>4, <2>1 DEF h
    <3>2. QED
      BY <1>1, <3>1 DEF Tree
  <2>3. width(d + 1) = Len(s) /\ width(d) = Len(NextLayer(s))
    BY <2>2 DEF width
  <2> HIDE DEF s
  <2>4. \A turn \in {0, 1} :
            Child(place[d], turn, Len(s)) \in Nat /\ Child(place[d], turn, Len(s)) < Len(s)
    BY <2>1, <2>2, <2>3, NodesBelow
  <2>5. path[d + 1] \in {0, 1} /\ place[d + 1] = Child(place[d], path[d + 1], Len(s))
    BY <1>3, <1>16, <2>1, <2>3
  <2>6. QED
    BY <2>3, <2>4, <2>5
<1>19. T \in SUBSET Nat
  OBVIOUS
<1> HIDE DEF T
<1>20. \A d \in Nat : d \in T
  BY <1>17, <1>18, <1>19, SetInduction
<1>21. \A d \in 0..h : place[d] \in Nat /\ place[d] < width(d)
  BY <1>4, <1>20 DEF T
<1>22. place[0] = 0 /\ \A d \in 1..h : place[d] = Child(place[d - 1], path[d], width(d))
  BY <1>4, <1>16
<1>23. FilledUp(txs)[path] = txs[place[h] + 1]
  <2>1. path \in [1..Height(Len(txs)) -> {0, 1}]
    BY <1>2, <1>3 DEF h
  <2>2. QED
    BY <1>7, <2>1 DEF FilledUp
<1>24. Walk(place, txs, path)
  BY <1>21, <1>22, <1>23 DEF Walk, width, h, layers
<1>25. QED
  BY <1>24

\* As long as two paths turn alike they meet the same nodes.
LEMMA WalksTogether ==
    ASSUME NEW txs, NEW p, NEW q, NEW f, NEW g, Walk(f, txs, p), Walk(g, txs, q),
           Len(BuildMerkleTree(txs)) \in Nat \ {0},
           NEW m \in 0..Len(BuildMerkleTree(txs)) - 1, \A d \in 1..m : p[d] = q[d]
    PROVE  f[m] = g[m]
<1> DEFINE layers == BuildMerkleTree(txs)
           T == {d \in Nat : d <= m => f[d] = g[d]}
<1>1. \A d \in 1..Len(layers) - 1 :
          /\ f[d] = Child(f[d - 1], p[d], Len(layers[(Len(layers) - 1) + 1 - d]))
          /\ g[d] = Child(g[d - 1], q[d], Len(layers[(Len(layers) - 1) + 1 - d]))
  BY DEF Walk
<1>2. f[0] = 0 /\ g[0] = 0
  BY DEF Walk
<1> HIDE DEF layers
<1>3. Len(layers) \in Nat \ {0} /\ m \in 0..Len(layers) - 1
  BY DEF layers
<1>4. 0 \in T
  BY <1>2
<1>5. ASSUME NEW d \in T PROVE d + 1 \in T
  <2> SUFFICES ASSUME d + 1 <= m PROVE f[d + 1] = g[d + 1]
    OBVIOUS
  <2>1. d + 1 \in 1..Len(layers) - 1 /\ (d + 1) - 1 = d /\ d + 1 \in 1..m /\ f[d] = g[d]
    BY <1>3
  <2>2. p[d + 1] = q[d + 1]
    BY <2>1
  <2>3. QED
    BY <1>1, <2>1, <2>2
<1>6. T \in SUBSET Nat
  OBVIOUS
<1> HIDE DEF T
<1>7. m \in Nat
  BY <1>3
<1>8. m \in T
  BY <1>4, <1>5, <1>6, <1>7, SetInduction
<1>9. QED
  BY <1>7, <1>8 DEF T

\* The first nodes of two trees, from the roots down; a leaf is no inner node.
LEMMA TreesAreAsHigh ==
    ASSUME NEW la, NEW a, NEW lb, NEW b, Tree(la, a), Tree(lb, b), Len(a) # 0,
           Top(la)[1] = Top(lb)[1], Len(la) <= Len(lb)
    PROVE  Len(la) = Len(lb)
<1>1. Len(la) \in Nat \ {0} /\ Len(lb) \in Nat \ {0}
  BY DEF Tree
<1>2. ASSUME NEW layers, NEW txs, Tree(layers, txs), NEW k \in 1..Len(layers) - 1
      PROVE  \E x : layers[k + 1][1] = HashPair(layers[k][1], x)
  <2>1. Len(layers) \in Nat
    BY <1>2 DEF Tree
  <2>2. k \in 1..Len(layers)
    BY <2>1
  <2>3. IsLayer(layers[k]) /\ layers[k + 1] = NextLayer(layers[k])
    BY <1>2, <2>2 DEF Tree
  <2>4. IsLayer(NextLayer(layers[k])) /\
        \A i \in 1..Len(NextLayer(layers[k])) :
            NextLayer(layers[k])[i] =
                HashPair(layers[k][LeftOf(i)], layers[k][RightOf(i, layers[k])])
    BY <2>3, NextLayerNodes
  <2>5. 1 \in 1..Len(NextLayer(layers[k])) /\ LeftOf(1) = 1
    BY <2>4 DEF IsLayer, LeftOf
  <2>6. QED
    BY <2>3, <2>4, <2>5
<1> DEFINE T == {d \in Nat : d < Len(la) => la[Len(la) - d][1] = lb[Len(lb) - d][1]}
<1>3. 0 \in T
  BY <1>1 DEF Top
<1>4. ASSUME NEW d \in T PROVE d + 1 \in T
  <2> SUFFICES ASSUME d + 1 < Len(la)
               PROVE  la[Len(la) - (d + 1)][1] = lb[Len(lb) - (d + 1)][1]
    OBVIOUS
  <2> DEFINE j == Len(la) - (d + 1)
             k == Len(lb) - (d + 1)
  <2>1. j \in 1..Len(la) - 1 /\ j + 1 = Len(la) - d
    BY <1>1
  <2>2. k \in 1..Len(lb) - 1 /\ k + 1 = Len(lb) - d
    BY <1>1
  <2>3. la[j + 1][1] = lb[k + 1][1]
    BY <1>1, <2>1, <2>2
  <2> HIDE DEF j, k
  <2>4. PICK x : la[j + 1][1] = HashPair(la[j][1], x)
    BY <1>2, <2>1
  <2>5. PICK y : lb[k + 1][1] = HashPair(lb[k][1], y)
    BY <1>2, <2>2
  <2>6. HashPair(la[j][1], x) = HashPair(lb[k][1], y)
    BY <2>3, <2>4, <2>5
  <2>7. PICK m, n : m = la[j][1] /\ n = lb[k][1]
    OBVIOUS
  <2>8. HashPair(m, x) = HashPair(n, y)
    BY <2>6, <2>7
  <2>9. la[j][1] = lb[k][1]
    BY <2>7, <2>8, PairDigests
  <2>10. QED
    BY <2>9 DEF j, k
<1>5. T \in SUBSET Nat
  OBVIOUS
<1> HIDE DEF T
<1>6. \A d \in Nat : d \in T
  BY <1>3, <1>4, <1>5, SetInduction
<1>7. la[1][1] = lb[Len(lb) - (Len(la) - 1)][1]
  <2> DEFINE d == Len(la) - 1
  <2>1. d \in Nat /\ d < Len(la) /\ Len(la) - d = 1
    BY <1>1
  <2>2. d \in T
    BY <1>6, <2>1
  <2>3. QED
    BY <2>1, <2>2 DEF T
<1>8. CASE Len(la) < Len(lb)
  <2> DEFINE k == Len(lb) - Len(la)
  <2>1. k \in 1..Len(lb) - 1 /\ k + 1 = Len(lb) - (Len(la) - 1)
    BY <1>1, <1>8
  <2> HIDE DEF k
  <2>2. PICK y : lb[k + 1][1] = HashPair(lb[k][1], y)
    BY <1>2, <2>1
  <2>3. la[1][1] = HashTransaction(a[1])
    <3>1. 1 \in 1..Len(la)
      BY <1>1
    <3>2. IsLayer(la[1]) /\ Len(la[1]) = Len(a)
      BY <3>1 DEF Tree
    <3>3. 1 \in 1..Len(a)
      BY <3>2 DEF IsLayer
    <3>4. QED
      BY <3>3 DEF Tree
  <2>4. QED
    BY <1>7, <2>1, <2>2, <2>3, DigestsDiffer
<1>9. QED
  BY <1>1, <1>8

\* Equal roots stand above equal leaves, path by path.
LEMMA RootsShowLeaves ==
    ASSUME NEW S, NEW a \in Seq(S), NEW b \in Seq(S), a # <<>>, b # <<>>,
           Len(BuildMerkleTree(a)) = Len(BuildMerkleTree(b)),
           GetMerkleRoot(a) = GetMerkleRoot(b), NEW path \in Paths(a)
    PROVE  FilledUp(a)[path] = FilledUp(b)[path]
<1> DEFINE la == BuildMerkleTree(a)
           lb == BuildMerkleTree(b)
           n  == Len(la)
<1>1. Tree(la, a) /\ Len(Top(la)) = 1 /\ Tree(lb, b) /\ Len(Top(lb)) = 1
  BY TreeBuilt
<1>2. PICK f : Walk(f, a, path)
  BY PathsWalked
<1>3. PICK g : Walk(g, b, path)
  <2>1. path \in Paths(b)
    BY DEF Paths
  <2>2. QED
    BY <2>1, PathsWalked
<1>4. /\ f[0] = 0
      /\ \A d \in 1..n - 1 : f[d] = Child(f[d - 1], path[d], Len(la[(n - 1) + 1 - d]))
      /\ \A d \in 0..n - 1 : f[d] \in Nat /\ f[d] < Len(la[(n - 1) + 1 - d])
      /\ FilledUp(a)[path] = a[f[n - 1] + 1]
  BY <1>2 DEF Walk
<1>5. /\ g[0] = 0
      /\ \A d \in 1..n - 1 : g[d] = Child(g[d - 1], path[d], Len(lb[(n - 1) + 1 - d]))
      /\ \A d \in 0..n - 1 : g[d] \in Nat /\ g[d] < Len(lb[(n - 1) + 1 - d])
      /\ FilledUp(b)[path] = b[g[n - 1] + 1]
  BY <1>3 DEF Walk
<1>6. la[n][1] = lb[n][1] /\ n = Len(lb)
  BY DEF GetMerkleRoot
<1>7. path \in [1..n - 1 -> {0, 1}]
  BY DEF Paths
<1> HIDE DEF la, lb
<1>8. n \in Nat \ {0}
  BY <1>1 DEF Tree
<1> HIDE DEF n
<1> DEFINE T == {d \in Nat : d < n => la[n - d][f[d] + 1] = lb[n - d][g[d] + 1]}
<1>9. 0 \in T
  BY <1>4, <1>5, <1>6, <1>8
<1>10. ASSUME NEW d \in T PROVE d + 1 \in T
  <2> SUFFICES ASSUME d + 1 < n
               PROVE  la[n - (d + 1)][f[d + 1] + 1] = lb[n - (d + 1)][g[d + 1] + 1]
    OBVIOUS
  <2> DEFINE k == n - (d + 1)
             s == la[k]
             t == lb[k]
  <2>1. /\ k \in 1..n - 1 /\ k \in 1..n /\ k + 1 = n - d /\ (n - 1) + 1 - (d + 1) = k
        /\ (n - 1) + 1 - d = n - d
        /\ d \in 0..n - 1 /\ d + 1 \in 1..n - 1 /\ (d + 1) - 1 = d
        /\ la[n - d][f[d] + 1] = lb[n - d][g[d] + 1]
    BY <1>8
  <2>2. IsLayer(s) /\ NextLayer(s) = la[n - d] /\ IsLayer(t) /\ NextLayer(t) = lb[n - d]
    <3> HIDE DEF k
    <3>1. n = Len(la) /\ n = Len(lb)
      BY <1>6 DEF n
    <3>2. QED
      BY <1>1, <2>1, <3>1 DEF Tree
  <2>3. /\ f[d] \in Nat /\ f[d] < Len(NextLayer(s)) /\ f[d + 1] = Child(f[d], path[d + 1], Len(s))
        /\ g[d] \in Nat /\ g[d] < Len(NextLayer(t)) /\ g[d + 1] = Child(g[d], path[d + 1], Len(t))
    BY <1>4, <1>5, <2>1, <2>2
  <2> HIDE DEF s, t
  <2>4. NextLayer(s)[f[d] + 1] =
            HashPair(s[Child(f[d], 0, Len(s)) + 1], s[Child(f[d], 1, Len(s)) + 1])
    BY <2>2, <2>3, NodesBelow
  <2>5. NextLayer(t)[g[d] + 1] =
            HashPair(t[Child(g[d], 0, Len(t)) + 1], t[Child(g[d], 1, Len(t)) + 1])
    BY <2>2, <2>3, NodesBelow
  <2>6. /\ s[Child(f[d], 0, Len(s)) + 1] = t[Child(g[d], 0, Len(t)) + 1]
        /\ s[Child(f[d], 1, Len(s)) + 1] = t[Child(g[d], 1, Len(t)) + 1]
    <3>1. PICK s0, s1 : s0 = s[Child(f[d], 0, Len(s)) + 1] /\ s1 = s[Child(f[d], 1, Len(s)) + 1]
      OBVIOUS
    <3>2. PICK t0, t1 : t0 = t[Child(g[d], 0, Len(t)) + 1] /\ t1 = t[Child(g[d], 1, Len(t)) + 1]
      OBVIOUS
    <3>3. HashPair(s0, s1) = HashPair(t0, t1)
      BY <2>1, <2>2, <2>4, <2>5, <3>1, <3>2
    <3>4. s0 = t0 /\ s1 = t1
      BY <3>3, PairDigests
    <3>5. QED
      BY <3>1, <3>2, <3>4
  <2>7. path[d + 1] \in {0, 1}
    BY <1>7, <2>1
  <2>8. s[f[d + 1] + 1] = t[g[d + 1] + 1]
    BY <2>3, <2>6, <2>7
  <2>9. QED
    BY <2>8 DEF s, t
<1>11. T \in SUBSET Nat
  OBVIOUS
<1> HIDE DEF T
<1>12. \A d \in Nat : d \in T
  BY <1>9, <1>10, <1>11, SetInduction
<1>13. la[1][f[n - 1] + 1] = lb[1][g[n - 1] + 1]
  <2> DEFINE d == n - 1
  <2>1. d \in Nat /\ d < n /\ n - d = 1
    BY <1>8
  <2>2. d \in T
    BY <1>12, <2>1
  <2>3. QED
    BY <2>1, <2>2 DEF T
<1>14. /\ f[n - 1] \in Nat /\ f[n - 1] < Len(la[1])
       /\ g[n - 1] \in Nat /\ g[n - 1] < Len(lb[1])
  <2>1. n - 1 \in 0..n - 1 /\ (n - 1) + 1 - (n - 1) = 1
    BY <1>8
  <2>2. QED
    BY <1>4, <1>5, <2>1
<1>15. /\ la[1][f[n - 1] + 1] = HashTransaction(a[f[n - 1] + 1])
       /\ lb[1][g[n - 1] + 1] = HashTransaction(b[g[n - 1] + 1])
  <2>1. Len(la[1]) = Len(a) /\ Len(lb[1]) = Len(b) /\ Len(a) \in Nat /\ Len(b) \in Nat
    BY <1>1 DEF Tree
  <2>2. f[n - 1] + 1 \in 1..Len(a) /\ g[n - 1] + 1 \in 1..Len(b)
    BY <1>14, <2>1
  <2>3. QED
    BY <1>1, <2>2 DEF Tree
<1>16. HashTransaction(a[f[n - 1] + 1]) = HashTransaction(b[g[n - 1] + 1])
  BY <1>13, <1>15
<1>17. PICK x, y : x = a[f[n - 1] + 1] /\ y = b[g[n - 1] + 1]
  OBVIOUS
<1>18. HashTransaction(x) = HashTransaction(y)
  BY <1>16, <1>17
<1>19. x = y
  BY <1>18, LeafDigests
<1>20. QED
  BY <1>4, <1>5, <1>17, <1>19

\* The walk of a path, and what it meets at a node with two turns to take.
WalkOf(txs, path) == CHOOSE place : Walk(place, txs, path)

LEMMA WalkTurns ==
    ASSUME NEW S, NEW txs \in Seq(S), txs # <<>>, NEW path \in Paths(txs),
           NEW d \in 0..Len(BuildMerkleTree(txs)) - 2, NEW turn \in {0, 1}
    PROVE  LET layers == BuildMerkleTree(txs)
               k      == Len(layers) - (d + 1)
               other  == [path EXCEPT ![d + 1] = turn]
               v      == WalkOf(txs, path)[d]
           IN  /\ k \in 1..Len(layers) - 1
               /\ other \in Paths(txs)
               /\ WalkOf(txs, other)[d + 1] = Child(v, turn, Len(layers[k]))
               /\ v \in Nat /\ v < Len(layers[k + 1])
<1> DEFINE layers == BuildMerkleTree(txs)
           n      == Len(layers)
           k      == n - (d + 1)
           other  == [path EXCEPT ![d + 1] = turn]
           f      == WalkOf(txs, path)
           g      == WalkOf(txs, other)
<1>1. Tree(layers, txs)
  BY TreeBuilt
<1>2. n \in Nat \ {0} /\ d \in 0..n - 2
  <2> HIDE DEF layers
  <2>1. n \in Nat \ {0}
    BY <1>1 DEF Tree
  <2>2. QED
    BY <2>1 DEF layers
<1>3. path \in [1..n - 1 -> {0, 1}]
  BY DEF Paths
<1>4. other \in Paths(txs)
  BY <1>3 DEF Paths
<1>5. \E place : Walk(place, txs, path)
  BY PathsWalked
<1>6. \E place : Walk(place, txs, other)
  <2> HIDE DEF other
  <2>1. QED
    BY <1>4, PathsWalked
<1>7. Walk(f, txs, path) /\ Walk(g, txs, other)
  BY <1>5, <1>6 DEF WalkOf
<1>8. \A e \in 0..n - 1 : f[e] \in Nat /\ f[e] < Len(layers[(n - 1) + 1 - e])
  <2> HIDE DEF f
  <2>1. QED
    BY <1>7 DEF Walk
<1>9. \A e \in 1..n - 1 : g[e] = Child(g[e - 1], other[e], Len(layers[(n - 1) + 1 - e]))
  <2> HIDE DEF g, other
  <2>1. QED
    BY <1>7 DEF Walk
<1>10. d \in 0..n - 1 /\ \A e \in 1..d : path[e] = other[e]
  <2>1. \A e \in 1..d : e \in 1..n - 1 /\ e # d + 1
    BY <1>2
  <2> HIDE DEF n
  <2>2. QED
    BY <1>2, <1>3, <2>1
<1>11. f[d] = g[d]
  <2> HIDE DEF f, g, other
  <2>1. QED
    BY <1>2, <1>7, <1>10, WalksTogether
<1>12. other[d + 1] = turn /\ d + 1 \in 1..n - 1 /\ (d + 1) - 1 = d
  BY <1>2, <1>3
<1> HIDE DEF f, g, other, layers
<1>13. /\ k \in 1..n - 1 /\ (n - 1) + 1 - (d + 1) = k /\ (n - 1) + 1 - d = k + 1
  BY <1>2
<1>14. g[d + 1] = Child(f[d], turn, Len(layers[k]))
  BY <1>9, <1>11, <1>12, <1>13
<1>15. f[d] \in Nat /\ f[d] < Len(layers[k + 1])
  BY <1>8, <1>10, <1>13
<1>16. QED
  BY <1>4, <1>13, <1>14, <1>15 DEF f, g, other, layers

\* Equal leaves on every path give equal roots.
LEMMA LeavesGiveRoot ==
    ASSUME NEW S, NEW a \in Seq(S), NEW b \in Seq(S), a # <<>>, b # <<>>,
           Len(BuildMerkleTree(a)) = Len(BuildMerkleTree(b)), FilledUp(a) = FilledUp(b)
    PROVE  GetMerkleRoot(a) = GetMerkleRoot(b)
<1> DEFINE la == BuildMerkleTree(a)
           lb == BuildMerkleTree(b)
           n  == Len(la)
           f(path) == WalkOf(a, path)
           g(path) == WalkOf(b, path)
<1>1. Tree(la, a) /\ Tree(lb, b)
  BY TreeBuilt
<1>2. n \in Nat \ {0} /\ Len(lb) = n
  <2> HIDE DEF la, lb
  <2>1. n \in Nat \ {0}
    BY <1>1 DEF Tree
  <2>2. QED
    BY <2>1 DEF la, lb
<1>3. Paths(a) = Paths(b)
  BY DEF Paths
<1>4. ASSUME NEW path \in Paths(a)
      PROVE  Walk(f(path), a, path) /\ Walk(g(path), b, path)
  <2>1. \E place : Walk(place, a, path)
    BY PathsWalked
  <2>2. \E place : Walk(place, b, path)
    BY <1>3, PathsWalked
  <2>3. QED
    BY <2>1, <2>2 DEF WalkOf
<1>5. ASSUME NEW path \in Paths(a)
      PROVE  /\ a[f(path)[n - 1] + 1] = b[g(path)[n - 1] + 1]
             /\ f(path)[n - 1] \in Nat /\ f(path)[n - 1] < Len(la[1])
             /\ g(path)[n - 1] \in Nat /\ g(path)[n - 1] < Len(lb[1])
             /\ f(path)[0] = 0 /\ g(path)[0] = 0
  <2> HIDE DEF f, g
  <2>1. Walk(f(path), a, path) /\ Walk(g(path), b, path)
    BY <1>4
  <2>2. n - 1 \in 0..n - 1 /\ (n - 1) + 1 - (n - 1) = 1
    BY <1>2
  <2>3. /\ f(path)[0] = 0 /\ FilledUp(a)[path] = a[f(path)[n - 1] + 1]
        /\ f(path)[n - 1] \in Nat /\ f(path)[n - 1] < Len(la[(n - 1) + 1 - (n - 1)])
    <3> HIDE DEF la, n
    <3>1. n = Len(la)
      BY DEF n
    <3>2. QED
      BY <2>1, <2>2, <3>1 DEF Walk, la
  <2>4. /\ g(path)[0] = 0 /\ FilledUp(b)[path] = b[g(path)[n - 1] + 1]
        /\ g(path)[n - 1] \in Nat /\ g(path)[n - 1] < Len(lb[(n - 1) + 1 - (n - 1)])
    <3> HIDE DEF lb, n
    <3>1. n = Len(lb)
      BY <1>2
    <3>2. QED
      BY <2>1, <2>2, <3>1 DEF Walk, lb
  <2>5. QED
    BY <2>2, <2>3, <2>4
<1>6. ASSUME NEW path \in Paths(a), NEW d \in 0..n - 2, NEW turn \in {0, 1}
      PROVE  LET k     == n - (d + 1)
                 other == [path EXCEPT ![d + 1] = turn]
             IN  /\ k \in 1..n - 1 /\ other \in Paths(a)
                 /\ f(other)[d + 1] = Child(f(path)[d], turn, Len(la[k]))
                 /\ f(path)[d] \in Nat /\ f(path)[d] < Len(la[k + 1])
                 /\ g(other)[d + 1] = Child(g(path)[d], turn, Len(lb[k]))
                 /\ g(path)[d] \in Nat /\ g(path)[d] < Len(lb[k + 1])
  <2>1. path \in Paths(b) /\ d \in 0..Len(lb) - 2
    BY <1>2, <1>3
  <2>2. LET k     == n - (d + 1)
            other == [path EXCEPT ![d + 1] = turn]
        IN  /\ k \in 1..n - 1 /\ other \in Paths(a)
            /\ f(other)[d + 1] = Child(f(path)[d], turn, Len(la[k]))
            /\ f(path)[d] \in Nat /\ f(path)[d] < Len(la[k + 1])
    BY WalkTurns
  <2>3. LET k     == Len(lb) - (d + 1)
            other == [path EXCEPT ![d + 1] = turn]
        IN  /\ g(other)[d + 1] = Child(g(path)[d], turn, Len(lb[k]))
            /\ g(path)[d] \in Nat /\ g(path)[d] < Len(lb[k + 1])
    BY <2>1, WalkTurns
  <2>4. QED
    BY <1>2, <2>2, <2>3
<1> HIDE DEF f, g, la, lb
<1> DEFINE T == {k \in Nat : k < n => \A path \in Paths(a) :
                    la[k + 1][f(path)[n - (k + 1)] + 1] = lb[k + 1][g(path)[n - (k + 1)] + 1]}
<1>7. 0 \in T
  <2> SUFFICES ASSUME NEW path \in Paths(a)
               PROVE  la[1][f(path)[n - 1] + 1] = lb[1][g(path)[n - 1] + 1]
    OBVIOUS
  <2>1. /\ Len(la[1]) = Len(a) /\ \A i \in 1..Len(a) : la[1][i] = HashTransaction(a[i])
        /\ Len(lb[1]) = Len(b) /\ \A i \in 1..Len(b) : lb[1][i] = HashTransaction(b[i])
    BY <1>1 DEF Tree
  <2>2. f(path)[n - 1] + 1 \in 1..Len(a) /\ g(path)[n - 1] + 1 \in 1..Len(b)
    <3> HIDE DEF n
    <3>1. QED
      BY <1>5, <2>1
  <2>3. QED
    BY <1>5, <2>1, <2>2
<1>8. ASSUME NEW k \in T PROVE k + 1 \in T
  <2> SUFFICES ASSUME k + 1 < n, NEW path \in Paths(a)
               PROVE  la[(k + 1) + 1][f(path)[n - ((k + 1) + 1)] + 1]
                         = lb[(k + 1) + 1][g(path)[n - ((k + 1) + 1)] + 1]
    OBVIOUS
  <2> DEFINE d == n - (k + 2)
             s == la[k + 1]
             t == lb[k + 1]
             v == f(path)[d]
             w == g(path)[d]
  <2>1. /\ k \in Nat /\ d \in 0..n - 2 /\ n - (d + 1) = k + 1 /\ n - (k + 1) = d + 1
        /\ n - ((k + 1) + 1) = d /\ k + 1 \in 1..n - 1 /\ k + 1 \in 1..n
    BY <1>2
  <2>2. \A p \in Paths(a) : la[k + 1][f(p)[n - (k + 1)] + 1] = lb[k + 1][g(p)[n - (k + 1)] + 1]
    BY <1>2, <2>1
  <2> HIDE DEF d, T
  <2>3. ASSUME NEW turn \in {0, 1}
        PROVE  /\ v \in Nat /\ v < Len(la[(k + 1) + 1]) /\ w \in Nat /\ w < Len(lb[(k + 1) + 1])
               /\ s[Child(v, turn, Len(s)) + 1] = t[Child(w, turn, Len(t)) + 1]
    <3> DEFINE other == [path EXCEPT ![d + 1] = turn]
               j     == n - (d + 1)
    <3>1. /\ other \in Paths(a)
          /\ f(other)[d + 1] = Child(v, turn, Len(la[j]))
          /\ v \in Nat /\ v < Len(la[j + 1])
          /\ g(other)[d + 1] = Child(w, turn, Len(lb[j]))
          /\ w \in Nat /\ w < Len(lb[j + 1])
      <4>1. d \in 0..n - 2
        BY <2>1
      <4>2. QED
        BY <1>6, <4>1
    <3>2. j = k + 1
      BY <2>1
    <3> HIDE DEF other, j
    <3>3. s[f(other)[d + 1] + 1] = t[g(other)[d + 1] + 1]
      BY <2>1, <2>2, <3>1
    <3>4. QED
      BY <3>1, <3>2, <3>3
  <2>4. /\ v \in Nat /\ v < Len(la[(k + 1) + 1]) /\ w \in Nat /\ w < Len(lb[(k + 1) + 1])
        /\ s[Child(v, 0, Len(s)) + 1] = t[Child(w, 0, Len(t)) + 1]
        /\ s[Child(v, 1, Len(s)) + 1] = t[Child(w, 1, Len(t)) + 1]
    BY <2>3
  <2>5. IsLayer(s) /\ NextLayer(s) = la[(k + 1) + 1] /\ IsLayer(t) /\ NextLayer(t) = lb[(k + 1) + 1]
    <3>1. n = Len(la) /\ n = Len(lb)
      BY <1>2
    <3>2. QED
      BY <1>1, <2>1, <3>1 DEF Tree
  <2> HIDE DEF s, t, v, w
  <2>6. NextLayer(s)[v + 1] = HashPair(s[Child(v, 0, Len(s)) + 1], s[Child(v, 1, Len(s)) + 1])
    BY <2>4, <2>5, NodesBelow
  <2>7. NextLayer(t)[w + 1] = HashPair(t[Child(w, 0, Len(t)) + 1], t[Child(w, 1, Len(t)) + 1])
    BY <2>4, <2>5, NodesBelow
  <2>8. NextLayer(s)[v + 1] = NextLayer(t)[w + 1]
    BY <2>4, <2>6, <2>7
  <2>9. QED
    BY <2>1, <2>5, <2>8 DEF v, w
<1>9. T \in SUBSET Nat
  OBVIOUS
<1> HIDE DEF T
<1>10. \A k \in Nat : k \in T
  BY <1>7, <1>8, <1>9, SetInduction
<1> DEFINE path == [d \in 1..n - 1 |-> 0]
<1>11. path \in Paths(a)
  BY DEF Paths, la
<1> HIDE DEF path
<1>12. la[n][1] = lb[n][1]
  <2> HIDE DEF n
  <2>1. n - 1 \in Nat /\ n - 1 < n /\ (n - 1) + 1 = n /\ n - n = 0
    BY <1>2
  <2>2. la[n][f(path)[0] + 1] = lb[n][g(path)[0] + 1]
    BY <1>10, <1>11, <2>1 DEF T
  <2>3. QED
    BY <1>5, <1>11, <2>2
<1>13. QED
  BY <1>2, <1>12 DEF GetMerkleRoot, la, lb

LEMMA OneElement ==
    ASSUME NEW x
    PROVE  Len(<<x>>) = 1 /\ <<x>>[1] = x
OBVIOUS

LEMMA EmptyListRoot ==
    ASSUME NEW S, NEW txs \in Seq(S), txs # <<>>
    PROVE  GetMerkleRoot(<<>>) = EmptyRoot /\ GetMerkleRoot(txs) # EmptyRoot
<1>1. GetMerkleRoot(<<>>) = EmptyRoot
  <2>1. BuildMerkleTree(<<>>) = << <<EmptyRoot>> >>
    BY DEF BuildMerkleTree
  <2> DEFINE one == <<EmptyRoot>>
             all == <<one>>
  <2>2. one[1] = EmptyRoot
    BY OneElement
  <2>3. Len(all) = 1 /\ all[1] = one
    BY OneElement
  <2>4. GetMerkleRoot(<<>>) = all[Len(all)][1]
    BY <2>1 DEF GetMerkleRoot
  <2> HIDE DEF one, all
  <2>5. QED
    BY <2>2, <2>3, <2>4
<1> DEFINE layers == BuildMerkleTree(txs)
<1>2. Tree(layers, txs) /\ Len(Top(layers)) = 1
  BY TreeBuilt
<1>3. GetMerkleRoot(txs) = layers[Len(layers)][1]
  BY DEF GetMerkleRoot
<1> HIDE DEF layers
<1>4. Len(layers) \in Nat \ {0}
  BY <1>2 DEF Tree
<1>5. CASE Len(layers) = 1
  <2>1. Len(txs) = 1
    BY <1>2, <1>5 DEF Tree, Top
  <2>2. layers[1][1] = HashTransaction(txs[1])
    BY <1>2, <2>1 DEF Tree
  <2>3. QED
    BY <1>1, <1>3, <1>5, <2>2, DigestsDiffer
<1>6. CASE Len(layers) # 1
  <2> DEFINE k == Len(layers) - 1
  <2>1. k \in 1..Len(layers) - 1 /\ k \in 1..Len(layers) /\ k + 1 = Len(layers)
    <3>1. PICK n \in Nat \ {0} : n = Len(layers)
      BY <1>4
    <3>2. n # 1
      BY <1>6, <3>1
    <3>3. n - 1 \in 1..n - 1 /\ n - 1 \in 1..n /\ (n - 1) + 1 = n
      BY <3>2
    <3>4. QED
      BY <3>1, <3>3
  <2> HIDE DEF k
  <2>2. IsLayer(layers[k]) /\ layers[Len(layers)] = NextLayer(layers[k])
    BY <1>2, <2>1 DEF Tree
  <2>3. NextLayer(layers[k])[1] = HashPair(layers[k][LeftOf(1)], layers[k][RightOf(1, layers[k])])
    <3>1. \A i \in 1..Len(NextLayer(layers[k])) :
              NextLayer(layers[k])[i] =
                  HashPair(layers[k][LeftOf(i)], layers[k][RightOf(i, layers[k])])
      BY <2>2, NextLayerNodes
    <3>2. 1 \in 1..Len(NextLayer(layers[k]))
      <4>1. Len(NextLayer(layers[k])) = 1
        BY <1>2, <2>2 DEF Top
      <4>2. QED
        BY <4>1
    <3>3. QED
      BY <3>1, <3>2
  <2>4. QED
    BY <1>1, <1>3, <2>2, <2>3, DigestsDiffer
<1>7. QED
  BY <1>5, <1>6

\* One root stands for one complete tree.
LEMMA RootsAreOfTrees ==
    ASSUME NEW S, NEW a \in Seq(S), NEW b \in Seq(S)
    PROVE  RootsBindFor(a, b)
<1>1. CASE a = <<>> \/ b = <<>>
  <2>1. GetMerkleRoot(a) = GetMerkleRoot(b) <=> a = b
    BY <1>1, EmptyListRoot
  <2>2. QED
    BY <1>1, <2>1 DEF RootsBindFor
<1>2. CASE a # <<>> /\ b # <<>>
  <2> DEFINE la == BuildMerkleTree(a)
             lb == BuildMerkleTree(b)
  <2>1. /\ Tree(la, a) /\ Tree(lb, b) /\ Len(a) # 0 /\ Len(b) # 0
        /\ Len(Top(la)) = 1 /\ Len(Top(lb)) = 1
    BY <1>2, TreeBuilt
  <2>2. GetMerkleRoot(a) = Top(la)[1] /\ GetMerkleRoot(b) = Top(lb)[1]
    BY DEF GetMerkleRoot, Top
  <2>3. Height(Len(a)) = Len(la) - 1 /\ Height(Len(b)) = Len(lb) - 1
    BY <1>2, WidthsOfLayers
  <2>4. /\ DOMAIN FilledUp(a) = [1..Height(Len(a)) -> {0, 1}]
        /\ DOMAIN FilledUp(b) = [1..Height(Len(b)) -> {0, 1}]
        /\ FilledUp(a) = [path \in DOMAIN FilledUp(a) |-> FilledUp(a)[path]]
        /\ FilledUp(b) = [path \in DOMAIN FilledUp(b) |-> FilledUp(b)[path]]
    BY DEF FilledUp
  <2>5. Paths(a) = [1..Len(la) - 1 -> {0, 1}]
    BY DEF Paths
  <2> HIDE DEF la, lb
  <2>6. Len(la) \in Nat \ {0} /\ Len(lb) \in Nat \ {0}
    BY <2>1 DEF Tree
  <2>7. ASSUME GetMerkleRoot(a) = GetMerkleRoot(b) PROVE FilledUp(a) = FilledUp(b)
    <3>1. Len(la) = Len(lb)
      <4>1. Top(la)[1] = Top(lb)[1]
        BY <2>2, <2>7
      <4>2. CASE Len(la) <= Len(lb)
        BY <2>1, <4>1, <4>2, TreesAreAsHigh
      <4>3. CASE Len(lb) <= Len(la)
        <5>1. Top(lb)[1] = Top(la)[1]
          BY <4>1
        <5>2. Len(lb) = Len(la)
          BY <2>1, <4>3, <5>1, TreesAreAsHigh
        <5>3. QED
          BY <5>2
      <4>4. QED
        BY <2>6, <4>2, <4>3
    <3>2. \A path \in Paths(a) : FilledUp(a)[path] = FilledUp(b)[path]
      BY <1>2, <2>7, <3>1, RootsShowLeaves DEF la, lb
    <3>3. DOMAIN FilledUp(a) = Paths(a) /\ DOMAIN FilledUp(b) = Paths(a)
      BY <2>3, <2>4, <2>5, <3>1
    <3>4. QED
      BY <2>4, <3>2, <3>3
  <2>8. ASSUME FilledUp(a) = FilledUp(b) PROVE GetMerkleRoot(a) = GetMerkleRoot(b)
    <3>1. Len(la) = Len(lb)
      <4> DEFINE left == [d \in 1..Len(la) - 1 |-> 0]
      <4>1. left \in [1..Len(la) - 1 -> {0, 1}] /\ DOMAIN left = 1..Len(la) - 1
        OBVIOUS
      <4>2. left \in [1..Len(lb) - 1 -> {0, 1}]
        BY <2>3, <2>4, <2>8, <4>1
      <4> HIDE DEF left
      <4>3. 1..Len(la) - 1 = 1..Len(lb) - 1
        BY <4>1, <4>2
      <4>4. QED
        BY <2>6, <4>3
    <3>2. QED
      BY <1>2, <2>8, <3>1, LeavesGiveRoot DEF la, lb
  <2>9. QED
    BY <1>2, <2>7, <2>8 DEF RootsBindFor
<1>3. QED
  BY <1>1, <1>2
===============================================================================
