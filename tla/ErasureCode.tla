----------------------------- MODULE ErasureCode -----------------------------
(***************************************************************************)
(* The erasure code: a chunk is split into K data shards, M parity shards  *)
(* are added, and K of them are to give the chunk back.  ErasurePlacement  *)
(* builds on these operators.                                              *)
(*                                                                         *)
(* Source: internal/erasure/erasure.go.                                    *)
(*                                                                         *)
(* Every byte of a shard is encoded on its own and in the same way, so a   *)
(* shard is one byte here: the padding and the joining of the shards are   *)
(* left out.                                                               *)
(***************************************************************************)
EXTENDS Naturals, Sequences, FiniteSetsExt, Functions, TLC

CONSTANTS
  K,       \* data shards
  M,       \* parity shards
  Chunks   \* the chunks to encode, each a function from 0..K-1 to bytes

ASSUME CountAssumption == K \in Nat \ {0} /\ M \in Nat \ {0}
ASSUME ChunkAssumption == \A d \in Chunks : d \in [0..(K - 1) -> 0..255]

Index == 0..(K + M - 1)
Column == 0..(K - 1)
Byte == 0..255

-----------------------------------------------------------------------------
(* Arithmetic of GF(2^8), with the polynomial 0x11d *)

Bit(a, i) == (a \div 2^i) % 2

Xor(a, b) ==
  LET bit(i) == IF Bit(a, i) # Bit(b, i) THEN 2^i ELSE 0
  IN bit(0) + bit(1) + bit(2) + bit(3) + bit(4) + bit(5) + bit(6) + bit(7)

XorAll(f) == FoldFunction(Xor, 0, f)

\* x <<= 1, reduced when it leaves the byte
Shift(x) == IF x < 128 THEN 2 * x ELSE Xor(2 * x - 256, 29)

\* Fifteen doublings from x on, and the 255 powers of 2 in seventeen such rows.
Row(x) ==
  LET row[n \in 1..15] == IF n = 1 THEN <<x>>
                          ELSE LET p == row[n - 1] IN Append(p, Shift(p[n - 1]))
  IN row[15]

Powers[n \in 1..17] ==
  IF n = 1 THEN Row(1) ELSE LET p == Powers[n - 1] IN p \o Row(Shift(p[15 * (n - 1)]))

\* The function f, of which TLC keeps the values.
Table(f) == f @@ <<>>

gfExp == Powers[17] \o Powers[17]
gfLog == Table([x \in Byte |-> IF x = 0 THEN 0 ELSE (CHOOSE i \in 1..255 : gfExp[i] = x) - 1])

gfMul(a, b) == IF a = 0 \/ b = 0 THEN 0 ELSE gfExp[gfLog[a] + gfLog[b] + 1]
gfDiv(a, b) == IF a = 0 THEN 0 ELSE gfExp[gfLog[a] + 255 - gfLog[b] + 1]

gfPow(a, b) ==
  LET power[i \in 0..b] == IF i = 0 THEN 1 ELSE gfMul(power[i - 1], a)
  IN IF b # 0 /\ a = 0 THEN 0 ELSE power[b]

-----------------------------------------------------------------------------
(* Encoding *)

\* The coefficients of shard i: a data shard is itself.
Coefficients(i) ==
  Table([c \in Column |-> IF i < K THEN (IF c = i THEN 1 ELSE 0)
                          ELSE gfPow((i - K + 1) % 256, c % 256)])

Dot(row, column) == XorAll([c \in Column |-> gfMul(row[c], column[c])])

Encode(chunk) == Table([i \in Index |-> Dot(Coefficients(i), chunk)])

-----------------------------------------------------------------------------
(* Reconstruction *)

Singular == [r \in {} |-> 0]

Augmented(rows) ==
  [r \in Column |-> [c \in 0..(2 * K - 1) |->
     IF c < K THEN rows[r][c] ELSE IF c = K + r THEN 1 ELSE 0]]

\* Faulty: the diagonal is taken for the pivot.
PivotsOnDiagonal(aug, i) == {i} \cap {j \in Column : aug[j][i] # 0}

Pivots(aug, i) == {j \in i..(K - 1) : aug[j][i] # 0}

\* One column of the elimination: the first row with a pivot is exchanged with
\* row i and scaled, and the column is cleared in all others.
Eliminate(aug, i) ==
  LET pivot == CHOOSE j \in Pivots(aug, i) : \A k \in Pivots(aug, i) : j <= k
      swapped == [aug EXCEPT ![i] = aug[pivot], ![pivot] = aug[i]]
      scale == gfDiv(1, swapped[i][i])
      row == Table([c \in DOMAIN swapped[i] |-> gfMul(swapped[i][c], scale)])
      cleared(r) == [c \in DOMAIN row |-> Xor(swapped[r][c], gfMul(row[c], swapped[r][i]))]
  IN Table([r \in Column |-> IF r = i THEN row ELSE Table(cleared(r))])

gfInvertMatrix(rows) ==
  LET after[i \in 0..K] ==
        IF i = 0 THEN Augmented(rows)
        ELSE LET aug == after[i - 1]
             IN IF aug = Singular \/ Pivots(aug, i - 1) = {} THEN Singular
                ELSE Eliminate(aug, i - 1)
      solved == after[K]
  IN IF solved = Singular THEN Singular
     ELSE Table([r \in Column |-> Table([c \in Column |-> solved[r][K + c]])])

\* The shards are taken in any order: the code ranges over a map.
Orders(s) == {f \in [Column -> s] : IsInjective(f)}

\* The chunk that K shards give back, or Singular.
Reconstruct(shards, order) ==
  LET inverse == gfInvertMatrix([r \in Column |-> Coefficients(order[r])])
      values == [c \in Column |-> shards[order[c]]]
  IN IF Column \subseteq DOMAIN shards THEN [c \in Column |-> shards[c]]
     ELSE IF inverse = Singular THEN Singular
     ELSE [c \in Column |-> IF c \in DOMAIN shards THEN shards[c] ELSE Dot(inverse[c], values)]

\* A chunk is lost with these shards, in some order the code may meet them in.
Loses(found, chunk) ==
  \E order \in Orders(found) : Reconstruct(Restrict(Encode(chunk), found), order) # chunk

\* The sets of K shards that give every chunk back.
DecodableSets ==
  kSubset(K, Index) \ {found \in kSubset(K, Index) : \E chunk \in Chunks : Loses(found, chunk)}

\* Whichever K shards are found, they give every chunk back.  What is proved of
\* shards rests on this; TLC evaluates it for the numbers a node starts with.
AnyShardsDecode == kSubset(K, Index) \subseteq DecodableSets
=============================================================================
