-------------------------- MODULE MetadataLogProofs --------------------------
(***************************************************************************)
(* Theorems about the write-ahead log of one node, for any keys and values *)
(* and any number of changes, crashes and failed writes.                   *)
(*                                                                         *)
(* What the first lines of a file hold is said by its last line about each *)
(* key (Latest), and that is what the fold of Replayed computes: for all   *)
(* lengths, as there is no least one for which it is wrong.                *)
(***************************************************************************)
EXTENDS MetadataLog, NaturalsInduction, WellFoundedInduction, FiniteSetTheorems, TLAPS

FileOK ==
  /\ lines \in Seq(Seq(Piece))
  /\ \A i \in DOMAIN lines : lines[i] # << >>
  /\ lines = << >> => ended
  /\ ended \in BOOLEAN

\* The type invariant, with the file as one sequence.
LogInv ==
  /\ FileOK
  /\ pc \in {"open", "replay", "down"}
  /\ mem \in [Key -> Value]
  /\ offset \in Nat
  /\ offset <= Len(lines)
  /\ changes \in 0..MaxChanges /\ crashes \in 0..MaxCrashes /\ short \in 0..MaxShort
  /\ promise \in [Key -> SUBSET Value]
  /\ intact \in BOOLEAN
  /\ behind \in SUBSET Key

\* A write to the file leaves every line with something on it and forgets none.
LEMMA AppendKept ==
  ASSUME FileOK, NEW p \in Piece, NEW n \in BOOLEAN, AppendPiece(p, n)
  PROVE  FileOK' /\ Len(lines') >= Len(lines)
<1>1. <<p>> \in Seq(Piece) /\ <<p>> # << >>
  OBVIOUS
<1>2. CASE ended
  <2>1. lines' = Append(lines, <<p>>) /\ ended' = n
    BY <1>2 DEF AppendPiece
  <2>2. lines' \in Seq(Seq(Piece)) /\ Len(lines') = Len(lines) + 1
    BY <1>1, <2>1 DEF FileOK
  <2>3. \A i \in DOMAIN lines' : lines'[i] # << >>
    BY <1>1, <2>1 DEF FileOK
  <2>4. lines' # << >>
    BY <2>2 DEF FileOK
  <2> QED BY <2>1, <2>2, <2>3, <2>4 DEF FileOK
<1>3. CASE ~ended
  <2>1. lines' = [lines EXCEPT ![Len(lines)] = Append(@, p)] /\ ended' = n
    BY <1>3 DEF AppendPiece
  <2>2. lines \in Seq(Seq(Piece)) /\ lines # << >> /\ Len(lines) \in DOMAIN lines
    BY <1>3 DEF FileOK
  <2>3. lines[Len(lines)] \in Seq(Piece)
    BY <2>2
  <2>4. Append(lines[Len(lines)], p) \in Seq(Piece) /\ Append(lines[Len(lines)], p) # << >>
    <3>1. \A s \in Seq(Piece) : Append(s, p) \in Seq(Piece) /\ Append(s, p) # << >>
      OBVIOUS
    <3> QED BY <2>3, <3>1
  <2>5. lines' \in Seq(Seq(Piece)) /\ Len(lines') = Len(lines) /\ DOMAIN lines' = DOMAIN lines
    BY <2>1, <2>2, <2>4
  <2>6. \A i \in DOMAIN lines' : lines'[i] # << >>
    BY <2>1, <2>2, <2>4, <2>5 DEF FileOK
  <2>7. lines' # << >>
    BY <2>2, <2>5
  <2>8. ended' \in BOOLEAN
    BY <2>1, Zenon
  <2>9. Len(lines') >= Len(lines)
    BY <2>2, <2>5
  <2> QED BY <2>5, <2>6, <2>7, <2>8, <2>9 DEF FileOK
<1> QED BY <1>2, <1>3 DEF FileOK

\* The replay cuts the file where it stands.
LEMMA TruncateKept ==
  ASSUME FileOK, offset \in Nat, offset <= Len(lines), Truncate
  PROVE  FileOK' /\ Len(lines') = offset
<1>1. lines' = SubSeq(lines, 1, offset) /\ ended' = TRUE
  BY DEF Truncate
<1>2. lines' \in Seq(Seq(Piece)) /\ Len(lines') = offset
  BY <1>1 DEF FileOK
<1>3. \A i \in 1..offset : lines'[i] = lines[i] /\ i \in DOMAIN lines
  BY <1>1 DEF FileOK
<1>4. DOMAIN lines' = 1..offset
  BY <1>2
<1>5. \A i \in DOMAIN lines' : lines'[i] # << >>
  BY <1>3, <1>4 DEF FileOK
<1> QED BY <1>1, <1>2, <1>5 DEF FileOK

LEMMA TornKept ==
  ASSUME FileOK, intact \in BOOLEAN, NEW r \in Record, Torn(r)
  PROVE  FileOK' /\ Len(lines') >= Len(lines) /\ intact' \in BOOLEAN
<1>1. Part(r) \in Piece /\ Whole(r) \in Piece
  BY DEF Part, Whole, Piece
<1>2. CASE UNCHANGED <<file, intact>>
  BY <1>2 DEF file, FileOK
<1>3. CASE AppendPiece(Part(r), FALSE) /\ UNCHANGED intact
  BY <1>1, <1>3, AppendKept
<1>4. CASE AppendPiece(Whole(r), FALSE) /\ intact' = FALSE
  BY <1>1, <1>4, AppendKept
<1> QED BY <1>2, <1>3, <1>4 DEF Torn

LEMMA LogStep == LogInv /\ [Next]_vars => LogInv'
<1> SUFFICES ASSUME LogInv, [Next]_vars PROVE LogInv'
  OBVIOUS
<1>1. CASE UNCHANGED vars
  BY <1>1 DEF vars, file, budget, LogInv, FileOK
<1>2. ASSUME NEW r \in Record, RecordPlacement(r) PROVE LogInv'
  <2>1. Whole(r) \in Piece
    BY DEF Whole, Piece
  <2>2. FileOK' /\ Len(lines') >= Len(lines)
    BY <1>2, <2>1, AppendKept DEF RecordPlacement, LogInv
  <2> QED BY <1>2, <2>2, BoundAssumption DEF RecordPlacement, Changes, LogInv, Record
<1>3. ASSUME NEW r \in Record, RecordUnlogged(r) PROVE LogInv'
  <2>1. Part(r) \in Piece
    BY DEF Part, Piece
  <2>2. FileOK' /\ offset <= Len(lines')
    <3>1. CASE AppendPiece(Part(r), FALSE)
      <4>1. FileOK' /\ Len(lines') >= Len(lines)
        BY <2>1, <3>1, AppendKept DEF LogInv
      <4>2. Len(lines) \in Nat /\ Len(lines') \in Nat
        BY <4>1 DEF LogInv, FileOK
      <4> QED BY <4>1, <4>2 DEF LogInv
    <3>2. CASE UNCHANGED file
      BY <3>2 DEF file, LogInv, FileOK
    <3> QED BY <1>3, <3>1, <3>2 DEF RecordUnlogged
  <2>3. /\ pc' = pc /\ offset' = offset /\ crashes' = crashes /\ intact' = FALSE
        /\ behind' = behind
        /\ changes' = changes - 1 /\ changes > 0 /\ short' = short - 1 /\ short > 0
        /\ mem' = [mem EXCEPT ![r.key] = r.val]
        /\ promise' = [promise EXCEPT ![r.key] = {r.val}]
    BY <1>3 DEF RecordUnlogged, Changes
  <2>4. mem' \in [Key -> Value] /\ promise' \in [Key -> SUBSET Value]
    BY <2>3 DEF LogInv, Record
  <2>5. intact' \in BOOLEAN
    BY <2>3, Zenon
  <2>6. changes' \in 0..MaxChanges /\ short' \in 0..MaxShort
    BY <2>3, BoundAssumption DEF LogInv
  <2>7. offset' \in Nat /\ offset' <= Len(lines') /\ crashes' \in 0..MaxCrashes
    BY <2>2, <2>3 DEF LogInv
  <2>8. pc' \in {"open", "replay", "down"}
    BY <2>3 DEF LogInv
  <2> QED BY <2>2, <2>3, <2>4, <2>5, <2>6, <2>7, <2>8 DEF LogInv
<1>4. ASSUME NEW r \in Record, CrashInChange(r) PROVE LogInv'
  <2>1. FileOK' /\ Len(lines') >= Len(lines) /\ intact' \in BOOLEAN
    BY <1>4, TornKept DEF CrashInChange, LogInv
  <2> QED BY <1>4, <2>1, BoundAssumption
          DEF CrashInChange, Changes, LogInv, FileOK, Record, Empty, Value
<1>5. CASE Crash
  BY <1>5, BoundAssumption DEF Crash, file, LogInv, FileOK, Empty, Value
<1>6. CASE Start
  BY <1>6 DEF Start, file, budget, LogInv, FileOK
<1>7. CASE ReplayLine
  <2> DEFINE line == lines[offset + 1]
  <2>1. offset < Len(lines) /\ Verifies(line)
    BY <1>7 DEF ReplayLine
  <2>2. line \in Seq(Piece) /\ 1 \in DOMAIN line
    BY <2>1 DEF LogInv, FileOK, Verifies, Decodes
  <2>3. line[1] \in Piece
    BY <2>2
  <2>4. line[1].rec.val \in Value
    BY <2>3 DEF Piece, Record
  <2>5. mem' \in [Key -> Value]
    BY <1>7, <2>4 DEF ReplayLine, LogInv
  <2> QED BY <1>7, <2>1, <2>5 DEF ReplayLine, file, budget, LogInv, FileOK
<1>8. CASE ReplayTorn
  <2>1. FileOK' /\ Len(lines') = offset
    BY <1>8, TruncateKept DEF ReplayTorn, LogInv
  <2>2. promise' \in [Key -> SUBSET Value]
    BY <1>8 DEF ReplayTorn, Serve, LogInv
  <2> QED BY <1>8, <2>1, <2>2 DEF ReplayTorn, Serve, budget, LogInv
<1>9. CASE ReplayMismatch \/ ReplayEnds
  <2>1. promise' \in [Key -> SUBSET Value]
    BY <1>9 DEF ReplayMismatch, ReplayEnds, Serve, LogInv
  <2> QED BY <1>9, <2>1 DEF ReplayMismatch, ReplayEnds, Serve, file, budget, LogInv, FileOK
<1> QED BY <1>1, <1>2, <1>3, <1>4, <1>5, <1>6, <1>7, <1>8, <1>9 DEF Next

\* The file never has an empty line, the replay never runs past its end, and an
\* append finds a line to continue whenever the last one has no newline, whatever
\* writes failed and wherever crashes tore a record (wal.go:64-164).
THEOREM TypeCorrect == Spec => []TypeOK
<1>1. Init => LogInv
  BY BoundAssumption DEF Init, LogInv, FileOK, Empty, Value
<1>2. LogInv => TypeOK
  BY DEF LogInv, FileOK, TypeOK
<1> QED BY LogStep, <1>1, <1>2, PTL DEF Spec

-----------------------------------------------------------------------------
(* What the fold of Replayed computes. *)

KeyAt(ls, i) == ls[i][1].rec.key
ValAt(ls, i) == ls[i][1].rec.val

\* A set of numbers has a least one, and one that is bounded a greatest.
LEMMA LeastExists ==
  ASSUME NEW T \in SUBSET Nat, T # {}
  PROVE  \E n \in T : \A m \in T : n <= m
<1> DEFINE R == OpToRel(<, Nat)
<1>1. IsWellFoundedOn(R, Nat)
  BY NatLessThanWellFounded
<1>2. PICK n \in T : \A m \in T : <<m, n>> \notin R
  <2> HIDE DEF R
  <2> QED BY <1>1, WFMin
<1>3. \A m \in T : ~(m < n)
  BY <1>2 DEF OpToRel
<1> QED BY <1>3

LEMMA MaxIsGreatest ==
  ASSUME NEW n \in Nat, NEW s \in SUBSET (1..n), s # {}
  PROVE  Max(s) \in s /\ \A i \in s : i <= Max(s)
<1> DEFINE gaps == {n - i : i \in s}
<1>1. \A i \in s : i \in Nat /\ n - i \in Nat
  OBVIOUS
<1>0. gaps \in SUBSET Nat /\ gaps # {}
  BY <1>1
<1>2. PICK g \in gaps : \A h \in gaps : g <= h
  <2> HIDE DEF gaps
  <2> QED BY <1>0, LeastExists
<1>3. PICK m \in s : g = n - m
  BY <1>2
<1>4. \A i \in s : n - m <= n - i
  BY <1>2, <1>3
<1>5. \A i \in s : m >= i
  BY <1>1, <1>4
<1> QED BY <1>5, Zenon DEF Max

\* The lines among those of s that are about k.
About(ls, s, k) == {i \in s : KeyAt(ls, i) = k}

\* What the lines of s hold.
Latest(ls, s) ==
  [k \in Key |-> IF About(ls, s, k) = {} THEN Nil ELSE ValAt(ls, Max(About(ls, s, k)))]

\* One line more.
LEMMA LatestNext ==
  ASSUME NEW ls, NEW n \in Nat, NEW s \in SUBSET (1..n), s # {}
  PROVE  Latest(ls, s) = [Latest(ls, s \ {Max(s)}) EXCEPT ![KeyAt(ls, Max(s))] = ValAt(ls, Max(s))]
<1> DEFINE m == Max(s)
           rest == s \ {m}
<1>1. m \in s /\ \A i \in s : i <= m
  BY MaxIsGreatest
<1> HIDE DEF m
<1>2. ASSUME NEW k \in Key, KeyAt(ls, m) # k
      PROVE  Latest(ls, s)[k] = Latest(ls, rest)[k]
  <2>1. About(ls, s, k) = About(ls, rest, k)
    BY <1>2 DEF About
  <2> QED BY <2>1 DEF Latest
<1>3. ASSUME NEW k \in Key, KeyAt(ls, m) = k
      PROVE  Latest(ls, s)[k] = ValAt(ls, m)
  <2>1. m \in About(ls, s, k) /\ About(ls, s, k) \in SUBSET (1..n)
    BY <1>1, <1>3 DEF About
  <2>2. Max(About(ls, s, k)) \in About(ls, s, k) /\ m <= Max(About(ls, s, k))
    BY <2>1, MaxIsGreatest
  <2>3. Max(About(ls, s, k)) = m
    <3>1. Max(About(ls, s, k)) \in s
      BY <2>2 DEF About
    <3>2. \A i \in s : i \in Nat /\ i <= m
      BY <1>1
    <3>3. \A i \in s : m <= i => i = m
      BY <1>1, <3>2
    <3> QED BY <2>2, <3>1, <3>3, Zenon
  <2> QED BY <2>1, <2>3 DEF Latest
<1>4. Latest(ls, s) = [Latest(ls, rest) EXCEPT ![KeyAt(ls, m)] = ValAt(ls, m)]
  <2>1. DOMAIN Latest(ls, s) = Key /\ DOMAIN Latest(ls, rest) = Key
        /\ Latest(ls, s) = [k \in Key |-> Latest(ls, s)[k]]
    BY DEF Latest
  <2> QED BY <1>2, <1>3, <2>1
<1> QED BY <1>4 DEF m

\* The function that the fold iterates, on the sets of lines.
Folds(ls, g) ==
  g = [s \in SUBSET DOMAIN ls |->
         IF s = {} THEN Empty
         ELSE [g[s \ {Max(s)}] EXCEPT ![KeyAt(ls, Max(s))] = ValAt(ls, Max(s))]]

\* The first n lines leave behind what they hold.
LEMMA ReplayedIsLatest ==
  ASSUME NEW ls, NEW n \in Nat, DOMAIN ls = 1..n
  PROVE  Replayed(ls) = Latest(ls, 1..n)
<1> DEFINE fold == CHOOSE g : Folds(ls, g)
           latest == [s \in SUBSET DOMAIN ls |-> Latest(ls, s)]
<1>1. Replayed(ls) = fold[DOMAIN ls]
  BY DEF Replayed, FoldLeft, MapThenFoldSet, Folds, KeyAt, ValAt
<1>2. Folds(ls, latest)
  <2>1. Latest(ls, {}) = Empty
    BY DEF Latest, About, Empty
  <2>2. \A s \in SUBSET DOMAIN ls : s # {} =>
          latest[s] = [latest[s \ {Max(s)}] EXCEPT ![KeyAt(ls, Max(s))] = ValAt(ls, Max(s))]
    BY LatestNext
  <2>3. \A s \in SUBSET DOMAIN ls :
          latest[s] = IF s = {} THEN Empty
                      ELSE [latest[s \ {Max(s)}] EXCEPT ![KeyAt(ls, Max(s))] = ValAt(ls, Max(s))]
    BY <2>1, <2>2
  <2>4. latest = [s \in SUBSET DOMAIN ls |-> latest[s]]
    OBVIOUS
  <2> HIDE DEF latest
  <2> QED BY <2>3, <2>4 DEF Folds
<1>3. Folds(ls, fold)
  BY <1>2, Zenon
<1> HIDE DEF fold
<1>4. /\ fold[{}] = Empty
      /\ \A s \in SUBSET DOMAIN ls : s # {} =>
           fold[s] = [fold[s \ {Max(s)}] EXCEPT ![KeyAt(ls, Max(s))] = ValAt(ls, Max(s))]
  BY <1>3 DEF Folds
<1> DEFINE wrong == {i \in 0..n : fold[1..i] # Latest(ls, 1..i)}
<1>5. wrong = {}
  <2> SUFFICES ASSUME wrong # {} PROVE FALSE
    OBVIOUS
  <2>1. wrong \in SUBSET Nat
    OBVIOUS
  <2>2. PICK i \in wrong : \A j \in wrong : i <= j
    <3> HIDE DEF wrong
    <3> QED BY <2>1, LeastExists
  <2>3. i # 0
    <3>1. 1..0 = {} /\ Latest(ls, {}) = Empty
      BY DEF Latest, About, Empty
    <3> QED BY <1>4, <2>2, <3>1
  <2>4. i - 1 \in 0..n /\ i \in 1..n /\ i - 1 \notin wrong
    BY <2>2, <2>3
  <2>5. fold[1..(i - 1)] = Latest(ls, 1..(i - 1))
    BY <2>4
  <2>6. Max(1..i) = i /\ (1..i) \ {i} = 1..(i - 1) /\ 1..i # {} /\ 1..i \in SUBSET DOMAIN ls
    <3>1. 1..i # {} /\ 1..i \in SUBSET (1..n) /\ i \in 1..i /\ (1..i) \ {i} = 1..(i - 1)
      <4>1. i \in Nat /\ 1 <= i /\ i <= n
        BY <2>4
      <4> QED BY <4>1
    <3>2. Max(1..i) \in 1..i /\ i <= Max(1..i)
      BY <3>1, MaxIsGreatest
    <3> QED BY <3>1, <3>2
  <2>7. fold[1..i] = [fold[1..(i - 1)] EXCEPT ![KeyAt(ls, i)] = ValAt(ls, i)]
    BY <1>4, <2>6
  <2>8. Latest(ls, 1..i) = [Latest(ls, 1..(i - 1)) EXCEPT ![KeyAt(ls, i)] = ValAt(ls, i)]
    BY <2>6, LatestNext
  <2> QED BY <2>2, <2>5, <2>7, <2>8
<1> QED BY <1>1, <1>5

-----------------------------------------------------------------------------
(* What a replay finds. *)

\* The first n lines are all that a replay reads.
ReadsFirst(ls, n) ==
  /\ n \in 0..Len(ls)
  /\ \A i \in 1..n : Verifies(ls[i])
  /\ n < Len(ls) => ~Verifies(ls[n + 1])

LEMMA ReadsFirstUnique ==
  ASSUME NEW ls, Len(ls) \in Nat, NEW m, NEW n, ReadsFirst(ls, m), ReadsFirst(ls, n)
  PROVE  m = n
<1>1. m \in Nat /\ n \in Nat /\ m <= Len(ls) /\ n <= Len(ls)
  BY DEF ReadsFirst
<1>2. ~(m < n)
  <2> SUFFICES ASSUME m < n PROVE FALSE
    OBVIOUS
  <2>1. m + 1 \in 1..n /\ m < Len(ls)
    BY <1>1
  <2> QED BY <2>1 DEF ReadsFirst
<1>3. ~(n < m)
  <2> SUFFICES ASSUME n < m PROVE FALSE
    OBVIOUS
  <2>1. n + 1 \in 1..m /\ n < Len(ls)
    BY <1>1
  <2> QED BY <2>1 DEF ReadsFirst
<1> QED BY <1>1, <1>2, <1>3

LEMMA ReadsFirstExists ==
  ASSUME NEW ls, Len(ls) \in Nat
  PROVE  \E n : ReadsFirst(ls, n)
<1> DEFINE damaged == {i \in Nat : i < Len(ls) /\ ~Verifies(ls[i + 1])}
<1>1. CASE damaged = {}
  <2>1. \A i \in 1..Len(ls) : i - 1 \in Nat /\ i - 1 < Len(ls) /\ (i - 1) + 1 = i
    OBVIOUS
  <2>2. \A i \in 1..Len(ls) : Verifies(ls[i])
    BY <1>1, <2>1
  <2>3. ReadsFirst(ls, Len(ls))
    BY <2>2 DEF ReadsFirst
  <2> QED BY <2>3
<1>2. CASE damaged # {}
  <2>1. damaged \in SUBSET Nat
    OBVIOUS
  <2>2. PICK n \in damaged : \A m \in damaged : n <= m
    <3> HIDE DEF damaged
    <3> QED BY <1>2, <2>1, LeastExists
  <2>3. ASSUME NEW i \in 1..n PROVE Verifies(ls[i])
    <3>1. i - 1 \in Nat /\ i - 1 < n /\ (i - 1) + 1 = i /\ i - 1 < Len(ls)
      BY <2>2
    <3>2. i - 1 \notin damaged
      BY <2>2, <3>1
    <3> QED BY <3>1, <3>2
  <2>4. ReadsFirst(ls, n)
    BY <2>2, <2>3 DEF ReadsFirst
  <2> QED BY <2>4
<1> QED BY <1>1, <1>2

\* The first n lines of two files that agree on them hold the same.
LEMMA LatestFrame ==
  ASSUME NEW ls, NEW ms, NEW n \in Nat, \A i \in 1..n : ls[i] = ms[i]
  PROVE  Latest(ls, 1..n) = Latest(ms, 1..n)
<1>1. \A i \in 1..n : KeyAt(ls, i) = KeyAt(ms, i) /\ ValAt(ls, i) = ValAt(ms, i)
  BY DEF KeyAt, ValAt
<1>2. ASSUME NEW k \in Key
      PROVE  Latest(ls, 1..n)[k] = Latest(ms, 1..n)[k]
  <2>1. About(ls, 1..n, k) = About(ms, 1..n, k)
    BY <1>1 DEF About
  <2>2. CASE About(ls, 1..n, k) = {}
    BY <2>1, <2>2 DEF Latest
  <2>3. CASE About(ls, 1..n, k) # {}
    <3>1. About(ls, 1..n, k) \in SUBSET (1..n)
      BY DEF About
    <3>2. Max(About(ls, 1..n, k)) \in 1..n
      BY <2>3, <3>1, MaxIsGreatest
    <3> QED BY <1>1, <2>1, <2>3, <3>2 DEF Latest
  <2> QED BY <2>2, <2>3
<1> QED BY <1>2 DEF Latest

LEMMA RecoveredIs ==
  ASSUME NEW ls \in Seq(Seq(Piece)), NEW n, ReadsFirst(ls, n)
  PROVE  Recovered(ls) = Latest(ls, 1..n)
<1>1. Len(ls) \in Nat /\ n \in Nat /\ n <= Len(ls)
  BY DEF ReadsFirst
<1>2. ReadableLines(ls) = n
  <2>1. ReadsFirst(ls, ReadableLines(ls))
    BY Zenon DEF ReadsFirst, ReadableLines
  <2> QED BY <1>1, <2>1, ReadsFirstUnique
<1> DEFINE ms == SubSeq(ls, 1, n)
<1>3. DOMAIN ms = 1..n /\ \A i \in 1..n : ms[i] = ls[i]
  BY <1>1
<1>4. Replayed(ms) = Latest(ms, 1..n)
  <2> HIDE DEF ms
  <2> QED BY <1>1, <1>3, ReplayedIsLatest
<1>5. Latest(ms, 1..n) = Latest(ls, 1..n)
  <2> HIDE DEF ms
  <2> QED BY <1>1, <1>3, LatestFrame
<1> QED BY <1>2, <1>4, <1>5 DEF Recovered

LEMMA LatestType ==
  ASSUME NEW ls \in Seq(Seq(Piece)), NEW n, ReadsFirst(ls, n)
  PROVE  Latest(ls, 1..n) \in [Key -> Value]
<1> SUFFICES ASSUME NEW k \in Key, About(ls, 1..n, k) # {}
             PROVE  ValAt(ls, Max(About(ls, 1..n, k))) \in Value
  BY DEF Latest, Value
<1>1. n \in Nat /\ n <= Len(ls)
  BY DEF ReadsFirst
<1>2. Max(About(ls, 1..n, k)) \in 1..n
  <2>1. About(ls, 1..n, k) \in SUBSET (1..n)
    BY DEF About
  <2>2. Max(About(ls, 1..n, k)) \in About(ls, 1..n, k)
    BY <1>1, <2>1, MaxIsGreatest
  <2> QED BY <2>1, <2>2
<1>3. ASSUME NEW i \in 1..n PROVE ValAt(ls, i) \in Value
  <2>1. ls[i] \in Seq(Piece) /\ Verifies(ls[i])
    BY <1>1 DEF ReadsFirst
  <2>2. ls[i][1] \in Piece
    BY <2>1 DEF Verifies, Decodes
  <2> QED BY <2>2 DEF ValAt, Piece, Record
<1> QED BY <1>2, <1>3

\* One line more.
LEMMA LatestOneMore ==
  ASSUME NEW ls, NEW n \in Nat
  PROVE  Latest(ls, 1..(n + 1)) =
           [Latest(ls, 1..n) EXCEPT ![KeyAt(ls, n + 1)] = ValAt(ls, n + 1)]
<1>1. /\ n + 1 \in Nat /\ 1..(n + 1) \in SUBSET (1..(n + 1)) /\ 1..(n + 1) # {}
      /\ n + 1 \in 1..(n + 1) /\ (1..(n + 1)) \ {n + 1} = 1..n
  OBVIOUS
<1>2. Max(1..(n + 1)) = n + 1
  <2>1. Max(1..(n + 1)) \in 1..(n + 1) /\ n + 1 <= Max(1..(n + 1))
    BY <1>1, MaxIsGreatest
  <2> QED BY <2>1
<1> QED BY <1>1, <1>2, LatestNext

\* A readable record behind lines that all are is found.
LEMMA CleanAppend ==
  ASSUME lines \in Seq(Seq(Piece)), \A i \in 1..Len(lines) : Verifies(lines[i]),
         NEW p \in Piece, Verifies(<<p>>), lines' = Append(lines, <<p>>)
  PROVE  /\ ReadsFirst(lines', Len(lines'))
         /\ Recovered(lines') = [Recovered(lines) EXCEPT ![p.rec.key] = p.rec.val]
<1> DEFINE l == Len(lines)
<1>1. /\ l \in Nat /\ lines' \in Seq(Seq(Piece)) /\ Len(lines') = l + 1
      /\ lines'[l + 1] = <<p>>
      /\ \A i \in 1..l : lines[i] = lines'[i]
  <2>1. <<p>> \in Seq(Piece)
    OBVIOUS
  <2> QED BY <2>1
<1>2. ReadsFirst(lines, l)
  BY <1>1 DEF ReadsFirst
<1>3. ReadsFirst(lines', l + 1)
  <2>1. \A i \in 1..(l + 1) : i \in 1..l \/ i = l + 1
    BY <1>1
  <2>2. \A i \in 1..(l + 1) : Verifies(lines'[i])
    BY <1>1, <2>1
  <2>3. l + 1 \in 0..Len(lines') /\ ~(l + 1 < Len(lines'))
    BY <1>1
  <2> QED BY <2>2, <2>3 DEF ReadsFirst
<1>4. Recovered(lines) = Latest(lines, 1..l) /\ Recovered(lines') = Latest(lines', 1..(l + 1))
  BY <1>1, <1>2, <1>3, RecoveredIs
<1>5. Latest(lines, 1..l) = Latest(lines', 1..l)
  BY <1>1, LatestFrame
<1>6. Latest(lines', 1..(l + 1)) =
        [Latest(lines', 1..l) EXCEPT ![KeyAt(lines', l + 1)] = ValAt(lines', l + 1)]
  BY <1>1, LatestOneMore
<1>7. KeyAt(lines', l + 1) = p.rec.key /\ ValAt(lines', l + 1) = p.rec.val
  BY <1>1 DEF KeyAt, ValAt
<1> QED BY <1>1, <1>3, <1>4, <1>5, <1>6, <1>7

Shifts(before, after) == \E k \in Key, v \in Value : after = [before EXCEPT ![k] = v]

\* What a write to the file does to what a replay finds.
LEMMA AppendRecovers ==
  ASSUME FileOK, NEW p \in Piece, NEW n \in BOOLEAN, AppendPiece(p, n)
  PROVE  \/ Recovered(lines') = Recovered(lines)
         \/ ~ended /\ Shifts(Recovered(lines), Recovered(lines'))
         \/ ended /\ Verifies(<<p>>) /\ Recovered(lines') = [Recovered(lines) EXCEPT ![p.rec.key] = p.rec.val]
<1>1. lines \in Seq(Seq(Piece)) /\ Len(lines) \in Nat /\ lines' \in Seq(Seq(Piece))
  BY AppendKept DEF FileOK
<1>2. PICK r : ReadsFirst(lines, r)
  BY <1>1, ReadsFirstExists
<1>3. r \in Nat /\ r <= Len(lines) /\ Recovered(lines) = Latest(lines, 1..r)
  <2>1. r \in 0..Len(lines)
    BY <1>2 DEF ReadsFirst
  <2>2. Recovered(lines) = Latest(lines, 1..r)
    BY <1>1, <1>2, RecoveredIs
  <2> QED BY <1>1, <2>1, <2>2
<1>4. CASE ended
  <2>1. lines' = Append(lines, <<p>>)
    BY <1>4 DEF AppendPiece
  <2>2. /\ Len(lines') = Len(lines) + 1
        /\ lines'[Len(lines) + 1] = <<p>>
        /\ \A i \in 1..Len(lines) : lines[i] = lines'[i]
    BY <1>1, <2>1
  <2>3. Latest(lines', 1..r) = Recovered(lines)
    BY <1>3, <2>2, LatestFrame
  <2>4. CASE r < Len(lines) \/ ~Verifies(<<p>>)
    <3>1. ReadsFirst(lines', r)
      <4>1. \A i \in 1..r : Verifies(lines'[i])
        <5>1. \A i \in 1..r : i \in 1..Len(lines) /\ Verifies(lines[i])
          BY <1>1, <1>2, <1>3 DEF ReadsFirst
        <5> QED BY <2>2, <5>1
      <4>2. ~Verifies(lines'[r + 1])
        <5>1. CASE r < Len(lines)
          <6>1. r + 1 \in 1..Len(lines) /\ ~Verifies(lines[r + 1])
            BY <1>1, <1>2, <1>3, <5>1 DEF ReadsFirst
          <6> QED BY <2>2, <6>1
        <5>2. CASE r = Len(lines)
          BY <2>2, <2>4, <5>2
        <5> QED BY <1>1, <1>3, <5>1, <5>2
      <4> QED BY <1>1, <1>3, <2>2, <4>1, <4>2 DEF ReadsFirst
    <3> QED BY <1>1, <2>3, <3>1, RecoveredIs
  <2>5. CASE r = Len(lines) /\ Verifies(<<p>>)
    <3>1. \A i \in 1..Len(lines) : Verifies(lines[i])
      BY <1>2, <2>5 DEF ReadsFirst
    <3> QED BY <1>1, <1>4, <2>1, <2>5, <3>1, CleanAppend
  <2> QED BY <1>3, <2>4, <2>5
<1>5. CASE ~ended
  <2> DEFINE l == Len(lines)
  <2>1. l > 0 /\ lines[l] # << >> /\ lines[l] \in Seq(Piece) /\ l \in DOMAIN lines
    BY <1>1, <1>5 DEF FileOK
  <2>2. lines' = [lines EXCEPT ![l] = Append(@, p)]
    BY <1>5 DEF AppendPiece
  <2>3. ~Verifies(lines'[l]) /\ Len(lines') = l /\ \A i \in 1..(l - 1) : lines[i] = lines'[i]
    <3>1. lines'[l] = Append(lines[l], p) /\ \A i \in 1..(l - 1) : lines[i] = lines'[i]
      BY <1>1, <2>1, <2>2
    <3>2. Len(Append(lines[l], p)) # 1
      BY <2>1
    <3>3. Len(lines') = l
      BY <1>1, <2>2
    <3> QED BY <3>1, <3>2, <3>3 DEF Verifies, Decodes
  <2>4. CASE r < l
    <3>1. Latest(lines', 1..r) = Recovered(lines)
      <4>1. \A i \in 1..r : i \in 1..(l - 1)
        BY <1>1, <1>3, <2>4
      <4> QED BY <1>3, <2>3, <4>1, LatestFrame
    <3>2. ReadsFirst(lines', r)
      <4>1. \A i \in 1..r : Verifies(lines'[i])
        <5>1. \A i \in 1..r : i \in 1..(l - 1) /\ Verifies(lines[i])
          BY <1>1, <1>2, <1>3, <2>4 DEF ReadsFirst
        <5> QED BY <2>3, <5>1
      <4>2. ~Verifies(lines'[r + 1])
        <5>1. CASE r + 1 = l
          BY <2>3, <5>1
        <5>2. CASE r + 1 # l
          <6>1. r + 1 \in 1..(l - 1)
            BY <1>1, <1>3, <2>4, <5>2
          <6> QED BY <1>2, <2>3, <2>4, <6>1 DEF ReadsFirst
        <5> QED BY <5>1, <5>2
      <4> QED BY <1>1, <1>3, <2>3, <4>1, <4>2 DEF ReadsFirst
    <3> QED BY <1>1, <3>1, <3>2, RecoveredIs
  <2>5. CASE r = l
    <3>1. ReadsFirst(lines', l - 1)
      <4>1. \A i \in 1..(l - 1) : Verifies(lines'[i])
        BY <1>1, <1>2, <2>3, <2>5 DEF ReadsFirst
      <4>2. l - 1 \in 0..l /\ (l - 1) + 1 = l
        BY <1>1, <2>1
      <4> QED BY <2>3, <4>1, <4>2 DEF ReadsFirst
    <3>2. Recovered(lines') = Latest(lines, 1..(l - 1))
      <4>1. l - 1 \in Nat
        BY <1>1, <2>1
      <4>2. Latest(lines, 1..(l - 1)) = Latest(lines', 1..(l - 1))
        BY <2>3, <4>1, LatestFrame
      <4> QED BY <1>1, <3>1, <4>2, RecoveredIs
    <3>3. Recovered(lines) =
            [Recovered(lines') EXCEPT ![KeyAt(lines, l)] = ValAt(lines, l)]
      <4>1. l - 1 \in Nat /\ (l - 1) + 1 = l
        BY <1>1, <2>1
      <4>2. Latest(lines, 1..l) = [Latest(lines, 1..(l - 1)) EXCEPT ![KeyAt(lines, l)] = ValAt(lines, l)]
        BY <4>1, LatestOneMore
      <4> QED BY <1>3, <2>5, <3>2, <4>2
    <3>4. Recovered(lines') \in [Key -> Value]
      BY <1>1, <3>1, RecoveredIs, LatestType
    <3>5. KeyAt(lines, l) \in Key
      <4>1. Verifies(lines[l])
        BY <1>1, <1>2, <2>1, <2>5 DEF ReadsFirst
      <4>2. lines[l][1] \in Piece
        BY <2>1, <4>1 DEF Verifies, Decodes
      <4> QED BY <4>2 DEF KeyAt, Piece, Record
    <3>6. Recovered(lines') = [Recovered(lines) EXCEPT ![KeyAt(lines, l)] = Recovered(lines')[KeyAt(lines, l)]]
      BY <3>3, <3>4, <3>5
    <3>7. Recovered(lines')[KeyAt(lines, l)] \in Value
      BY <3>4, <3>5
    <3> QED BY <1>5, <3>5, <3>6, <3>7 DEF Shifts
  <2> QED BY <1>3, <2>4, <2>5
<1> QED BY <1>4, <1>5

-----------------------------------------------------------------------------
(* What is committed. *)

\* The lines of a file but for a last one that has no newline.
CleanLines == IF ended THEN Len(lines) ELSE Len(lines) - 1

\* A replay gets no further than a complete record with a wrong checksum.
Refused ==
  \E n \in Nat : /\ ReadsFirst(lines, n) /\ n < Len(lines)
                 /\ Decodes(lines[n + 1])
                 /\ n + 1 = Len(lines) => ended

\* A replay has read lines it can use, and in memory what they hold.  While no
\* write has failed, the file has a promised value for every key that is not
\* behind a garbled record, and a serving node has those values; and a replay
\* stops at the end of the clean lines, or at the garbled record.
CommitInv ==
  /\ pc = "replay" => /\ \A i \in 1..offset : Verifies(lines[i])
                      /\ mem = Latest(lines, 1..offset)
  /\ pc = "down" => mem = Empty
  /\ intact =>
       /\ \A k \in Key \ behind : Recovered(lines)[k] \in promise[k]
       /\ pc = "open" => \A k \in Key \ behind : mem[k] = Recovered(lines)[k]
       /\ behind = {} => ReadsFirst(lines, CleanLines) /\ (pc = "open" => ended)
       /\ behind # {} => Refused

LEMMA RecoveredType ==
  ASSUME NEW ls \in Seq(Seq(Piece))
  PROVE  Recovered(ls) \in [Key -> Value]
<1>1. PICK n : ReadsFirst(ls, n)
  BY ReadsFirstExists
<1> QED BY <1>1, RecoveredIs, LatestType

\* What is written behind a line that stops the replay is not found.
LEMMA RefusedAppend ==
  ASSUME FileOK, Refused, NEW p \in Piece, NEW b \in BOOLEAN, AppendPiece(p, b)
  PROVE  Refused' /\ Recovered(lines') = Recovered(lines)
<1>1. lines \in Seq(Seq(Piece)) /\ Len(lines) \in Nat /\ lines' \in Seq(Seq(Piece))
  BY AppendKept DEF FileOK
<1>2. PICK n \in Nat : /\ ReadsFirst(lines, n) /\ n < Len(lines)
                       /\ Decodes(lines[n + 1])
                       /\ n + 1 = Len(lines) => ended
  BY DEF Refused
<1>3. /\ Len(lines') \in Nat /\ n + 1 < Len(lines')
      /\ \A i \in 1..(n + 1) : lines[i] = lines'[i]
  <2>1. CASE ended
    <3>1. lines' = Append(lines, <<p>>)
      BY <2>1 DEF AppendPiece
    <3> QED BY <1>1, <1>2, <3>1
  <2>2. CASE ~ended
    <3>1. lines' = [lines EXCEPT ![Len(lines)] = Append(@, p)]
      BY <2>2 DEF AppendPiece
    <3> QED BY <1>1, <1>2, <2>2, <3>1
  <2> QED BY <2>1, <2>2
<1>4. ReadsFirst(lines', n)
  <2>1. \A i \in 1..n : i \in 1..(n + 1) /\ Verifies(lines[i])
    BY <1>2 DEF ReadsFirst
  <2>2. ~Verifies(lines[n + 1]) /\ n + 1 \in 1..(n + 1)
    BY <1>2 DEF ReadsFirst
  <2> QED BY <1>3, <2>1, <2>2 DEF ReadsFirst
<1>5. Refused'
  <2>1. Decodes(lines'[n + 1])
    BY <1>2, <1>3
  <2> QED BY <1>3, <1>4, <2>1 DEF Refused
<1>6. Latest(lines, 1..n) = Latest(lines', 1..n)
  <2>1. \A i \in 1..n : lines[i] = lines'[i]
    BY <1>3
  <2> QED BY <2>1, LatestFrame
<1> QED BY <1>1, <1>2, <1>4, <1>5, <1>6, RecoveredIs

\* A write that is not readable is not found either, and no line is lost to it.
LEMMA UnreadAppend ==
  ASSUME FileOK, ended, ReadsFirst(lines, Len(lines)),
         NEW p \in Piece, ~Verifies(<<p>>), NEW b \in BOOLEAN, AppendPiece(p, b)
  PROVE  /\ lines' = Append(lines, <<p>>) /\ ended' = b
         /\ ReadsFirst(lines', Len(lines)) /\ Len(lines) < Len(lines')
         /\ Recovered(lines') = Recovered(lines)
<1> DEFINE l == Len(lines)
<1>1. /\ lines \in Seq(Seq(Piece)) /\ l \in Nat /\ lines' \in Seq(Seq(Piece))
      /\ lines' = Append(lines, <<p>>) /\ ended' = b
  BY AppendKept DEF FileOK, AppendPiece
<1>2. /\ Len(lines') = l + 1 /\ lines'[l + 1] = <<p>>
      /\ \A i \in 1..l : lines[i] = lines'[i]
  BY <1>1
<1>3. ReadsFirst(lines', l)
  <2>1. \A i \in 1..l : Verifies(lines[i])
    BY DEF ReadsFirst
  <2> QED BY <1>1, <1>2, <2>1 DEF ReadsFirst
<1>4. Latest(lines, 1..l) = Latest(lines', 1..l)
  BY <1>1, <1>2, LatestFrame
<1>5. Recovered(lines') = Recovered(lines)
  BY <1>1, <1>3, <1>4, RecoveredIs
<1>6. l < Len(lines')
  BY <1>1, <1>2
<1> QED BY <1>1, <1>3, <1>5, <1>6

\* A record that gets to the end of the file is what a replay finds last, unless it
\* is garbled or behind one that is.
LEMMA PlacementCommits ==
  ASSUME LogInv, CommitInv, NEW r \in Record, RecordPlacement(r)
  PROVE  CommitInv'
<1>1. /\ pc = "open" /\ pc' = "open" /\ intact' = intact
      /\ mem' = [mem EXCEPT ![r.key] = r.val]
      /\ promise' = [promise EXCEPT ![r.key] = {r.val}]
      /\ AppendPiece(Whole(r), TRUE) /\ ended'
      /\ behind' = IF behind # {} \/ r \in Garbled THEN behind \cup {r.key} ELSE behind
  BY DEF RecordPlacement, Changes, AppendPiece
<1>2. /\ FileOK /\ Whole(r) \in Piece /\ r.key \in Key
      /\ mem \in [Key -> Value] /\ promise \in [Key -> SUBSET Value]
      /\ lines \in Seq(Seq(Piece)) /\ Len(lines) \in Nat
  BY DEF Whole, Piece, LogInv, FileOK, Record
<1>3. SUFFICES ASSUME intact
      PROVE  /\ \A k \in Key \ behind' : /\ mem'[k] = Recovered(lines')[k]
                                          /\ Recovered(lines')[k] \in promise'[k]
             /\ behind' = {} => ReadsFirst(lines', CleanLines')
             /\ behind' # {} => Refused'
  BY <1>1, <1>3 DEF CommitInv
<1>4. \A k \in Key \ behind : mem[k] = Recovered(lines)[k] /\ Recovered(lines)[k] \in promise[k]
  BY <1>1, <1>3 DEF CommitInv
<1>5. \A k \in Key : k # r.key => mem'[k] = mem[k] /\ promise'[k] = promise[k]
  BY <1>1, <1>2
<1>6. CASE behind # {}
  <2>1. Refused' /\ Recovered(lines') = Recovered(lines)
    BY <1>1, <1>2, <1>3, <1>6, RefusedAppend DEF CommitInv
  <2>2. behind' = behind \cup {r.key}
    BY <1>1, <1>6
  <2> QED BY <1>4, <1>5, <2>1, <2>2
<1>7. CASE behind = {}
  <2>1. ended /\ ReadsFirst(lines, Len(lines))
    BY <1>1, <1>3, <1>7 DEF CommitInv, CleanLines
  <2>2. lines' = Append(lines, <<Whole(r)>>)
    BY <1>1, <2>1 DEF AppendPiece
  <2>3. Decodes(<<Whole(r)>>) /\ <<Whole(r)>>[1].rec = r
    BY DEF Decodes, Whole
  <2>4. CASE r \in Garbled
    <3>1. ~Verifies(<<Whole(r)>>)
      BY <2>3, <2>4 DEF Verifies
    <3>2. /\ ReadsFirst(lines', Len(lines)) /\ Len(lines) < Len(lines')
          /\ Recovered(lines') = Recovered(lines)
      BY <1>1, <1>2, <2>1, <3>1, UnreadAppend
    <3>3. lines'[Len(lines) + 1] = <<Whole(r)>>
      BY <1>2, <2>2
    <3>4. Refused'
      BY <1>1, <1>2, <2>3, <3>2, <3>3 DEF Refused
    <3>5. behind' = {r.key}
      BY <1>1, <1>7, <2>4
    <3> QED BY <1>4, <1>5, <1>7, <3>2, <3>4, <3>5
  <2>5. CASE r \notin Garbled
    <3>1. Verifies(<<Whole(r)>>)
      BY <2>3, <2>5 DEF Verifies
    <3>2. \A i \in 1..Len(lines) : Verifies(lines[i])
      BY <2>1 DEF ReadsFirst
    <3>3. /\ ReadsFirst(lines', Len(lines'))
          /\ Recovered(lines') = [Recovered(lines) EXCEPT ![r.key] = r.val]
      BY <1>2, <2>2, <2>3, <3>1, <3>2, CleanAppend
    <3>4. Recovered(lines) \in [Key -> Value]
      BY <1>2, RecoveredType
    <3>5. behind' = {} /\ CleanLines' = Len(lines')
      BY <1>1, <1>7, <2>5 DEF CleanLines
    <3>6. mem'[r.key] = r.val /\ promise'[r.key] = {r.val} /\ Recovered(lines')[r.key] = r.val
      BY <1>1, <1>2, <3>3, <3>4
    <3>7. \A k \in Key : k # r.key => Recovered(lines')[k] = Recovered(lines)[k]
      BY <3>3, <3>4
    <3> QED BY <1>4, <1>5, <1>7, <3>3, <3>5, <3>6, <3>7
  <2> QED BY <2>4, <2>5
<1> QED BY <1>6, <1>7

\* A torn record leaves the lines before it as they are.
LEMMA CrashCommits ==
  ASSUME LogInv, CommitInv, NEW r \in Record, CrashInChange(r)
  PROVE  CommitInv'
<1>1. /\ pc = "open" /\ pc' = "down" /\ mem' = Empty /\ Torn(r) /\ behind' = behind
      /\ promise' = [promise EXCEPT ![r.key] = @ \cup {r.val}]
  BY DEF CrashInChange, Changes
<1>2. SUFFICES ASSUME intact'
      PROVE  /\ \A k \in Key \ behind : Recovered(lines')[k] \in promise'[k]
             /\ behind = {} => ReadsFirst(lines', CleanLines')
             /\ behind # {} => Refused'
  BY <1>1, <1>2 DEF CommitInv
<1>3. intact /\ (UNCHANGED file \/ AppendPiece(Part(r), FALSE))
  BY <1>1, <1>2 DEF Torn
<1>4. /\ FileOK /\ Part(r) \in Piece /\ ~Verifies(<<Part(r)>>)
      /\ lines \in Seq(Seq(Piece)) /\ Len(lines) \in Nat
  BY DEF Part, Piece, LogInv, FileOK, Verifies, Decodes
<1>5. \A k \in Key : promise[k] \subseteq promise'[k]
  BY <1>1 DEF LogInv
<1>6. Recovered(lines') = Recovered(lines) =>
        \A k \in Key \ behind : Recovered(lines')[k] \in promise'[k]
  BY <1>3, <1>5 DEF CommitInv
<1>7. CASE UNCHANGED file
  BY <1>3, <1>6, <1>7 DEF file, CommitInv, CleanLines, Refused
<1>8. CASE AppendPiece(Part(r), FALSE) /\ behind # {}
  <2>1. Refused' /\ Recovered(lines') = Recovered(lines)
    BY <1>3, <1>4, <1>8, RefusedAppend DEF CommitInv
  <2> QED BY <1>6, <1>8, <2>1
<1>9. CASE AppendPiece(Part(r), FALSE) /\ behind = {}
  <2>1. ended /\ ReadsFirst(lines, Len(lines))
    BY <1>1, <1>3, <1>9 DEF CommitInv, CleanLines
  <2>2. /\ lines' = Append(lines, <<Part(r)>>) /\ ended' = FALSE
        /\ ReadsFirst(lines', Len(lines)) /\ Recovered(lines') = Recovered(lines)
    BY <1>4, <1>9, <2>1, UnreadAppend
  <2>3. CleanLines' = Len(lines)
    BY <1>4, <2>2 DEF CleanLines
  <2> QED BY <1>6, <1>9, <2>2, <2>3
<1> QED BY <1>3, <1>7, <1>8, <1>9

\* What a replay serves is what it found.
LEMMA ServeCommits ==
  ASSUME CommitInv, intact, mem = Recovered(lines), Serve
  PROVE  \A k \in Key \ behind : mem'[k] = mem[k] /\ mem[k] \in promise'[k]
BY DEF CommitInv, Serve

LEMMA ReplayedSoFar ==
  ASSUME LogInv, CommitInv, pc = "replay", offset < Len(lines) => ~Verifies(lines[offset + 1])
  PROVE  ReadsFirst(lines, offset) /\ mem = Recovered(lines)
<1>1. ReadsFirst(lines, offset) /\ lines \in Seq(Seq(Piece))
  BY DEF LogInv, FileOK, CommitInv, ReadsFirst
<1>2. Recovered(lines) = Latest(lines, 1..offset)
  BY <1>1, RecoveredIs
<1> QED BY <1>1, <1>2 DEF CommitInv

\* The replay reads on.
LEMMA LineCommits == LogInv /\ CommitInv /\ ReplayLine => CommitInv'
<1> SUFFICES ASSUME LogInv, CommitInv, ReplayLine PROVE CommitInv'
  OBVIOUS
<1> DEFINE line == lines[offset + 1]
<1>1. /\ pc = "replay" /\ pc' = "replay" /\ Verifies(line)
      /\ mem' = [mem EXCEPT ![line[1].rec.key] = line[1].rec.val]
      /\ offset' = offset + 1 /\ offset \in Nat
      /\ UNCHANGED <<lines, ended, promise, intact, behind>>
  BY DEF ReplayLine, LogInv, file
<1>2. \A i \in 1..(offset + 1) : Verifies(lines[i])
  <2>1. \A i \in 1..(offset + 1) : i \in 1..offset \/ i = offset + 1
    BY <1>1
  <2> QED BY <1>1, <2>1 DEF CommitInv
<1>3. mem' = Latest(lines, 1..(offset + 1))
  BY <1>1, LatestOneMore DEF CommitInv, KeyAt, ValAt
<1> QED BY <1>1, <1>2, <1>3 DEF CommitInv, CleanLines, Refused

\* A replay that cuts the file cuts what follows the clean lines: it never comes to
\* a torn line behind a garbled record.
LEMMA TornCommits == LogInv /\ CommitInv /\ ReplayTorn => CommitInv'
<1> SUFFICES ASSUME LogInv, CommitInv, ReplayTorn PROVE CommitInv'
  OBVIOUS
<1>1. /\ pc = "replay" /\ pc' = "open" /\ intact' = intact /\ behind' = behind
      /\ lines' = SubSeq(lines, 1, offset) /\ ended'
      /\ offset \in Nat /\ offset < Len(lines) /\ lines \in Seq(Seq(Piece)) /\ Len(lines) \in Nat
      /\ ~Decodes(lines[offset + 1]) \/ Unterminated
  BY DEF ReplayTorn, Truncate, Serve, LogInv, FileOK
<1>2. ReadsFirst(lines, offset) /\ mem = Recovered(lines)
  BY ReplayedSoFar DEF ReplayTorn
<1>3. /\ lines' \in Seq(Seq(Piece)) /\ Len(lines') = offset
      /\ \A i \in 1..offset : lines[i] = lines'[i]
  BY <1>1
<1>4. ReadsFirst(lines', offset) /\ CleanLines' = offset
  BY <1>1, <1>2, <1>3 DEF ReadsFirst, CleanLines
<1>5. Recovered(lines') = Recovered(lines)
  <2>1. Latest(lines, 1..offset) = Latest(lines', 1..offset)
    BY <1>1, <1>3, LatestFrame
  <2> QED BY <1>1, <1>2, <1>3, <1>4, <2>1, RecoveredIs
<1>6. intact => behind = {}
  <2> SUFFICES ASSUME Refused PROVE FALSE
    BY DEF CommitInv
  <2>1. PICK n \in Nat : /\ ReadsFirst(lines, n) /\ Decodes(lines[n + 1])
                         /\ n + 1 = Len(lines) => ended
    BY DEF Refused
  <2>2. n = offset
    BY <1>1, <1>2, <2>1, ReadsFirstUnique
  <2> QED BY <1>1, <2>1, <2>2 DEF Unterminated
<1>7. intact => \A k \in Key \ behind : mem'[k] = mem[k] /\ mem[k] \in promise'[k]
  BY <1>2, ServeCommits DEF ReplayTorn
<1> QED BY <1>1, <1>2, <1>4, <1>5, <1>6, <1>7 DEF CommitInv

\* One that leaves the file as it is has come to a garbled record or to the end.
LEMMA EndCommits == LogInv /\ CommitInv /\ (ReplayMismatch \/ ReplayEnds) => CommitInv'
<1> SUFFICES ASSUME LogInv, CommitInv, ReplayMismatch \/ ReplayEnds PROVE CommitInv'
  OBVIOUS
<1>1. /\ pc = "replay" /\ pc' = "open" /\ intact' = intact /\ behind' = behind
      /\ lines' = lines /\ ended' = ended
      /\ offset \in Nat /\ Len(lines) \in Nat /\ ~Unterminated
  BY DEF ReplayMismatch, ReplayEnds, Unterminated, file, Serve, LogInv, FileOK
<1>2. ReadsFirst(lines, offset) /\ mem = Recovered(lines)
  BY ReplayedSoFar DEF ReplayMismatch, ReplayEnds, Verifies
<1>3. intact /\ behind = {} => ended
  <2> SUFFICES ASSUME ReadsFirst(lines, CleanLines), ~ended PROVE FALSE
    BY DEF CommitInv
  <2>1. CleanLines = offset
    BY <1>1, <1>2, ReadsFirstUnique
  <2> QED BY <1>1, <2>1 DEF CleanLines, Unterminated
<1>4. intact => \A k \in Key \ behind : mem'[k] = mem[k] /\ mem[k] \in promise'[k]
  BY <1>2, ServeCommits DEF ReplayMismatch, ReplayEnds
<1> QED BY <1>1, <1>2, <1>3, <1>4 DEF CommitInv, CleanLines, Refused

LEMMA CommitStep == LogInv /\ CommitInv /\ [Next]_vars => CommitInv'
<1> SUFFICES ASSUME LogInv, CommitInv, [Next]_vars PROVE CommitInv'
  OBVIOUS
<1>1. CASE UNCHANGED vars
  BY <1>1 DEF vars, file, budget, CommitInv, CleanLines, Refused
<1>2. ASSUME NEW r \in Record, RecordUnlogged(r) PROVE CommitInv'
  BY <1>2 DEF RecordUnlogged, Changes, CommitInv
<1>3. CASE Crash
  BY <1>3 DEF Crash, file, CommitInv, CleanLines, Refused
<1>4. CASE Start
  <2>1. /\ pc = "down" /\ pc' = "replay" /\ offset' = 0
        /\ UNCHANGED <<mem, promise, lines, ended, intact, behind>>
    BY <1>4 DEF Start, file
  <2>2. mem = Latest(lines, 1..0)
    BY <2>1 DEF Latest, About, CommitInv, Empty
  <2> QED BY <2>1, <2>2 DEF CommitInv, CleanLines, Refused
<1> QED
  BY <1>1, <1>2, <1>3, <1>4, PlacementCommits, CrashCommits, LineCommits, TornCommits, EndCommits
     DEF Next

LEMMA NothingRecovered == lines = << >> => ReadsFirst(lines, 0) /\ Recovered(lines) = Empty
<1> SUFFICES ASSUME lines = << >> PROVE ReadsFirst(lines, 0) /\ Recovered(lines) = Empty
  OBVIOUS
<1>1. ReadsFirst(lines, 0) /\ lines \in Seq(Seq(Piece))
  BY DEF ReadsFirst
<1>2. Recovered(lines) = Latest(lines, 1..0)
  BY <1>1, RecoveredIs
<1>3. Latest(lines, 1..0) = Empty
  BY DEF Latest, About, Empty
<1> QED BY <1>1, <1>2, <1>3

LEMMA CommitStarts == Init => LogInv /\ CommitInv
<1> SUFFICES ASSUME Init PROVE LogInv /\ CommitInv
  OBVIOUS
<1>1. LogInv
  BY BoundAssumption DEF Init, LogInv, FileOK, Empty, Value
<1>2. /\ lines = << >> /\ CleanLines = 0 /\ ended /\ behind = {}
      /\ ReadsFirst(lines, 0) /\ Recovered(lines) = Empty
  BY NothingRecovered DEF Init, CleanLines
<1>3. \A k \in Key : mem[k] = Nil /\ promise[k] = {Nil} /\ Empty[k] = Nil
  BY DEF Init, Empty
<1> QED BY <1>1, <1>2, <1>3 DEF Init, CommitInv

\* However often a node crashes, in a change, between changes or while it
\* replays, what it serves is the last value it answered for, or one that a crash
\* cut short and that has not been taken back, for every key that is not behind a
\* garbled record (wal.go:64-164).
THEOREM CommittedStays == Spec => []CommittedIsServed
<1>1. LogInv /\ CommitInv /\ [Next]_vars => LogInv' /\ CommitInv'
  BY LogStep, CommitStep
<1>2. CommitInv => CommittedIsServed
  BY DEF CommitInv, CommittedIsServed
<1> QED BY CommitStarts, <1>1, <1>2, PTL DEF Spec

\* While no write has failed, the log of a serving node rebuilds what the node
\* serves, for every key that is not behind a garbled record; and until there is
\* one, it has no line that cannot be read (wal.go:113-158).
THEOREM LogRebuilds == Spec => []LogRebuildsMemory
<1>1. LogInv /\ CommitInv /\ [Next]_vars => LogInv' /\ CommitInv'
  BY LogStep, CommitStep
<1>2. LogInv /\ CommitInv => LogRebuildsMemory
  <2> SUFFICES ASSUME LogInv, CommitInv, intact, pc = "open", behind = {}
               PROVE  ended /\ \A i \in DOMAIN lines : Verifies(lines[i])
    BY DEF CommitInv, LogRebuildsMemory
  <2>1. ended /\ ReadsFirst(lines, Len(lines)) /\ DOMAIN lines = 1..Len(lines)
    BY DEF CommitInv, CleanLines, LogInv, FileOK
  <2> QED BY <2>1 DEF ReadsFirst
<1> QED BY CommitStarts, <1>1, <1>2, PTL DEF Spec

LEMMA ReplayKeepsStep ==
  ASSUME LogInv, CommitInv, [Next]_vars, pc = "replay", pc' = "open"
  PROVE  /\ mem' = Recovered(lines) /\ mem' = Recovered(lines')
         /\ \/ lines' = SubSeq(lines, 1, ReadableLines(lines))
            \/ /\ ReadableLines(lines) < Len(lines)
               /\ Decodes(lines[ReadableLines(lines) + 1])
               /\ UNCHANGED file
<1>1. ReplayTorn \/ ReplayMismatch \/ ReplayEnds
  BY DEF Next, vars, RecordPlacement, RecordUnlogged, CrashInChange, Changes, Crash, Start,
         ReplayLine
<1>2. ReadsFirst(lines, offset) /\ mem = Recovered(lines) /\ mem' = mem
  BY <1>1, ReplayedSoFar DEF ReplayTorn, ReplayMismatch, ReplayEnds, Serve
<1>3. /\ lines \in Seq(Seq(Piece)) /\ Len(lines) \in Nat /\ offset \in Nat
      /\ offset <= Len(lines)
  BY DEF LogInv, FileOK
<1>4. ReadableLines(lines) = offset
  <2>1. ReadsFirst(lines, ReadableLines(lines))
    BY <1>2, Zenon DEF ReadsFirst, ReadableLines
  <2> QED BY <1>2, <1>3, <2>1, ReadsFirstUnique
<1>5. CASE ReplayTorn
  <2>1. /\ lines' = SubSeq(lines, 1, offset)
        /\ lines' \in Seq(Seq(Piece)) /\ Len(lines') = offset
        /\ \A i \in 1..offset : lines[i] = lines'[i]
    BY <1>3, <1>5 DEF ReplayTorn, Truncate
  <2>2. ReadsFirst(lines', offset)
    BY <1>2, <1>3, <2>1 DEF ReadsFirst
  <2>3. Latest(lines, 1..offset) = Latest(lines', 1..offset)
    BY <1>3, <2>1, LatestFrame
  <2>4. Recovered(lines') = Recovered(lines)
    BY <1>2, <1>3, <2>1, <2>2, <2>3, RecoveredIs
  <2> QED BY <1>2, <1>4, <2>1, <2>4
<1>6. CASE ReplayMismatch
  BY <1>2, <1>4, <1>6 DEF ReplayMismatch, file
<1>7. CASE ReplayEnds
  <2>1. lines' = lines /\ offset = Len(lines)
    BY <1>7 DEF ReplayEnds, file
  <2>2. lines = SubSeq(lines, 1, Len(lines))
    BY <1>3
  <2> QED BY <1>2, <1>4, <2>1, <2>2
<1> QED BY <1>1, <1>5, <1>6, <1>7

\* However the file was damaged, a replay serves what the lines before the first
\* damaged one hold, and finds the same in the file it leaves; what follows them is
\* cut, or is left as it is if it begins with a complete record whose checksum is
\* wrong (wal.go:111-164).
THEOREM ReplayKeeps == Spec => ReplayKeepsReadable
<1>1. LogInv /\ CommitInv /\ [Next]_vars => LogInv' /\ CommitInv'
  BY LogStep, CommitStep
<1>2. LogInv /\ CommitInv /\ [Next]_vars =>
        [pc = "replay" /\ pc' = "open" =>
           /\ mem' = Recovered(lines) /\ mem' = Recovered(lines')
           /\ \/ lines' = SubSeq(lines, 1, ReadableLines(lines))
              \/ /\ ReadableLines(lines) < Len(lines)
                 /\ Decodes(lines[ReadableLines(lines) + 1])
                 /\ UNCHANGED file]_vars
  BY ReplayKeepsStep
<1> QED BY CommitStarts, <1>1, <1>2, PTL DEF Spec, ReplayKeepsReadable

-----------------------------------------------------------------------------
(* The durable store that the log implements *)

Sound == intact /\ behind = {}

LEMMA StoreStarts == Init => Durable!Init
<1> SUFFICES ASSUME Init PROVE Durable!Init
  OBVIOUS
<1>1. pc = "open" /\ mem = Empty /\ Sound /\ Recovered(lines) = Empty
  BY NothingRecovered DEF Init, Sound
<1>2. Empty = Durable!Empty
  BY DEF Empty, Durable!Empty
<1> QED BY <1>1, <1>2 DEF Durable!Init, Sound

\* What a serving node has on file when every record so far is legible.
LEMMA SoundEnded == CommitInv /\ Sound /\ pc = "open" => ended
BY DEF CommitInv, Sound

\* A log that is damaged, or is now, may lose a record.
LEMMA LossIsUnrecorded ==
  ASSUME ~Sound', CommitInv, pc = "open",
         \/ Recovered(lines') = Recovered(lines)
         \/ ~ended /\ Shifts(Recovered(lines), Recovered(lines'))
  PROVE  Durable!Unrecorded
<1>1. CASE Recovered(lines') = Recovered(lines)
  BY <1>1 DEF Durable!Unrecorded, Sound
<1>2. CASE ~ended /\ Shifts(Recovered(lines), Recovered(lines'))
  <2>1. ~Sound /\ Durable!Value = Value
    BY <1>2, SoundEnded DEF Durable!Value, Value
  <2>2. \E k \in Key, v \in Value : Recovered(lines') = [Recovered(lines) EXCEPT ![k] = v]
    BY <1>2 DEF Shifts
  <2> QED BY <2>1, <2>2 DEF Durable!Unrecorded, Sound
<1> QED BY <1>1, <1>2

\* An answered change that is logged.
LEMMA PlacementChanges ==
  ASSUME LogInv, CommitInv, NEW r \in Record, RecordPlacement(r)
  PROVE  Durable!Change(r.key, r.val)
<1>1. /\ pc = "open" /\ pc' = "open" /\ intact' = intact
      /\ mem' = [mem EXCEPT ![r.key] = r.val]
      /\ AppendPiece(Whole(r), TRUE)
      /\ behind' = IF behind # {} \/ r \in Garbled THEN behind \cup {r.key} ELSE behind
  BY DEF RecordPlacement, Changes
<1>2. /\ Whole(r) \in Piece /\ Whole(r).rec = r /\ FileOK
      /\ Verifies(<<Whole(r)>>) <=> r \notin Garbled
  BY DEF Whole, Piece, LogInv, Verifies, Decodes
<1>3. \/ Recovered(lines') = Recovered(lines)
      \/ ~ended /\ Shifts(Recovered(lines), Recovered(lines'))
      \/ /\ ended /\ Verifies(<<Whole(r)>>)
         /\ Recovered(lines') = [Recovered(lines) EXCEPT ![r.key] = r.val]
  BY <1>1, <1>2, AppendRecovers
<1>4. CASE Sound /\ r \notin Garbled
  <2>1. ended /\ ReadsFirst(lines, Len(lines))
    BY <1>1, <1>4 DEF CommitInv, Sound, CleanLines
  <2>2. \A i \in 1..Len(lines) : Verifies(lines[i])
    BY <2>1 DEF ReadsFirst
  <2>3. lines' = Append(lines, <<Whole(r)>>) /\ lines \in Seq(Seq(Piece))
    BY <1>1, <1>2, <2>1 DEF AppendPiece, FileOK
  <2>4. Recovered(lines') = [Recovered(lines) EXCEPT ![r.key] = r.val]
    BY <1>2, <1>4, <2>2, <2>3, CleanAppend
  <2> QED BY <1>1, <1>4, <2>4 DEF Durable!Change, Durable!Recorded, Sound
<1>5. CASE ~(Sound /\ r \notin Garbled)
  <2>1. ~Sound'
    BY <1>1, <1>5 DEF Sound
  <2>2. CASE \/ Recovered(lines') = Recovered(lines)
             \/ ~ended /\ Shifts(Recovered(lines), Recovered(lines'))
    <3>1. Durable!Unrecorded
      BY <1>1, <2>1, <2>2, LossIsUnrecorded
    <3> QED BY <1>1, <3>1 DEF Durable!Change
  <2>3. CASE /\ Verifies(<<Whole(r)>>)
             /\ Recovered(lines') = [Recovered(lines) EXCEPT ![r.key] = r.val]
    <3>1. ~Sound
      BY <1>2, <1>5, <2>3
    <3> QED BY <1>1, <2>1, <2>3, <3>1 DEF Durable!Change, Durable!Recorded, Sound
  <2> QED BY <1>3, <2>2, <2>3
<1> QED BY <1>4, <1>5

\* An answered change that is not logged.
LEMMA UnloggedChanges ==
  ASSUME LogInv, CommitInv, NEW r \in Record, RecordUnlogged(r)
  PROVE  Durable!Change(r.key, r.val)
<1>1. /\ pc = "open" /\ pc' = "open" /\ intact' = FALSE
      /\ mem' = [mem EXCEPT ![r.key] = r.val]
      /\ UNCHANGED file \/ AppendPiece(Part(r), FALSE)
  BY DEF RecordUnlogged, Changes
<1>2. \/ Recovered(lines') = Recovered(lines)
      \/ ~ended /\ Shifts(Recovered(lines), Recovered(lines'))
  <2>1. CASE UNCHANGED file
    BY <2>1 DEF file
  <2>2. CASE AppendPiece(Part(r), FALSE)
    <3>1. Part(r) \in Piece /\ ~Verifies(<<Part(r)>>) /\ FileOK
      BY DEF Part, Piece, LogInv, Verifies, Decodes
    <3> QED BY <2>2, <3>1, AppendRecovers
  <2> QED BY <1>1, <2>1, <2>2
<1>3. Durable!Unrecorded
  BY <1>1, <1>2, LossIsUnrecorded DEF Sound
<1> QED BY <1>1, <1>3 DEF Durable!Change

\* A change that a crash interrupts.
LEMMA CrashInterrupts ==
  ASSUME LogInv, CommitInv, NEW r \in Record, CrashInChange(r)
  PROVE  Durable!Interrupted(r.key, r.val)
<1>1. pc = "open" /\ pc' = "down" /\ mem' = Empty /\ Torn(r) /\ behind' = behind
  BY DEF CrashInChange, Changes
<1>2. Durable!Down
  BY <1>1 DEF Durable!Down, Durable!Empty, Empty
<1>3. /\ FileOK /\ Part(r) \in Piece /\ ~Verifies(<<Part(r)>>)
      /\ Whole(r) \in Piece /\ Whole(r).rec = r
  BY DEF Part, Whole, Piece, LogInv, Verifies, Decodes
<1>4. CASE UNCHANGED <<file, intact>>
  BY <1>1, <1>2, <1>4 DEF file, Durable!Interrupted
<1>5. CASE AppendPiece(Part(r), FALSE) /\ UNCHANGED intact
  <2>1. \/ Recovered(lines') = Recovered(lines)
        \/ ~ended /\ Shifts(Recovered(lines), Recovered(lines'))
    BY <1>3, <1>5, AppendRecovers
  <2>2. CASE Recovered(lines') = Recovered(lines)
    BY <1>1, <1>2, <1>5, <2>2 DEF Durable!Interrupted
  <2>3. CASE ~ended /\ Shifts(Recovered(lines), Recovered(lines'))
    <3>1. ~Sound'
      BY <1>1, <1>5, <2>3, SoundEnded DEF Sound
    <3>2. Durable!Unrecorded
      BY <1>1, <2>3, <3>1, LossIsUnrecorded
    <3> QED BY <1>1, <1>2, <3>2 DEF Durable!Interrupted
  <2> QED BY <2>1, <2>2, <2>3
<1>6. CASE AppendPiece(Whole(r), FALSE) /\ intact' = FALSE
  <2>1. \/ Recovered(lines') = Recovered(lines)
        \/ ~ended /\ Shifts(Recovered(lines), Recovered(lines'))
        \/ Recovered(lines') = [Recovered(lines) EXCEPT ![r.key] = r.val]
    BY <1>3, <1>6, AppendRecovers
  <2>2. CASE Recovered(lines') = [Recovered(lines) EXCEPT ![r.key] = r.val]
    BY <1>1, <1>2, <1>6, <2>2 DEF Durable!Interrupted
  <2>3. CASE \/ Recovered(lines') = Recovered(lines)
             \/ ~ended /\ Shifts(Recovered(lines), Recovered(lines'))
    <3>1. Durable!Unrecorded
      BY <1>1, <1>6, <2>3, LossIsUnrecorded DEF Sound
    <3> QED BY <1>1, <1>2, <3>1 DEF Durable!Interrupted
  <2> QED BY <2>1, <2>2, <2>3
<1> QED BY <1>1, <1>4, <1>5, <1>6 DEF Torn

\* The end of a replay.
LEMMA ReplayRecovers ==
  ASSUME LogInv, CommitInv, [Next]_vars, pc = "replay", pc' = "open"
  PROVE  Durable!Recover
<1>1. mem' = Recovered(lines) /\ mem' = Recovered(lines')
  BY ReplayKeepsStep
<1>2. intact' = intact /\ behind' = behind
  BY DEF Next, vars, RecordPlacement, RecordUnlogged, CrashInChange, Changes, Crash, Start,
         ReplayLine, ReplayTorn, ReplayMismatch, ReplayEnds, Serve
<1> QED BY <1>1, <1>2 DEF Durable!Recover

\* Every step of the log is one of the store, or changes nothing of it.
LEMMA StoreStep ==
  ASSUME LogInv, CommitInv, [Next]_vars
  PROVE  [Durable!Next]_<<pc = "open", IF pc = "open" THEN mem ELSE Empty,
                          Recovered(lines), intact /\ behind = {}>>
<1>0. Durable!Value = Value
  BY DEF Durable!Value, Value
<1>1. CASE UNCHANGED vars
  BY <1>1 DEF vars, file
<1>2. ASSUME NEW r \in Record, RecordPlacement(r) \/ RecordUnlogged(r) \/ CrashInChange(r)
      PROVE  Durable!Next
  <2>1. r.key \in Key /\ r.val \in Value
    BY DEF Record
  <2>2. Durable!Change(r.key, r.val) \/ Durable!Interrupted(r.key, r.val)
    BY <1>2, PlacementChanges, UnloggedChanges, CrashInterrupts
  <2> QED BY <1>0, <2>1, <2>2 DEF Durable!Next
<1>3. CASE Crash
  <2>1. pc # "down" /\ pc' = "down" /\ mem' = Empty /\ lines' = lines /\ intact' = intact
        /\ behind' = behind
    BY <1>3 DEF Crash, file
  <2>2. CASE pc = "open"
    BY <2>1, <2>2 DEF Durable!Next, Durable!Crash, Durable!Down, Durable!Empty, Empty
  <2>3. CASE pc # "open"
    BY <2>1, <2>3
  <2> QED BY <2>2, <2>3
<1>4. CASE Start
  BY <1>4 DEF Start, file
<1>5. CASE ReplayLine
  BY <1>5 DEF ReplayLine, file
<1>6. CASE ReplayTorn \/ ReplayMismatch \/ ReplayEnds
  <2>1. pc = "replay" /\ pc' = "open"
    BY <1>6 DEF ReplayTorn, ReplayMismatch, ReplayEnds, Serve
  <2> QED BY <2>1, ReplayRecovers DEF Durable!Next
<1> QED BY <1>1, <1>2, <1>3, <1>4, <1>5, <1>6 DEF Next

\* The write-ahead log implements a durable store: every change is one step of
\* it, whatever pieces a crash leaves in the file and whether or not a record passes
\* its checksum, and every restart, however often interrupted, is one recovery that
\* finds what was durable for all keys at once (wal.go:64-164).
THEOREM LogIsDurable == Spec => ImplementsDurableStore
<1>1. LogInv /\ CommitInv /\ [Next]_vars => LogInv' /\ CommitInv'
  BY LogStep, CommitStep
<1>2. LogInv /\ CommitInv /\ [Next]_vars =>
        [Durable!Next]_<<pc = "open", IF pc = "open" THEN mem ELSE Empty, Recovered(lines), intact /\ behind = {}>>
  BY StoreStep
<1> QED
  BY CommitStarts, StoreStarts, <1>1, <1>2, PTL DEF Spec, ImplementsDurableStore, Durable!Spec

\* So a serving node has in memory exactly what a crash would leave, as long as no
\* write has failed and no record was garbled: an invariant of the durable store, and
\* therefore of the log that implements it (wal.go:64-164).
THEOREM NothingIsLost == Spec => []Durable!NothingToLose
<1>1. Durable!Init => Durable!NothingToLose
  BY DEF Durable!Init, Durable!NothingToLose
<1>2. Durable!NothingToLose
      /\ [Durable!Next]_<<pc = "open", IF pc = "open" THEN mem ELSE Empty, Recovered(lines), intact /\ behind = {}>>
      => Durable!NothingToLose'
  <2> SUFFICES ASSUME Durable!NothingToLose, Durable!Next, pc' = "open", intact' /\ behind' = {}
               PROVE  mem' = Recovered(lines')
    BY DEF Durable!NothingToLose
  <2>1. ASSUME NEW k \in Key, NEW v \in Durable!Value, Durable!Change(k, v)
        PROVE  mem' = Recovered(lines')
    BY <2>1 DEF Durable!Change, Durable!Recorded, Durable!Unrecorded, Durable!NothingToLose
  <2>2. ASSUME NEW k \in Key, NEW v \in Durable!Value, Durable!Interrupted(k, v) PROVE FALSE
    BY <2>2 DEF Durable!Interrupted, Durable!Down
  <2>3. ~Durable!Crash
    BY DEF Durable!Crash, Durable!Down
  <2>4. CASE Durable!Recover
    BY <2>4 DEF Durable!Recover
  <2> QED BY <2>1, <2>2, <2>3, <2>4 DEF Durable!Next
<1> QED BY LogIsDurable, <1>1, <1>2, PTL DEF ImplementsDurableStore, Durable!Spec

=============================================================================
