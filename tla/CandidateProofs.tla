---------------------------- MODULE CandidateProofs ----------------------------
(***************************************************************************)
(* The candidate ledger and its projection.  The tables and the ledger keep*)
(* their types; the fold of a replay gives each field the value given last;*)
(* and no row of the projection runs ahead of the table of blocks.         *)
(*                                                                         *)
(* Every step of CandidateServer is first brought to one of five kinds, by *)
(* what it does to the queue (StepKinds); the invariants are then preserved*)
(* kind by kind.                                                           *)
(***************************************************************************)
EXTENDS SettingsProofs

(***************************************************************************)
(* Induction over the naturals, for sets, and the replay of a chain.       *)
(***************************************************************************)
LEMMA Induction ==
    ASSUME NEW S \in SUBSET Nat, 0 \in S, \A n \in S : n + 1 \in S
    PROVE  \A n \in Nat : n \in S
<1> SUFFICES ASSUME NEW n \in Nat, n \notin S PROVE FALSE
  OBVIOUS
<1>1. PICK m \in Nat \ S : \A k \in Nat \ S : m <= k
  <2>1. Nat \ S \in SUBSET Nat /\ Nat \ S # {}
    OBVIOUS
  <2>2. QED
    BY <2>1, FirstPosition
<1>2. m # 0 /\ m \in Nat
  OBVIOUS
<1>3. m - 1 \in Nat /\ ~(m <= m - 1) /\ (m - 1) + 1 = m
  BY <1>2
<1>4. m - 1 \in S
  BY <1>1, <1>3
<1>5. QED
  BY <1>1, <1>3, <1>4

\* The rows after a block, given those before it.
AfterBlock(s, voided, rows, n) ==
    IF Skipped(s[n], voided) THEN rows ELSE ReplayBlock(rows, s[n])

RowsAfter(f, s, voided, m) ==
    f = [n \in 0..m |-> IF n = 0 THEN <<>> ELSE AfterBlock(s, voided, f[n - 1], n)]

LEMMA ReplayStarts ==
    ASSUME NEW s, NEW voided
    PROVE  \E f : RowsAfter(f, s, voided, 0)
<1> DEFINE f == [n \in 0..0 |-> <<>>]
<1>1. ASSUME NEW n \in 0..0 PROVE f[n] = IF n = 0 THEN <<>> ELSE AfterBlock(s, voided, f[n - 1], n)
  OBVIOUS
<1>2. RowsAfter(f, s, voided, 0)
  BY <1>1 DEF RowsAfter
<1>3. QED
  BY <1>2

LEMMA ReplayGoesOn ==
    ASSUME NEW s, NEW voided, NEW m \in Nat, NEW f, RowsAfter(f, s, voided, m)
    PROVE  \E g : RowsAfter(g, s, voided, m + 1)
<1> DEFINE g == [n \in 0..m + 1 |-> IF n <= m THEN f[n] ELSE AfterBlock(s, voided, f[m], m + 1)]
<1>1. \A n \in 0..m : f[n] = IF n = 0 THEN <<>> ELSE AfterBlock(s, voided, f[n - 1], n)
  BY DEF RowsAfter
<1>2. ASSUME NEW n \in 0..m + 1
      PROVE  g[n] = IF n = 0 THEN <<>> ELSE AfterBlock(s, voided, g[n - 1], n)
  <2>1. CASE n <= m
    <3>1. n \in 0..m /\ g[n] = f[n]
      BY <2>1
    <3>2. n # 0 => g[n - 1] = f[n - 1]
      BY <2>1
    <3>3. QED
      BY <1>1, <3>1, <3>2
  <2>2. CASE ~(n <= m)
    <3>1. n = m + 1 /\ n # 0 /\ n - 1 = m /\ m \in 0..m + 1 /\ m <= m
      BY <2>2
    <3>2. g[n] = AfterBlock(s, voided, f[m], m + 1) /\ g[m] = f[m]
      BY <2>2, <3>1
    <3>3. QED
      BY <3>1, <3>2
  <2>3. QED
    BY <2>1, <2>2
<1>3. g = [n \in 0..m + 1 |-> g[n]]
  OBVIOUS
<1> HIDE DEF g
<1>4. RowsAfter(g, s, voided, m + 1)
  BY <1>2, <1>3 DEF RowsAfter
<1>5. QED
  BY <1>4

LEMMA ReplayExists ==
    ASSUME NEW s, NEW voided
    PROVE  \A m \in Nat : \E f : RowsAfter(f, s, voided, m)
<1> DEFINE S == {m \in Nat : \E f : RowsAfter(f, s, voided, m)}
<1>1. S \in SUBSET Nat /\ 0 \in S
  BY ReplayStarts
<1>2. \A n \in S : n + 1 \in S
  BY ReplayGoesOn
<1>3. \A n \in Nat : n \in S
  <2> HIDE DEF S
  <2>1. QED
    BY <1>1, <1>2, Induction
<1>4. QED
  BY <1>3

\* So a replay is the last of a sequence of tables, from none on.
LEMMA ReplayIsRun ==
    ASSUME NEW s, IsSequence(s)
    PROVE  \E f : /\ f[0] = <<>>
                  /\ \A n \in 1..Len(s) : f[n] = AfterBlock(s, VoidedTxIds(s), f[n - 1], n)
                  /\ Replay(s) = f[Len(s)]
<1> DEFINE voided == VoidedTxIds(s)
           f == CHOOSE f : RowsAfter(f, s, voided, Len(s))
<1>1. Len(s) \in Nat
  BY DEF IsSequence
<1>2. RowsAfter(f, s, voided, Len(s))
  BY <1>1, ReplayExists
<1>3. Replay(s) = f[Len(s)]
  BY DEF Replay, RowsAfter, AfterBlock
<1> HIDE DEF f
<1>4. \A n \in 0..Len(s) : f[n] = IF n = 0 THEN <<>> ELSE AfterBlock(s, voided, f[n - 1], n)
  BY <1>2 DEF RowsAfter
<1>5. f[0] = <<>> /\ \A n \in 1..Len(s) : f[n] = AfterBlock(s, voided, f[n - 1], n)
  BY <1>1, <1>4
<1>6. QED
  BY <1>3, <1>5

(***************************************************************************)
(* What the ledger and the projection are made of.                         *)
(***************************************************************************)
States ==
    [nama : RowNames \cup {NULL}, deskripsi : Descriptions \cup {NULL},
     status : {"ACTIVE", "INACTIVE"}]

\* A row that is to be written; in the table it has a name.
NewRows ==
    [candidate_ref : Refs, nama : RowNames \cup {NULL}, deskripsi : Descriptions \cup {NULL},
     status : {"ACTIVE", "INACTIVE"}, last_tx_id : TxIds, verified_at_block_index : Nat]

TxOK(tx) ==
    /\ tx.tx_id \in TxIds /\ tx.candidate_ref \in Refs
    /\ tx.tx_type \in TX_TYPES /\ tx.tx_type \in SubmittedTypes \cup {"CANDIDATE_CREATE"}
    /\ tx.nama \in RowNames \cup {NULL} /\ tx.deskripsi \in Descriptions \cup {NULL}
    /\ tx.tx_type \in {"CANDIDATE_CREATE", "CANDIDATE_UPDATE"} => tx.nama \in RowNames
    /\ tx.void_tx_id \in TxIds \cup {NULL} /\ tx.prev_tx_ref \in TxIds \cup {NULL}

ChainOK(s) ==
    /\ IsSequence(s)
    /\ \A i \in 1..Len(s) : s[i].index # 0 => TxOK(TxOf(s[i])) /\ s[i].index \in Nat

LEMMA Ids ==
    ASSUME NEW r \in Requests, NEW row \in Candidates \cup {NULL}
    PROVE  TxId(r, row) \in TxIds /\ CandidateRef(r, row) \in Refs
<1>1. <<r, row>> \in RowIds /\ <<r, row>>[1] = r /\ <<r, row>>[2] = row
  BY DEF RowIds
<1>2. QED
  BY <1>1 DEF TxIds, Refs

LEMMA BlankState == Blank \in States /\ DOMAIN Blank = {"nama", "deskripsi", "status"}
BY DEF Blank, States

LEMMA StateOf ==
    ASSUME NEW s, s.nama \in RowNames \cup {NULL}, s.deskripsi \in Descriptions \cup {NULL},
           s.status \in {"ACTIVE", "INACTIVE"}
    PROVE  [f \in DOMAIN Blank |-> s[f]] \in States
BY BlankState DEF States

LEMMA AppliedState ==
    ASSUME NEW s \in States, NEW tx, TxOK(tx), tx.tx_type # "CANDIDATE_VOID"
    PROVE  ApplyTxToState(s, tx) \in States
<1>1. \A new, old \in Descriptions \cup {NULL} : Given(new, old) \in Descriptions \cup {NULL}
  BY DEF Given
<1>2. CASE tx.tx_type = "CANDIDATE_CREATE"
  <2>1. ApplyTxToState(s, tx) =
            [nama |-> tx.nama, deskripsi |-> tx.deskripsi, status |-> "ACTIVE"]
    BY <1>2 DEF ApplyTxToState
  <2>2. QED
    BY <2>1 DEF States, TxOK
<1>3. CASE tx.tx_type = "CANDIDATE_UPDATE"
  <2>1. ApplyTxToState(s, tx) =
            [s EXCEPT !.nama = tx.nama, !.deskripsi = Given(tx.deskripsi, @)]
    BY <1>3 DEF ApplyTxToState
  <2>2. PICK d \in Descriptions \cup {NULL} : d = Given(tx.deskripsi, s.deskripsi)
    BY <1>1 DEF States, TxOK
  <2>3. ApplyTxToState(s, tx) = [s EXCEPT !.nama = tx.nama, !.deskripsi = d]
    BY <2>1, <2>2
  <2>4. tx.nama \in RowNames
    BY <1>3 DEF TxOK
  <2>5. QED
    BY <2>3, <2>4 DEF States
<1>4. CASE tx.tx_type = "CANDIDATE_DEACTIVATE"
  <2>1. ApplyTxToState(s, tx) = [s EXCEPT !.status = "INACTIVE"]
    BY <1>4 DEF ApplyTxToState
  <2>2. QED
    BY <2>1 DEF States
<1>5. CASE tx.tx_type = "CANDIDATE_REACTIVATE"
  <2>1. ApplyTxToState(s, tx) = [s EXCEPT !.status = "ACTIVE"]
    BY <1>5 DEF ApplyTxToState
  <2>2. QED
    BY <2>1 DEF States
<1>6. CASE tx.tx_type = "CANDIDATE_CORRECTION"
  <2>1. ApplyTxToState(s, tx) = [s EXCEPT !.deskripsi = Given(tx.deskripsi, @)]
    BY <1>6 DEF ApplyTxToState
  <2>2. QED
    BY <1>1, <2>1 DEF States, TxOK
<1>7. QED
  BY <1>2, <1>3, <1>4, <1>5, <1>6 DEF TxOK, TX_TYPES

LEMMA RowFields ==
    ASSUME NEW tx, NEW s, NEW index
    PROVE  /\ Row(tx, s, index).candidate_ref = tx.candidate_ref
           /\ Row(tx, s, index).last_tx_id = tx.tx_id
           /\ Row(tx, s, index).verified_at_block_index = index
           /\ TxOK(tx) /\ s \in States /\ index \in Nat => Row(tx, s, index) \in NewRows
<1>1. /\ Row(tx, s, index).candidate_ref = tx.candidate_ref
      /\ Row(tx, s, index).last_tx_id = tx.tx_id
      /\ Row(tx, s, index).verified_at_block_index = index
  BY DEF Row
<1>2. TxOK(tx) /\ s \in States /\ index \in Nat => Row(tx, s, index) \in NewRows
  BY DEF Row, TxOK, States, NewRows
<1>3. QED
  BY <1>1, <1>2

(***************************************************************************)
(* The rows of a replay.                                                   *)
(***************************************************************************)
\* A row is the work of a block past the genesis block.
MadeBy(row, b) ==
    /\ b.index # 0
    /\ row.candidate_ref = TxOf(b).candidate_ref
    /\ row.last_tx_id = TxOf(b).tx_id
    /\ row.verified_at_block_index = b.index

RowsFrom(rows, s) ==
    /\ rows \in Seq(NewRows)
    /\ \A i \in 1..Len(rows) : \E k \in 1..Len(s) : MadeBy(rows[i], s[k])

LEMMA AppendedItem ==
    ASSUME NEW S, NEW s \in Seq(S), NEW x \in S
    PROVE  /\ Append(s, x) \in Seq(S)
           /\ \A i \in 1..Len(Append(s, x)) :
                 Append(s, x)[i] = x \/ (i \in 1..Len(s) /\ Append(s, x)[i] = s[i])
OBVIOUS

LEMMA ReplayedRow ==
    ASSUME NEW s, ChainOK(s), NEW rows, RowsFrom(rows, s), NEW k \in 1..Len(s),
           s[k].index # 0, TxOf(s[k]).tx_type # "CANDIDATE_VOID"
    PROVE  RowsFrom(ReplayBlock(rows, s[k]), s)
<1> DEFINE b == s[k]
           tx == TxOf(b)
           at == {i \in DOMAIN rows : rows[i].candidate_ref = tx.candidate_ref}
           old == IF at = {} THEN Blank ELSE rows[CHOOSE i \in at : TRUE]
           row == Row(tx, ApplyTxToState([f \in DOMAIN Blank |-> old[f]], tx), b.index)
           new == IF at = {} THEN Append(rows, row)
                             ELSE [i \in DOMAIN rows |-> IF i \in at THEN row ELSE rows[i]]
<1>1. ReplayBlock(rows, b) = new
  BY DEF ReplayBlock
<1>2. TxOK(tx) /\ b.index \in Nat
  BY DEF ChainOK
<1>3. [f \in DOMAIN Blank |-> old[f]] \in States
  <2>1. old.nama \in RowNames \cup {NULL} /\ old.deskripsi \in Descriptions \cup {NULL}
        /\ old.status \in {"ACTIVE", "INACTIVE"}
    <3>1. CASE at = {}
      BY <3>1, BlankState DEF States
    <3>2. CASE at # {}
      <4>1. (CHOOSE i \in at : TRUE) \in DOMAIN rows
        BY <3>2
      <4>2. old \in NewRows
        BY <3>2, <4>1 DEF RowsFrom
      <4>3. QED
        BY <4>2 DEF NewRows
    <3>3. QED
      BY <3>1, <3>2
  <2> HIDE DEF old
  <2>2. QED
    BY <2>1, StateOf
<1>4. row \in NewRows /\ MadeBy(row, b)
  <2> DEFINE st == ApplyTxToState([f \in DOMAIN Blank |-> old[f]], tx)
  <2>1. st \in States
    BY <1>2, <1>3, AppliedState
  <2> HIDE DEF st
  <2>2. row = Row(tx, st, b.index)
    BY DEF st
  <2>3. /\ Row(tx, st, b.index).candidate_ref = tx.candidate_ref
        /\ Row(tx, st, b.index).last_tx_id = tx.tx_id
        /\ Row(tx, st, b.index).verified_at_block_index = b.index
        /\ Row(tx, st, b.index) \in NewRows
    BY <1>2, <2>1, RowFields
  <2>4. QED
    BY <2>2, <2>3 DEF MadeBy
<1>5. rows \in Seq(NewRows) /\ DOMAIN rows = 1..Len(rows) /\ Len(rows) \in Nat
  BY DEF RowsFrom
<1> HIDE DEF row, b, tx
<1>6. /\ new \in Seq(NewRows)
      /\ \A i \in 1..Len(new) : new[i] = row \/ (i \in 1..Len(rows) /\ new[i] = rows[i])
  <2>1. CASE at = {}
    <3>1. new = Append(rows, row)
      BY <2>1
    <3> HIDE DEF new, at
    <3>2. row \in NewRows /\ rows \in Seq(NewRows)
      BY <1>4, <1>5
    <3>3. QED
      BY <3>1, <3>2, AppendedItem
  <2>2. CASE at # {}
    <3>1. new = [i \in 1..Len(rows) |-> IF i \in at THEN row ELSE rows[i]]
      BY <1>5, <2>2
    <3> HIDE DEF new, at
    <3>2. new \in [1..Len(rows) -> NewRows]
      BY <1>4, <1>5, <3>1
    <3>3. new \in Seq(NewRows) /\ Len(new) = Len(rows)
      BY <1>5, <3>2
    <3>4. QED
      BY <3>1, <3>3
  <2>3. QED
    BY <2>1, <2>2
<1> HIDE DEF new
<1>7. RowsFrom(new, s)
  BY <1>4, <1>6 DEF RowsFrom, b
<1>8. QED
  BY <1>1, <1>7 DEF b

LEMMA ReplayRows ==
    ASSUME NEW s, ChainOK(s)
    PROVE  RowsFrom(Replay(s), s)
<1>1. PICK f : /\ f[0] = <<>>
               /\ \A n \in 1..Len(s) : f[n] = AfterBlock(s, VoidedTxIds(s), f[n - 1], n)
               /\ Replay(s) = f[Len(s)]
  BY ReplayIsRun DEF ChainOK
<1> DEFINE S == {n \in Nat : n <= Len(s) => RowsFrom(f[n], s)}
<1>2. Len(s) \in Nat
  BY DEF ChainOK, IsSequence
<1>3. 0 \in S
  <2>1. <<>> \in Seq(NewRows) /\ 1..Len(<<>>) = {}
    BY ShortSequences
  <2>2. f[0] \in Seq(NewRows) /\ 1..Len(f[0]) = {}
    BY <1>1, <2>1
  <2>3. QED
    BY <2>2 DEF RowsFrom
<1>4. ASSUME NEW n \in S PROVE n + 1 \in S
  <2>1. SUFFICES ASSUME n + 1 <= Len(s) PROVE RowsFrom(f[n + 1], s)
    OBVIOUS
  <2>2. n + 1 \in 1..Len(s) /\ (n + 1) - 1 = n /\ n <= Len(s)
    BY <1>2, <2>1
  <2>3. f[n + 1] = AfterBlock(s, VoidedTxIds(s), f[n], n + 1) /\ RowsFrom(f[n], s)
    BY <1>1, <2>2
  <2>4. CASE Skipped(s[n + 1], VoidedTxIds(s))
    BY <2>3, <2>4 DEF AfterBlock
  <2>5. CASE ~Skipped(s[n + 1], VoidedTxIds(s))
    <3>1. f[n + 1] = ReplayBlock(f[n], s[n + 1])
      BY <2>3, <2>5 DEF AfterBlock
    <3>2. s[n + 1].index # 0 /\ TxOf(s[n + 1]).tx_type # "CANDIDATE_VOID"
      BY <2>5 DEF Skipped
    <3>3. QED
      BY <2>2, <2>3, <3>1, <3>2, ReplayedRow
  <2>6. QED
    BY <2>4, <2>5
<1>5. \A n \in Nat : n \in S
  <2> HIDE DEF S
  <2>1. S \in SUBSET Nat
    BY DEF S
  <2>2. QED
    BY <1>3, <1>4, <2>1, Induction
<1>6. QED
  BY <1>1, <1>2, <1>5

(***************************************************************************)
(* The steps, as far as the ledger is concerned.                           *)
(***************************************************************************)
\* The first d statements leave the queue; if a candidate handler's joins, it
\* is one of New and the last.
Slides(d, New) ==
    /\ IsSequence(queue') /\ d \in {0, 1}
    /\ \A i \in 1..Len(queue') :
          \/ i + d \in 1..Len(queue) /\ queue'[i] = queue[i + d]
          \/ i + d = Len(queue) + 1 /\ queue'[i] \in New
          \/ i + d > Len(queue) /\ queue'[i].stmt \notin CandidateSteps
    /\ \A k \in 1..Len(queue) : k > d => k - d \in 1..Len(queue') /\ queue'[k - d] = queue[k]
    /\ \A q \in New : /\ Len(queue) + 1 - d \in 1..Len(queue')
                      /\ queue'[Len(queue) + 1 - d] = q

LEMMA IssueSlides ==
    ASSUME IsSequence(queue), queue # <<>>, NEW qs, IsSequence(qs), Issue(qs),
           \A j \in 1..Len(qs) : qs[j].stmt \notin CandidateSteps
    PROVE  Slides(1, {})
<1>1. /\ IsSequence(queue')
      /\ \A i \in 1..Len(queue') :
            \/ \E k \in 1..Len(queue) : k # 1 /\ i = k - 1 /\ queue'[i] = queue[k]
            \/ \E j \in 1..Len(qs) : i = Len(queue) - 1 + j /\ queue'[i] = qs[j]
      /\ \A k \in 1..Len(queue) : k # 1 => k - 1 \in 1..Len(queue') /\ queue'[k - 1] = queue[k]
  BY Issued
<1>2. Len(queue) \in Nat /\ Len(qs) \in Nat
  BY DEF IsSequence
<1>3. ASSUME NEW i \in 1..Len(queue')
      PROVE  \/ i + 1 \in 1..Len(queue) /\ queue'[i] = queue[i + 1]
             \/ i + 1 > Len(queue) /\ queue'[i].stmt \notin CandidateSteps
  <2>1. CASE \E k \in 1..Len(queue) : k # 1 /\ i = k - 1 /\ queue'[i] = queue[k]
    <3>1. PICK k \in 1..Len(queue) : k # 1 /\ i = k - 1 /\ queue'[i] = queue[k]
      BY <2>1
    <3>2. i + 1 = k
      BY <3>1
    <3>3. QED
      BY <3>1, <3>2
  <2>2. CASE \E j \in 1..Len(qs) : i = Len(queue) - 1 + j /\ queue'[i] = qs[j]
    <3>1. PICK j \in 1..Len(qs) : i = Len(queue) - 1 + j /\ queue'[i] = qs[j]
      BY <2>2
    <3>2. i + 1 > Len(queue)
      BY <1>2, <3>1
    <3>3. QED
      BY <3>1, <3>2
  <2>3. QED
    BY <1>1, <2>1, <2>2
<1>4. \A k \in 1..Len(queue) : k > 1 => k # 1
  OBVIOUS
<1>5. QED
  BY <1>1, <1>3, <1>4 DEF Slides

LEMMA IssueOneSlides ==
    ASSUME IsSequence(queue), queue # <<>>, NEW q, Issue(<<q>>)
    PROVE  Slides(1, {q})
<1> DEFINE qs == <<q>>
<1>1. IsSequence(qs) /\ 1..Len(qs) = {1} /\ qs[1] = q
  BY ShortSequences
<1> HIDE DEF qs
<1>2. /\ IsSequence(queue')
      /\ \A i \in 1..Len(queue') :
            \/ \E k \in 1..Len(queue) : k # 1 /\ i = k - 1 /\ queue'[i] = queue[k]
            \/ \E j \in 1..Len(qs) : i = Len(queue) - 1 + j /\ queue'[i] = qs[j]
      /\ \A k \in 1..Len(queue) : k # 1 => k - 1 \in 1..Len(queue') /\ queue'[k - 1] = queue[k]
      /\ \A j \in 1..Len(qs) : Len(queue) - 1 + j \in 1..Len(queue')
                               /\ queue'[Len(queue) - 1 + j] = qs[j]
  <2>1. Issue(qs)
    BY DEF qs
  <2>2. QED
    BY <1>1, <2>1, Issued
<1>3. Len(queue) \in Nat
  BY DEF IsSequence
<1>4. Len(queue) - 1 + 1 = Len(queue) /\ Len(queue) + 1 - 1 = Len(queue)
  BY <1>3
<1>5. Len(queue) \in 1..Len(queue') /\ queue'[Len(queue)] = q
  BY <1>1, <1>2, <1>4
<1>6. ASSUME NEW i \in 1..Len(queue')
      PROVE  \/ i + 1 \in 1..Len(queue) /\ queue'[i] = queue[i + 1]
             \/ i + 1 = Len(queue) + 1 /\ queue'[i] = q
  <2>1. CASE \E k \in 1..Len(queue) : k # 1 /\ i = k - 1 /\ queue'[i] = queue[k]
    <3>1. PICK k \in 1..Len(queue) : k # 1 /\ i = k - 1 /\ queue'[i] = queue[k]
      BY <2>1
    <3>2. i + 1 = k
      BY <3>1
    <3>3. QED
      BY <3>1, <3>2
  <2>2. CASE \E j \in 1..Len(qs) : i = Len(queue) - 1 + j /\ queue'[i] = qs[j]
    BY <1>1, <1>4, <2>2
  <2>3. QED
    BY <1>2, <2>1, <2>2
<1>7. \A k \in 1..Len(queue) : k > 1 => k # 1
  OBVIOUS
<1>8. QED
  BY <1>2, <1>4, <1>5, <1>6, <1>7 DEF Slides

LEMMA JoinSlides ==
    ASSUME IsSequence(queue), NEW q, queue' = queue \o <<q>> \/ queue' = Append(queue, q)
    PROVE  /\ q.stmt \in CandidateSteps => Slides(0, {q})
           /\ q.stmt \notin CandidateSteps => Slides(0, {})
<1>1. Len(queue) \in Nat
  BY DEF IsSequence
<1>2. /\ IsSequence(queue')
      /\ \A i \in 1..Len(queue) : i \in 1..Len(queue') /\ queue'[i] = queue[i]
      /\ \A i \in 1..Len(queue') : \/ i \in 1..Len(queue) /\ queue'[i] = queue[i]
                                   \/ i = Len(queue) + 1 /\ queue'[i] = q
  BY Appended
<1>3. Len(queue) + 1 \in 1..Len(queue') /\ queue'[Len(queue) + 1] = q
  <2>1. PICK S : queue \in Seq(S)
    BY DEF IsSequence
  <2>2. queue \in Seq(S \cup {q}) /\ <<q>> \in Seq(S \cup {q}) /\ Len(<<q>>) = 1 /\ <<q>>[1] = q
    BY <2>1
  <2>3. CASE queue' = Append(queue, q)
    BY <2>2, <2>3
  <2>4. CASE queue' = queue \o <<q>>
    BY <2>2, <2>4
  <2>5. QED
    BY <2>3, <2>4
<1>4. /\ \A i \in 1..Len(queue') : i + 0 = i
      /\ \A i \in 1..Len(queue) : i - 0 = i
      /\ Len(queue) + 1 - 0 = Len(queue) + 1 /\ Len(queue) + 1 > Len(queue)
  BY <1>1
<1>5. QED
  BY <1>2, <1>3, <1>4 DEF Slides

\* Steps that leave the candidates alone.
Aside ==
    /\ UNCHANGED candidateVars /\ up' = up /\ Steady
    /\ faults' = faults \/ faults' = faults + 1
    /\ \E d : /\ Slides(d, {})
              /\ d = 1 => queue # <<>> /\ Head(queue).stmt \notin CandidateSteps

\* A candidate request comes with its first statement.
Comes(r, q) ==
    /\ up /\ UNCHANGED candidateVars /\ up' = up /\ Steady /\ faults' = faults
    /\ r \in Requests /\ q.req = r /\ req[r] = NULL /\ req'[r] # NULL
    /\ \A s \in Requests : s # r => req'[s] = req[s]
    /\ Slides(0, {q})
    /\ \/ /\ req'[r] \in Submissions /\ req'[r].tx_type \in SubmittedTypes
          /\ req'[r].op = "submitTransaction" /\ q.stmt = "SELECT lock"
       \/ req'[r].op = "resync" /\ q = Resync(r)
       \/ req'[r].op = "migrateLegacy" /\ q.stmt = "SELECT legacy"

\* What a callback issues next: a submission goes on past the lock,
ToExisting(r, q) ==
    /\ Head(queue).stmt = "SELECT lock" /\ Submitting(r)
    /\ req[r].tx_type # "CANDIDATE_CREATE" /\ req[r].candidate_ref # NULL
    /\ q.stmt = "SELECT existing"
    /\ candidateChain' = candidateChain

\* ... past the validation of its transaction,
ToLastTxId(r, q) ==
    /\ Head(queue).stmt = "SELECT existing"
    /\ RowsOf(req[r].candidate_ref) # {} /\ ~Incomplete(req[r], Head(queue).block)
    /\ q.stmt = "SELECT last_tx_id"
    /\ candidateChain' = candidateChain

\* ... and to its block, or the migration to that of its next row;
LegacyCreate(r, id) ==
    Transaction(r, id, [tx_type |-> "CANDIDATE_CREATE", nama |-> LegacyRow(id).nama,
                        deskripsi |-> NULL, void_tx_id |-> NULL], CandidateRef(r, id), NULL)

Adds(r, row, rows, tx) ==
    \/ /\ Head(queue).stmt = "SELECT lock" /\ Submitting(r)
       /\ req[r].tx_type = "CANDIDATE_CREATE" /\ req[r].nama # NULL /\ row = NULL
       /\ tx = Transaction(r, NULL, req[r], CandidateRef(r, NULL), NULL)
    \/ /\ Head(queue).stmt = "SELECT last_tx_id" /\ row = NULL
       /\ LET ref == req[r].candidate_ref
          IN  tx = Transaction(r, NULL, req[r], ref, LastTxId(ref))
    \/ /\ Head(queue).stmt = "SELECT lock" /\ Migrating(r)
       /\ rows = Head(queue).block /\ row = Head(rows)
       /\ tx = LegacyCreate(r, row)

ToBlock(r, q, row, rows, tx, b) ==
    /\ Adds(r, row, rows, tx)
    /\ b.index = Len(candidateChain) /\ b.timestamp = <<r, row>> /\ b.data = TxData(tx)
    /\ q.stmt = SavesTx /\ q.block.block = b /\ q.block.rows = rows
    /\ candidateChain' = Append(candidateChain, b)

\* the saved block is projected, by itself or by a replay,
ToProjection(r, q) ==
    /\ Head(queue).stmt = SavesTx /\ Submitting(r)
    /\ LET b == Head(queue).block.block
       IN  \/ TxOf(b).tx_type = "CANDIDATE_VOID" /\ q = Resync(r)
           \/ TxOf(b).tx_type # "CANDIDATE_VOID" /\ q.stmt = "SELECT row" /\ q.block = b
    /\ candidateChain' = candidateChain

ToUpsert(r, q) ==
    /\ Head(queue).stmt = "SELECT row"
    /\ q.stmt = "SELECT id"
    /\ LET b  == Head(queue).block
           tx == TxOf(b)
           at == RowsOf(tx.candidate_ref)
           s  == IF at = {} THEN Blank ELSE candidates[CHOOSE id \in at : TRUE]
           next == ApplyTxToState([f \in DOMAIN Blank |-> s[f]], tx)
       IN  q.block.rows = <<Row(tx, next, b.index)>> /\ q.block.index = b.index
    /\ candidateChain' = candidateChain

ToRow(r, q) ==
    /\ Head(queue).stmt = "SELECT id"
    /\ \/ q.stmt = "UPDATE candidates" /\ RowsOf(Head(Head(queue).block.rows).candidate_ref) # {}
       \/ q.stmt = "INSERT candidates" /\ RowsOf(Head(Head(queue).block.rows).candidate_ref) = {}
    /\ q.block = Head(queue).block
    /\ candidateChain' = candidateChain

ToOtherRows(r, q) ==
    /\ Head(queue).stmt \in {"UPDATE candidates", "INSERT candidates"}
    /\ q = Write(r, Tail(Head(queue).block.rows), Head(queue).block.index)
    /\ candidateChain' = candidateChain

\* and the migration ties a row to its block and goes on with those left.
ToAdoption(r, q) ==
    /\ Head(queue).stmt = SavesTx /\ Migrating(r)
    /\ q.stmt = "UPDATE legacy" /\ q.block = Head(queue).block
    /\ candidateChain' = candidateChain

ToOtherLegacy(r, q) ==
    /\ q.stmt = "SELECT lock" /\ q.block # <<>>
    /\ \/ Head(queue).stmt = "SELECT legacy" /\ q.block \in Orders(LegacyRows)
       \/ Head(queue).stmt = "SELECT lock" /\ Migrating(r) /\ q.block = Tail(Head(queue).block)
       \/ Head(queue).stmt = "UPDATE legacy" /\ q.block = Tail(Head(queue).block.rows)
    /\ candidateChain' = candidateChain

Issues(r, q) ==
    \/ ToExisting(r, q) \/ ToLastTxId(r, q)
    \/ \E row, rows, tx, b : ToBlock(r, q, row, rows, tx, b)
    \/ ToProjection(r, q) \/ ToUpsert(r, q) \/ ToRow(r, q) \/ ToOtherRows(r, q)
    \/ ToAdoption(r, q) \/ ToOtherLegacy(r, q)

\* A statement of a candidate handler fails, or is done and followed by another
\* or by none.
Founders(r) ==
    /\ UNCHANGED candidateVars /\ Slides(1, {})
    /\ \/ RejectedCandidates(Head(queue)) /\ faults' = faults
       \/ faults' = faults + 1

Succeeded ==
    ~RejectedCandidates(Head(queue)) /\ PerformCandidates(Head(queue)) /\ faults' = faults

Turned(r) ==
    /\ CandidateHead(r) /\ Steady
    /\ \/ Founders(r)
       \/ Succeeded /\ Slides(1, {}) /\ candidateChain' = candidateChain
       \/ Succeeded /\ \E q : q.req = r /\ Slides(1, {q}) /\ Issues(r, q) /\ reply' = reply

(***************************************************************************)
(* Every step is one of these.                                             *)
(***************************************************************************)
LEMMA SettingsStep ==
    ASSUME NEW r, SettingsAdmin(r) \/ RecordAudit(r)
    PROVE  \E qs : /\ IsSequence(qs) /\ Issue(qs)
                   /\ \A j \in 1..Len(qs) : qs[j].stmt \notin CandidateSteps
<1>1. CASE \E m : Answer(r, m)
  BY <1>1, ShortSequences DEF Answer
<1>2. ASSUME NEW stmt, NEW block, Issue(<<Query(r, stmt, block)>>), stmt \notin CandidateSteps
      PROVE  \E qs : /\ IsSequence(qs) /\ Issue(qs)
                     /\ \A j \in 1..Len(qs) : qs[j].stmt \notin CandidateSteps
  <2> DEFINE q == Query(r, stmt, block)
  <2>1. q.stmt = stmt
    BY DEF Query
  <2>2. IsSequence(<<q>>) /\ Issue(<<q>>) /\ \A j \in 1..Len(<<q>>) : <<q>>[j] = q
    BY <1>2, ShortSequences
  <2> HIDE DEF q
  <2>3. QED
    BY <1>2, <2>1, <2>2
<1>3. /\ "SET is_open" \notin CandidateSteps /\ "CLEAR is_open" \notin CandidateSteps
      /\ "INSERT audit_logs" \notin CandidateSteps
      /\ InsertBlockStmt(AuditLedger) \notin CandidateSteps
  BY PlainStatements DEF Recording, CandidateSteps, PastLock, SavesTx
<1>4. CASE StatusRead(r)
  BY <1>2, <1>3, <1>4 DEF StatusRead, Proceed
<1>5. CASE StatusUpdated(r)
  BY <1>2, <1>3, <1>5 DEF StatusUpdated, RecordAuditLog, AddBlock
<1>6. CASE AuditBlockSaved(r) \/ AuditBlockLost(r)
  BY <1>2, <1>3, <1>6 DEF AuditBlockSaved, AuditBlockLost, Proceed
<1>7. CASE StatusNotRead(r) \/ StatusNotUpdated(r) \/ AuditLogSaved(r) \/ AuditLogLost(r)
  BY <1>1, <1>7 DEF StatusNotRead, StatusNotUpdated, AuditLogSaved, AuditLogLost
<1>8. QED
  BY <1>4, <1>5, <1>6, <1>7 DEF SettingsAdmin, RecordAudit

LEMMA PlainIssues ==
    ASSUME NEW r, PlainStep(r)
    PROVE  \E qs : /\ IsSequence(qs) /\ Issue(qs)
                   /\ \A j \in 1..Len(qs) : qs[j].stmt \notin CandidateSteps
BY DEF PlainStep

LEMMA SettingsHead ==
    ASSUME NEW r, SettingsAdmin(r) \/ RecordAudit(r)
    PROVE  Head(queue).stmt \notin CandidateSteps
<1>1. CASE RecordAudit(r)
  <2>1. Head(queue).stmt \in Recording
    BY <1>1 DEF RecordAudit, AuditBlockSaved, AuditBlockLost, AuditLogSaved, AuditLogLost,
       Recording, Succeeds, Fails, Executes
  <2>2. QED
    BY <2>1, PlainStatements
<1>2. CASE SettingsAdmin(r)
  <2>1. Head(queue).stmt \in Toggling
    BY <1>2 DEF SettingsAdmin, StatusRead, StatusNotRead, StatusUpdated, StatusNotUpdated,
       Toggling, Succeeds, Fails, Executes
  <2>2. QED
    BY <2>1 DEF Toggling, CandidateSteps, PastLock, SavesTx
<1>3. QED
  BY <1>1, <1>2

LEMMA ServeReplies ==
    ASSUME NEW r, Serve(r)
    PROVE  \/ reply' = reply
           \/ \E m \in Replies : reply' = [reply EXCEPT ![r] = m]
<1>1. CASE CastVote(r) \/ UserAdmin(r)
  BY <1>1, VoteStep, UserStep DEF PlainStep
<1>2. CASE SettingsAdmin(r)
  <2>1. "Database error" \in Replies /\ "Gagal update status" \in Replies
    BY DEF Replies
  <2>2. QED
    BY <1>2, <2>1 DEF SettingsAdmin, StatusRead, StatusNotRead, StatusUpdated, StatusNotUpdated,
       Proceed, Answer, RecordAuditLog, AddBlock
<1>3. CASE RecordAudit(r)
  <2>1. "ok" \in Replies
    BY DEF Replies
  <2>2. QED
    BY <1>3, <2>1 DEF RecordAudit, AuditBlockSaved, AuditBlockLost, AuditLogSaved, AuditLogLost,
       Proceed, Answer
<1>4. QED
  BY <1>1, <1>2, <1>3 DEF Serve, Callback

LEMMA ServeAside ==
    ASSUME LockInv, NEW r \in Requests, Serve(r), UNCHANGED candidateVars
    PROVE  Aside
<1>1. queue # <<>> /\ Head(queue).req = r /\ req' = req /\ up' = up
  BY ServeTables
<1>2. Head(queue).stmt \notin CandidateSteps
  BY SettingsHead, VoteStep, UserStep DEF Serve, Callback, PlainStep
<1>3. \E qs : /\ IsSequence(qs) /\ Issue(qs)
              /\ \A j \in 1..Len(qs) : qs[j].stmt \notin CandidateSteps
  BY SettingsStep, VoteStep, UserStep, PlainIssues DEF Serve, Callback
<1>4. Slides(1, {})
  BY <1>1, <1>3, IssueSlides DEF LockInv, QueueRight
<1>5. faults' = faults \/ faults' = faults + 1
  <2>1. PICK stmt : Succeeds(r, stmt) \/ Fails(r, stmt)
    BY CallbackStatement DEF Serve
  <2>2. QED
    BY <2>1 DEF Succeeds, Fails
<1>6. Steady
  <2>1. r \in Toggles => reply[r] = NULL
    BY <1>1, HeadEntry DEF LockInv, EntryOK, Watched, IsToggle, Toggles
  <2>2. DOMAIN reply = Requests
    BY DEF LockInv, RequestsRight
  <2>3. \A m \in Replies : m # NULL
    BY NullAssumption
  <2>4. \A s \in Requests : reply'[s] = reply[s] \/ (s = r /\ reply'[s] # NULL)
    BY <2>2, <2>3, ServeReplies
  <2>5. QED
    BY <1>1, <2>1, <2>4 DEF Steady
<1>7. QED
  BY <1>1, <1>2, <1>4, <1>5, <1>6 DEF Aside

LEMMA ArrivesAside ==
    ASSUME LockInv, UNCHANGED candidateVars, NEW r \in Requests,
           NEW op \in Handlers, NEW u \in Users \cup {NULL}, NEW c \in CandidateIds,
           NEW key \in KeyPairs \cup {NULL}, NEW stmt, NEW block,
           Arrives(r, Input(op, u, c, key), <<Query(r, stmt, block)>>), stmt \notin CandidateSteps
    PROVE  Aside
<1>1. Input(op, u, c, key) \in Inputs
  BY DEF Input, Inputs, Answered
<1> DEFINE input == Input(op, u, c, key)
           q     == Query(r, stmt, block)
<1>2. input # NULL
  BY <1>1, NullAssumption, Zenon
<1>3. q.stmt = stmt
  BY DEF Query
<1>4. Arrives(r, input, <<q>>)
  OBVIOUS
<1> HIDE DEF input, q
<1>5. /\ faults' = faults /\ up' = up /\ queue' = queue \o <<q>> /\ reply' = reply
      /\ req[r] = NULL /\ req' = [req EXCEPT ![r] = input]
  BY <1>4 DEF Arrives, lifecycle
<1>6. Slides(0, {})
  BY <1>3, <1>5, JoinSlides DEF LockInv, QueueRight
<1>7. Steady
  BY <1>5 DEF Steady, LockInv, RequestsRight, RequestRight
<1>8. QED
  BY <1>5, <1>6, <1>7 DEF Aside

LEMMA ArriveAside ==
    ASSUME LockInv, NEW r \in Requests, Arrive(r), UNCHANGED candidateVars
    PROVE  Aside
<1>1. /\ {"castVote", "deleteUser", "resetUserVote", "resetAll", "toggleElectionStatus", "hack"}
            \subseteq Handlers
      /\ NULL \in CandidateIds
  BY DEF Handlers, CandidateIds
<1>2. /\ \A stmt \in {"SELECT settings", "DELETE users", "DELETE votes",
                      InsertBlockStmt(AuditLedger)} : stmt \notin CandidateSteps
      /\ "SELECT is_open" \notin CandidateSteps
  BY PlainStatements DEF Plain, Recording, CandidateSteps, PastLock, SavesTx
<1>3. CASE CastVoteArrives(r)
  <2>1. PICK u \in Users, c \in CandidateIds :
            \E key \in SessionKeys(u) :
                Arrives(r, Input("castVote", u, c, key), <<Query(r, "SELECT settings", NULL)>>)
    BY <1>3 DEF CastVoteArrives, CandidateIds
  <2>2. PICK key \in SessionKeys(u) :
            Arrives(r, Input("castVote", u, c, key), <<Query(r, "SELECT settings", NULL)>>)
    BY <2>1
  <2>3. key \in KeyPairs \cup {NULL}
    BY DEF SessionKeys, StoredKey, KeyPairs, LockInv, TablesRight
  <2>4. QED
    BY <1>1, <1>2, <2>2, <2>3, ArrivesAside
<1>4. CASE DeleteUserArrives(r)
  <2>1. PICK u \in Users : Arrives(r, Input("deleteUser", u, NULL, NULL),
                                   <<Query(r, "DELETE users", NULL)>>)
    BY <1>4 DEF DeleteUserArrives
  <2>2. QED
    BY <1>1, <1>2, <2>1, ArrivesAside
<1>5. CASE ResetUserVoteArrives(r)
  <2>1. PICK u \in Users : Arrives(r, Input("resetUserVote", u, NULL, NULL),
                                   <<Query(r, "DELETE votes", NULL)>>)
    BY <1>5 DEF ResetUserVoteArrives
  <2>2. QED
    BY <1>1, <1>2, <2>1, ArrivesAside
<1>6. CASE ResetAllArrives(r)
  <2>1. Arrives(r, Input("resetAll", NULL, NULL, NULL), <<Query(r, "DELETE votes", NULL)>>)
    BY <1>6 DEF ResetAllArrives
  <2>2. QED
    BY <1>1, <1>2, <2>1, ArrivesAside
<1>7. CASE ToggleArrives(r)
  <2>1. Arrives(r, Input("toggleElectionStatus", NULL, NULL, NULL),
                <<Query(r, "SELECT is_open", NULL)>>)
    BY <1>7 DEF ToggleArrives
  <2>2. QED
    BY <1>1, <1>2, <2>1, ArrivesAside
<1>8. CASE HackArrives(r)
  <2>1. Arrives(r, Input("hack", NULL, NULL, NULL),
                <<Query(r, InsertBlockStmt(AuditLedger), NextAuditBlock(r))>>)
    BY <1>8 DEF HackArrives
  <2>2. QED
    BY <1>1, <1>2, <2>1, ArrivesAside
<1>9. QED
  BY <1>3, <1>4, <1>5, <1>6, <1>7, <1>8 DEF Arrive

LEMMA CandidateArrivesSlides ==
    ASSUME LockInv, NEW r \in Requests, NEW input, NEW q, CandidateArrives(r, input, q),
           input # NULL, q.req = r, q.stmt \in CandidateSteps
    PROVE  /\ up /\ UNCHANGED candidateVars /\ up' = up /\ Steady /\ faults' = faults
           /\ req[r] = NULL /\ req'[r] = input
           /\ \A s \in Requests : s # r => req'[s] = req[s]
           /\ Slides(0, {q})
<1>1. /\ up /\ UNCHANGED candidateVars /\ up' = up /\ faults' = faults /\ req[r] = NULL
      /\ req' = [req EXCEPT ![r] = input] /\ reply' = reply /\ queue' = Append(queue, q)
  BY DEF CandidateArrives, lifecycle
<1>2. DOMAIN req = Requests
  BY DEF LockInv, RequestsRight
<1>3. req'[r] = input /\ \A s \in Requests : s # r => req'[s] = req[s]
  BY <1>1, <1>2
<1>4. Steady
  BY <1>1, <1>3 DEF Steady
<1>5. Slides(0, {q})
  BY <1>1, JoinSlides DEF LockInv, QueueRight
<1>6. QED
  BY <1>1, <1>3, <1>4, <1>5

LEMMA SubmissionOp ==
    ASSUME NEW input \in Submissions
    PROVE  input.op = "submitTransaction"
BY DEF Submissions, Submission

LEMMA CandidateComes ==
    ASSUME LockInv, NEW r \in Requests, CandidateArrive(r)
    PROVE  \E q : Comes(r, q)
<1>1. Answered \in SUBSET Requests
  BY DEF Answered
<1>2. CASE SubmitArrives(r)
  <2>1. PICK input \in Submissions : /\ CandidateArrives(r, input, Query(r, "SELECT lock", NULL))
                                     /\ input.tx_type \in SubmittedTypes
    BY <1>2 DEF SubmitArrives
  <2>2. input # NULL /\ input.op = "submitTransaction"
    BY SubmissionType, SubmissionOp, CandidateNullAssumption
  <2> DEFINE q == Query(r, "SELECT lock", NULL)
  <2>3. q.req = r /\ q.stmt = "SELECT lock" /\ CandidateArrives(r, input, q)
    BY <2>1 DEF Query
  <2> HIDE DEF q
  <2>4. q.stmt \in CandidateSteps
    BY <2>3, CandidateStatements
  <2>5. /\ up /\ UNCHANGED candidateVars /\ up' = up /\ Steady /\ faults' = faults
        /\ req[r] = NULL /\ req'[r] = input
        /\ \A s \in Requests : s # r => req'[s] = req[s]
        /\ Slides(0, {q})
    BY <2>2, <2>3, <2>4, CandidateArrivesSlides
  <2>6. Comes(r, q)
    BY <2>1, <2>2, <2>3, <2>5 DEF Comes
  <2>7. QED
    BY <2>6
<1>3. ASSUME NEW op \in {"resync", "migrateLegacy"}, NEW q, q.req = r, q.stmt \in CandidateSteps,
             CandidateArrives(r, [op |-> op, after |-> Answered], q),
             \/ op = "resync" /\ q = Resync(r)
             \/ op = "migrateLegacy" /\ q.stmt = "SELECT legacy"
      PROVE  Comes(r, q)
  <2> DEFINE input == [op |-> op, after |-> Answered]
  <2>1. input \in CandidateInputs /\ input.op = op
    BY <1>1 DEF CandidateInputs
  <2>2. input # NULL
    BY <2>1, CandidateNullAssumption
  <2> HIDE DEF input
  <2>3. CandidateArrives(r, input, q)
    BY <1>3 DEF input
  <2>4. /\ up /\ UNCHANGED candidateVars /\ up' = up /\ Steady /\ faults' = faults
        /\ req[r] = NULL /\ req'[r] = input
        /\ \A s \in Requests : s # r => req'[s] = req[s]
        /\ Slides(0, {q})
    BY <1>3, <2>2, <2>3, CandidateArrivesSlides
  <2>5. \/ req'[r].op = "resync" /\ q = Resync(r)
        \/ req'[r].op = "migrateLegacy" /\ q.stmt = "SELECT legacy"
    BY <1>3, <2>1, <2>4
  <2>6. q.req = r
    BY <1>3
  <2>7. req'[r] # NULL
    BY <2>2, <2>4
  <2>8. QED
    BY <2>4, <2>5, <2>6, <2>7 DEF Comes
<1>4. CASE ResyncArrives(r)
  <2> DEFINE q == Resync(r)
  <2>1. q.req = r /\ q.stmt \in {"SELECT id", "UPDATE sync_state"}
    BY WriteStatement DEF Resync
  <2>2. CandidateArrives(r, [op |-> "resync", after |-> Answered], q) /\ q = Resync(r)
    BY <1>4 DEF ResyncArrives
  <2> HIDE DEF q
  <2>3. QED
    BY <1>3, <2>1, <2>2, CandidateStatements
<1>5. CASE MigrateArrives(r)
  <2> DEFINE q == Query(r, "SELECT legacy", NULL)
  <2>1. q.req = r /\ q.stmt = "SELECT legacy"
    BY DEF Query
  <2>2. CandidateArrives(r, [op |-> "migrateLegacy", after |-> Answered], q)
    BY <1>5 DEF MigrateArrives
  <2> HIDE DEF q
  <2>3. QED
    BY <1>3, <2>1, <2>2, CandidateStatements
<1>6. QED
  BY <1>2, <1>4, <1>5 DEF CandidateArrive

LEMMA CandidateAnswers ==
    ASSUME LockInv, NEW r, CandidateHead(r), NEW m, Respond(r, m)
    PROVE  Slides(1, {}) /\ candidateChain' = candidateChain /\ Steady
<1>1. /\ Issue(<<>>) /\ candidateChain' = candidateChain
      /\ reply' = [reply EXCEPT ![r] = m] /\ req' = req
  BY DEF Respond, Answer, CandidateHead
<1>2. IsSequence(<<>>) /\ 1..Len(<<>>) = {}
  BY ShortSequences
<1>3. Slides(1, {})
  BY <1>1, <1>2, IssueSlides DEF LockInv, QueueRight, CandidateHead
<1>4. \A s \in Requests : reply[s] # NULL => reply'[s] = reply[s]
  BY <1>1, HeadCandidate DEF LockInv, RequestsRight
<1>5. Steady
  BY <1>1, <1>4 DEF Steady
<1>6. QED
  BY <1>1, <1>3, <1>5

LEMMA CandidateFails ==
    ASSUME LockInv, up, UNCHANGED lifecycle, NEW r \in Requests,
           NEW stmt \in CandidateSteps, Refused(r, stmt), NEW m, Respond(r, m)
    PROVE  Turned(r)
<1>1. CandidateHead(r)
  BY RunsHead
<1>2. /\ \/ RejectedCandidates(Head(queue)) /\ faults' = faults
         \/ faults' = faults + 1
      /\ UNCHANGED candidateTables
  BY DEF Refused
<1>3. QED
  BY <1>1, <1>2, CandidateAnswers DEF Turned, Founders, candidateVars

LEMMA CandidateRuns ==
    ASSUME up, UNCHANGED lifecycle, NEW r \in Requests, NEW stmt \in CandidateSteps, Runs(r, stmt)
    PROVE  CandidateHead(r) /\ Head(queue).stmt = stmt /\ Succeeded
<1>1. Succeeded
  BY DEF Runs, Succeeded
<1>2. QED
  BY <1>1, RunsHead

LEMMA CandidateIssues ==
    ASSUME LockInv, NEW r, CandidateHead(r), Succeeded, NEW q, q.req = r, Issue(<<q>>),
           Issues(r, q), reply' = reply
    PROVE  Turned(r)
<1>1. Slides(1, {q})
  BY IssueOneSlides DEF LockInv, QueueRight, CandidateHead
<1>2. Steady
  BY DEF Steady, CandidateHead
<1>3. QED
  BY <1>1, <1>2 DEF Turned

LEMMA CandidateContinues ==
    ASSUME NEW r, NEW stmt, NEW context, Continue(r, stmt, context), NEW q,
           q = Query(r, stmt, context)
    PROVE  /\ q.req = r /\ q.stmt = stmt /\ q.block = context /\ Issue(<<q>>)
           /\ reply' = reply /\ candidateChain' = candidateChain
<1>1. q.req = r /\ q.stmt = stmt /\ q.block = context
  BY DEF Query
<1>2. Issue(<<q>>) /\ reply' = reply /\ candidateChain' = candidateChain
  BY DEF Continue, Proceed
<1>3. QED
  BY <1>1, <1>2

LEMMA CandidateAdds ==
    ASSUME LockInv, NEW r, CandidateHead(r), Succeeded, NEW row, NEW rows, NEW tx,
           AddTransaction(r, row, rows, tx), Adds(r, row, rows, tx)
    PROVE  Turned(r)
<1> DEFINE b == NewBlock(candidateChain, <<r, row>>, TxData(tx), SystemKey)
           c == [block |-> b, rows |-> rows]
           q == Query(r, SavesTx, c)
<1>1. /\ candidateChain' = Append(candidateChain, b) /\ Issue(<<q>>) /\ reply' = reply
  BY DEF AddTransaction, SavesTx
<1>2. b.index = Len(candidateChain) /\ b.timestamp = <<r, row>> /\ b.data = TxData(tx)
  BY NewBlockFields
<1>3. q.req = r /\ q.stmt = SavesTx /\ q.block.block = b /\ q.block.rows = rows
  BY DEF Query
<1> HIDE DEF b, c, q
<1>4. ToBlock(r, q, row, rows, tx, b)
  BY <1>1, <1>2, <1>3 DEF ToBlock
<1>5. Issues(r, q)
  BY <1>4 DEF Issues
<1>6. QED
  BY <1>1, <1>3, <1>5, CandidateIssues

LEMMA SubmitTurned ==
    ASSUME LockInv, up, UNCHANGED lifecycle, NEW r \in Requests, Submit(r)
    PROVE  Turned(r)
<1>1. ASSUME NEW stmt \in {"SELECT lock", "SELECT existing", "SELECT last_tx_id",
                           "INSERT candidate_ledger_blocks"}, Runs(r, stmt)
      PROVE  CandidateHead(r) /\ Head(queue).stmt = stmt /\ Succeeded
  BY <1>1, CandidateStatements, CandidateRuns
<1>2. ASSUME CandidateHead(r), Succeeded, NEW m, Respond(r, m) PROVE Turned(r)
  BY <1>2, CandidateAnswers DEF Turned
<1>3. CASE RejectedByLock(r)
  BY <1>1, <1>2, <1>3 DEF RejectedByLock
<1>4. CASE CreateRead(r)
  <2> DEFINE tx == Transaction(r, NULL, req[r], CandidateRef(r, NULL), NULL)
  <2>1. /\ CandidateHead(r) /\ Succeeded /\ Head(queue).stmt = "SELECT lock" /\ Submitting(r)
        /\ req[r].tx_type = "CANDIDATE_CREATE"
    BY <1>1, <1>4 DEF CreateRead
  <2>2. CASE req[r].nama = NULL
    BY <1>2, <1>4, <2>1, <2>2 DEF CreateRead
  <2>3. CASE req[r].nama # NULL
    <3>1. AddTransaction(r, NULL, <<>>, tx)
      BY <1>4, <2>3 DEF CreateRead
    <3>2. Adds(r, NULL, <<>>, tx)
      BY <2>1, <2>3 DEF Adds
    <3> HIDE DEF tx
    <3>3. QED
      BY <2>1, <3>1, <3>2, CandidateAdds
  <2>4. QED
    BY <2>2, <2>3
<1>5. CASE OtherRead(r)
  <2>1. /\ CandidateHead(r) /\ Succeeded /\ Head(queue).stmt = "SELECT lock" /\ Submitting(r)
        /\ req[r].tx_type # "CANDIDATE_CREATE"
    BY <1>1, <1>5 DEF OtherRead
  <2>2. CASE req[r].candidate_ref = NULL
    BY <1>2, <1>5, <2>1, <2>2 DEF OtherRead
  <2>3. CASE req[r].candidate_ref # NULL
    <3>1. PICK stmt, context : stmt = "SELECT existing" /\ Continue(r, stmt, context)
      BY <1>5, <2>3 DEF OtherRead
    <3>2. Continue(r, stmt, context)
      BY <3>1
    <3> PICK q : q = Query(r, stmt, context)
      OBVIOUS
    <3>3. /\ q.req = r /\ q.stmt = stmt /\ Issue(<<q>>)
          /\ reply' = reply /\ candidateChain' = candidateChain
      BY <3>2, CandidateContinues
    <3>4. Issues(r, q)
      BY <2>1, <2>3, <3>1, <3>3 DEF Issues, ToExisting
    <3>5. QED
      BY <2>1, <3>3, <3>4, CandidateIssues
  <2>4. QED
    BY <2>2, <2>3
<1>6. CASE ExistingRead(r)
  <2> DEFINE bad == RowsOf(req[r].candidate_ref) = {} \/ Incomplete(req[r], Head(queue).block)
  <2>1. CandidateHead(r) /\ Succeeded /\ Head(queue).stmt = "SELECT existing"
    BY <1>1, <1>6 DEF ExistingRead
  <2>2. CASE bad
    BY <1>2, <1>6, <2>1, <2>2 DEF ExistingRead
  <2>3. CASE ~bad
    <3>1. PICK stmt, context : stmt = "SELECT last_tx_id" /\ Continue(r, stmt, context)
      BY <1>6, <2>3 DEF ExistingRead
    <3>2. Continue(r, stmt, context)
      BY <3>1
    <3> PICK q : q = Query(r, stmt, context)
      OBVIOUS
    <3>3. /\ q.req = r /\ q.stmt = stmt /\ Issue(<<q>>)
          /\ reply' = reply /\ candidateChain' = candidateChain
      BY <3>2, CandidateContinues
    <3>4. Issues(r, q)
      BY <2>1, <2>3, <3>1, <3>3 DEF Issues, ToLastTxId
    <3>5. QED
      BY <2>1, <3>3, <3>4, CandidateIssues
  <2>4. QED
    BY <2>2, <2>3
<1>7. CASE PrevTxRead(r)
  <2> DEFINE ref == req[r].candidate_ref
             tx  == Transaction(r, NULL, req[r], ref, LastTxId(ref))
  <2>1. /\ CandidateHead(r) /\ Succeeded /\ Head(queue).stmt = "SELECT last_tx_id"
        /\ AddTransaction(r, NULL, <<>>, tx)
    BY <1>1, <1>7 DEF PrevTxRead
  <2>2. Adds(r, NULL, <<>>, tx)
    BY <2>1 DEF Adds
  <2> HIDE DEF tx
  <2>3. QED
    BY <2>1, <2>2, CandidateAdds
<1>8. CASE TxBlockSaved(r)
  <2> DEFINE b == Head(queue).block.block
             q == SyncAfterTransaction(r, b)
  <2>1. /\ CandidateHead(r) /\ Succeeded /\ Head(queue).stmt = SavesTx /\ Submitting(r)
        /\ Issue(<<q>>) /\ reply' = reply /\ candidateChain' = candidateChain
    BY <1>1, <1>8 DEF TxBlockSaved, SavesTx
  <2>2. q.req = r
    BY DEF SyncAfterTransaction, Resync, Write, NoteProgress, Upsert, Query
  <2>3. \/ TxOf(b).tx_type = "CANDIDATE_VOID" /\ q = Resync(r)
        \/ TxOf(b).tx_type # "CANDIDATE_VOID" /\ q.stmt = "SELECT row" /\ q.block = b
    BY DEF SyncAfterTransaction, Query
  <2> HIDE DEF q
  <2>4. Issues(r, q)
    BY <2>1, <2>3 DEF Issues, ToProjection
  <2>5. QED
    BY <2>1, <2>2, <2>4, CandidateIssues
<1>9. CASE SubmitFails(r)
  <2>1. PICK stmt \in {"SELECT lock", "SELECT existing", "SELECT last_tx_id",
                       "INSERT candidate_ledger_blocks"} : Refused(r, stmt)
    BY <1>9 DEF SubmitFails
  <2>2. stmt \in CandidateSteps /\ \E m : Respond(r, m)
    BY <1>9, <2>1, CandidateStatements DEF SubmitFails
  <2>3. QED
    BY <2>1, <2>2, CandidateFails
<1>10. QED
  BY <1>3, <1>4, <1>5, <1>6, <1>7, <1>8, <1>9 DEF Submit

LEMMA ProjectTurned ==
    ASSUME LockInv, up, UNCHANGED lifecycle, NEW r \in Requests, Project(r)
    PROVE  Turned(r)
<1>1. ASSUME NEW stmt \in {"SELECT row", "SELECT id", "UPDATE candidates", "INSERT candidates",
                           "UPDATE sync_state"}, Runs(r, stmt)
      PROVE  CandidateHead(r) /\ Head(queue).stmt = stmt /\ Succeeded
  BY <1>1, CandidateStatements, CandidateRuns
<1>2. CASE RowRead(r)
  <2> DEFINE b  == Head(queue).block
             tx == TxOf(b)
             at == RowsOf(tx.candidate_ref)
             s  == IF at = {} THEN Blank ELSE candidates[CHOOSE id \in at : TRUE]
             next == ApplyTxToState([f \in DOMAIN Blank |-> s[f]], tx)
             rows == <<Row(tx, next, b.index)>>
             q == Upsert(r, rows, b.index)
  <2>1. /\ CandidateHead(r) /\ Succeeded /\ Head(queue).stmt = "SELECT row"
        /\ Issue(<<q>>) /\ reply' = reply /\ candidateChain' = candidateChain
    BY <1>1, <1>2 DEF RowRead
  <2>2. q.req = r /\ q.stmt = "SELECT id" /\ q.block.rows = rows /\ q.block.index = b.index
    BY DEF Upsert, Query
  <2> HIDE DEF q
  <2>3. Issues(r, q)
    BY <2>1, <2>2 DEF Issues, ToUpsert
  <2>4. QED
    BY <2>1, <2>2, <2>3, CandidateIssues
<1>3. CASE IdRead(r)
  <2> DEFINE exists == RowsOf(Head(Head(queue).block.rows).candidate_ref) # {}
  <2>1. /\ CandidateHead(r) /\ Succeeded /\ Head(queue).stmt = "SELECT id"
        /\ Continue(r, IF exists THEN "UPDATE candidates" ELSE "INSERT candidates",
                    Head(queue).block)
    BY <1>1, <1>3 DEF IdRead
  <2>2. PICK stmt, context :
            /\ stmt = (IF exists THEN "UPDATE candidates" ELSE "INSERT candidates")
            /\ context = Head(queue).block /\ Continue(r, stmt, context)
    BY <2>1
  <2>3. Continue(r, stmt, context)
    BY <2>2
  <2> PICK q : q = Query(r, stmt, context)
    OBVIOUS
  <2>4. /\ q.req = r /\ q.stmt = stmt /\ q.block = context /\ Issue(<<q>>)
        /\ reply' = reply /\ candidateChain' = candidateChain
    BY <2>3, CandidateContinues
  <2>5. Issues(r, q)
    BY <2>1, <2>2, <2>4 DEF Issues, ToRow
  <2>6. QED
    BY <2>1, <2>4, <2>5, CandidateIssues
<1>4. CASE RowWritten(r)
  <2> DEFINE q == Write(r, Tail(Head(queue).block.rows), Head(queue).block.index)
  <2>1. /\ CandidateHead(r) /\ Succeeded
        /\ Head(queue).stmt \in {"UPDATE candidates", "INSERT candidates"}
        /\ Issue(<<q>>) /\ reply' = reply /\ candidateChain' = candidateChain
    BY <1>1, <1>4 DEF RowWritten
  <2>2. q.req = r
    BY WriteStatement
  <2>3. ToOtherRows(r, q)
    BY <2>1 DEF ToOtherRows
  <2> HIDE DEF q
  <2>4. Issues(r, q)
    BY <2>3 DEF Issues
  <2>5. QED
    BY <2>1, <2>2, <2>4, CandidateIssues
<1>5. CASE ProgressNoted(r)
  BY <1>1, <1>5, CandidateAnswers DEF ProgressNoted, Turned
<1>6. CASE NotProjected(r)
  <2>1. PICK stmt \in {"SELECT row", "SELECT id", "UPDATE candidates", "INSERT candidates",
                       "UPDATE sync_state"} : Refused(r, stmt)
    BY <1>6 DEF NotProjected
  <2>2. stmt \in CandidateSteps /\ \E m : Respond(r, m)
    BY <1>6, <2>1, CandidateStatements DEF NotProjected
  <2>3. QED
    BY <2>1, <2>2, CandidateFails
<1>7. QED
  BY <1>2, <1>3, <1>4, <1>5, <1>6 DEF Project

LEMMA MigrateTurned ==
    ASSUME LockInv, up, UNCHANGED lifecycle, NEW r \in Requests, Migrate(r)
    PROVE  Turned(r)
<1>1. ASSUME NEW stmt \in {"SELECT legacy", "SELECT lock", "INSERT candidate_ledger_blocks",
                           "UPDATE legacy"}, Runs(r, stmt)
      PROVE  CandidateHead(r) /\ Head(queue).stmt = stmt /\ Succeeded
  BY <1>1, CandidateStatements, CandidateRuns
<1>2. ASSUME CandidateHead(r), Succeeded, NEW rows, MigrateRest(r, rows),
             \/ Head(queue).stmt = "SELECT legacy" /\ rows \in Orders(LegacyRows)
             \/ Head(queue).stmt = "SELECT lock" /\ Migrating(r) /\ rows = Tail(Head(queue).block)
             \/ Head(queue).stmt = "UPDATE legacy" /\ rows = Tail(Head(queue).block.rows)
      PROVE  Turned(r)
  <2>1. CASE rows = <<>>
    BY <1>2, <2>1, CandidateAnswers DEF MigrateRest, Turned
  <2>2. CASE rows # <<>>
    <3>1. PICK stmt : stmt = "SELECT lock" /\ Continue(r, stmt, rows)
      BY <1>2, <2>2 DEF MigrateRest
    <3>2. Continue(r, stmt, rows)
      BY <3>1
    <3> PICK q : q = Query(r, stmt, rows)
      OBVIOUS
    <3>3. /\ q.req = r /\ q.stmt = stmt /\ q.block = rows /\ Issue(<<q>>)
          /\ reply' = reply /\ candidateChain' = candidateChain
      BY <3>2, CandidateContinues
    <3>4. Issues(r, q)
      BY <1>2, <2>2, <3>1, <3>3 DEF Issues, ToOtherLegacy
    <3>5. QED
      BY <1>2, <3>3, <3>4, CandidateIssues
  <2>3. QED
    BY <2>1, <2>2
<1>3. CASE LegacyRead(r)
  <2>1. PICK rows \in Orders(LegacyRows) : MigrateRest(r, rows)
    BY <1>3 DEF LegacyRead
  <2>2. CandidateHead(r) /\ Succeeded /\ Head(queue).stmt = "SELECT legacy"
    BY <1>1, <1>3 DEF LegacyRead
  <2>3. QED
    BY <1>2, <2>1, <2>2
<1>4. CASE LegacyAdmitted(r)
  <2> DEFINE rows == Head(queue).block
             id   == Head(rows)
  <2>1. CandidateHead(r) /\ Succeeded /\ Head(queue).stmt = "SELECT lock" /\ Migrating(r)
    BY <1>1, <1>4 DEF LegacyAdmitted
  <2>2. CASE Forbidden("CANDIDATE_CREATE")
    <3>1. MigrateRest(r, Tail(rows))
      BY <1>4, <2>2 DEF LegacyAdmitted
    <3>2. QED
      BY <1>2, <2>1, <3>1
  <2>3. CASE ~Forbidden("CANDIDATE_CREATE")
    <3>1. AddTransaction(r, id, rows, LegacyCreate(r, id))
      BY <1>4, <2>3 DEF LegacyAdmitted, LegacyCreate
    <3>2. Adds(r, id, rows, LegacyCreate(r, id))
      BY <2>1 DEF Adds
    <3>3. QED
      BY <2>1, <3>1, <3>2, CandidateAdds
  <2>4. QED
    BY <2>2, <2>3
<1>5. CASE LegacyBlockSaved(r)
  <2>1. /\ CandidateHead(r) /\ Succeeded /\ Head(queue).stmt = SavesTx /\ Migrating(r)
        /\ Continue(r, "UPDATE legacy", Head(queue).block)
    BY <1>1, <1>5 DEF LegacyBlockSaved, SavesTx
  <2>2. PICK stmt, context : /\ stmt = "UPDATE legacy" /\ context = Head(queue).block
                             /\ Continue(r, stmt, context)
    BY <2>1
  <2>3. Continue(r, stmt, context)
    BY <2>2
  <2> PICK q : q = Query(r, stmt, context)
    OBVIOUS
  <2>4. /\ q.req = r /\ q.stmt = stmt /\ q.block = context /\ Issue(<<q>>)
        /\ reply' = reply /\ candidateChain' = candidateChain
    BY <2>3, CandidateContinues
  <2>5. Issues(r, q)
    BY <2>1, <2>2, <2>4 DEF Issues, ToAdoption
  <2>6. QED
    BY <2>1, <2>4, <2>5, CandidateIssues
<1>6. CASE LegacyAdopted(r)
  <2>1. /\ CandidateHead(r) /\ Succeeded /\ Head(queue).stmt = "UPDATE legacy"
        /\ MigrateRest(r, Tail(Head(queue).block.rows))
    BY <1>1, <1>6 DEF LegacyAdopted
  <2>2. QED
    BY <1>2, <2>1
<1>7. CASE MigrationFails(r)
  <2>1. PICK stmt \in {"SELECT legacy", "SELECT lock", "INSERT candidate_ledger_blocks",
                       "UPDATE legacy"} : Refused(r, stmt)
    BY <1>7 DEF MigrationFails
  <2>2. stmt \in CandidateSteps /\ \E m : Respond(r, m)
    BY <1>7, <2>1, CandidateStatements DEF MigrationFails
  <2>3. QED
    BY <2>1, <2>2, CandidateFails
<1>8. QED
  BY <1>3, <1>4, <1>5, <1>6, <1>7 DEF Migrate

\* The process ends, with the statement under way done or not.
Breaks ==
    /\ up /\ ~up' /\ Steady /\ faults' = faults
    /\ queue' = <<>> /\ candidateChain' = <<>>
    /\ \/ UNCHANGED candidateTables
       \/ /\ queue # <<>> /\ ~RejectedCandidates(Head(queue))
          /\ PerformCandidates(Head(queue))

Resumes ==
    /\ ~up /\ up' /\ Steady /\ faults' = faults
    /\ UNCHANGED <<queue, candidates, sync_state, candidate_blocks>>
    /\ candidateChain' \in LoadOrders(candidate_blocks)

LEMMA StepKinds ==
    ASSUME LockInv, [CandidateNext]_allVars
    PROVE  \/ Aside
           \/ \E r, q : Comes(r, q)
           \/ \E r : Turned(r)
           \/ Breaks
           \/ Resumes
<1>1. ASSUME NEW r \in Requests, Arrive(r) /\ UNCHANGED candidateVars PROVE Aside
  BY <1>1, ArriveAside
<1>2. ASSUME NEW r \in Requests, CandidateArrive(r) PROVE \E q : Comes(r, q)
  BY <1>2, CandidateComes
<1>3. ASSUME ProcessEnds PROVE Steady /\ faults' = faults /\ queue' = <<>> /\ ~up'
  <2>1. "connection lost" # NULL
    BY NullAssumption DEF Replies
  <2>2. \A r \in Requests :
            reply'[r] = IF req[r] # NULL /\ reply[r] = NULL THEN "connection lost" ELSE reply[r]
    BY <1>3 DEF ProcessEnds
  <2>3. req' = req /\ faults' = faults /\ queue' = <<>> /\ ~up'
    BY <1>3 DEF ProcessEnds
  <2>4. QED
    BY <2>1, <2>2, <2>3 DEF Steady
<1>4. ASSUME NEW r \in Requests, ServeAny(r) PROVE Aside \/ Turned(r) \/ Breaks
  <2>1. CASE Serve(r) /\ UNCHANGED candidateVars
    BY <2>1, ServeAside
  <2>2. CASE CandidateServe(r)
    BY <2>2, SubmitTurned, ProjectTurned, MigrateTurned DEF CandidateServe
  <2>3. CASE FatalError(r) /\ candidateChain' = <<>> /\ UNCHANGED candidateTables
    BY <1>3, <2>3 DEF Breaks, FatalError
  <2>4. QED
    BY <1>4, <2>1, <2>2, <2>3 DEF ServeAny
<1>5. CASE CrashAny
  <2>1. CASE Crash /\ UNCHANGED candidateTables
    BY <1>3, <1>5, <2>1 DEF Breaks, Crash, CrashAny
  <2>2. CASE CandidateCrash
    BY <1>3, <1>5, <2>2 DEF Breaks, CandidateCrash, CrashAny
  <2>3. QED
    BY <1>5, <2>1, <2>2 DEF CrashAny
<1>6. CASE RestartAny
  <2>1. candidate_blocks # <<>>
    BY DEF LockInv, LedgersRight
  <2>2. /\ ~up /\ up' /\ UNCHANGED <<queue, req, reply, faults>>
    BY <1>6 DEF RestartAny, Restart
  <2>3. /\ UNCHANGED <<candidates, sync_state, candidate_blocks>>
        /\ candidateChain' \in LoadOrders(candidate_blocks)
    BY <1>6, <2>1 DEF RestartAny, CandidateBlocksAfterBoot
  <2>4. QED
    BY <2>2, <2>3 DEF Resumes, Steady
<1>7. CASE UNCHANGED allVars
  <2>1. UNCHANGED <<queue, req, reply, up, faults>> /\ UNCHANGED candidateVars
    BY <1>7 DEF allVars, vars, shared, memory, lifecycle
  <2>2. IsSequence(queue)
    BY DEF LockInv, QueueRight
  <2>3. Len(queue) \in Nat
    BY <2>2 DEF IsSequence
  <2>4. Slides(0, {})
    BY <2>1, <2>2, <2>3 DEF Slides
  <2>5. QED
    BY <2>1, <2>4 DEF Aside, Steady
<1>8. QED
  BY <1>1, <1>2, <1>4, <1>5, <1>6, <1>7 DEF CandidateNext

(***************************************************************************)
(* Types: what the handlers hold between two statements.                   *)
(***************************************************************************)
\* What a submission that has arrived was sent.
SubmissionOK(input) ==
    /\ input.tx_type \in SubmittedTypes /\ input.tx_type \in TX_TYPES
    /\ input.candidate_ref \in Refs \cup {NULL} /\ input.nama \in Names \cup {NULL}
    /\ input.deskripsi \in Descriptions \cup {NULL} /\ input.void_tx_id \in TxIds \cup {NULL}

\* Rows that a migration has left.
LegacyList(rows) == rows \in Seq(Candidates) /\ rows # <<>>

Writing == {"SELECT id", "UPDATE candidates", "INSERT candidates"}

Typed(q) ==
    /\ q.stmt \in CandidateSteps /\ req[q.req].op = "submitTransaction" =>
          SubmissionOK(req[q.req])
    /\ q.stmt \in PastLock =>
          /\ req[q.req].op = "submitTransaction" /\ req[q.req].tx_type # "CANDIDATE_CREATE"
          /\ req[q.req].candidate_ref # NULL
    /\ q.stmt = "SELECT last_tx_id" /\ req[q.req].tx_type = "CANDIDATE_UPDATE" =>
          req[q.req].nama # NULL
    /\ q.stmt = "SELECT lock" /\ req[q.req].op # "submitTransaction" => LegacyList(q.block)
    /\ q.stmt = SavesTx =>
          /\ TxOK(TxOf(q.block.block))
          /\ req[q.req].op # "submitTransaction" => LegacyList(q.block.rows)
    /\ q.stmt = "SELECT row" =>
          /\ TxOK(TxOf(q.block)) /\ TxOf(q.block).tx_type # "CANDIDATE_VOID"
          /\ q.block.index \in Nat
    /\ q.stmt \in Writing =>
          /\ q.block.rows \in Seq(NewRows) /\ q.block.rows # <<>>
          /\ q.block.index \in Nat \cup {NULL}
    /\ q.stmt = "UPDATE legacy" =>
          /\ TxOK(TxOf(q.block.block)) /\ q.block.block.index \in Nat
          /\ LegacyList(q.block.rows)
    /\ q.stmt = "UPDATE sync_state" => q.block \in Nat

TableOK ==
    /\ candidates \in [DOMAIN candidates -> Rows]
    /\ DOMAIN candidates \subseteq Candidates \cup Refs
    /\ \A id \in DOMAIN candidates : candidates[id].candidate_ref = NULL => id \in Candidates
    /\ sync_state \in Nat \cup {-1}

TypesInv ==
    /\ \A i \in 1..Len(queue) : Typed(queue[i])
    /\ TableOK /\ ChainOK(candidateChain) /\ ChainOK(candidate_blocks)

LEMMA OtherTyped ==
    ASSUME NEW q, q.stmt \notin CandidateSteps
    PROVE  Typed(q)'
BY DEF Typed, CandidateSteps, PastLock, SavesTx, Writing

LEMMA TypedStays ==
    ASSUME Steady, NEW q, q.req \in Requests, req[q.req] # NULL, Typed(q)
    PROVE  Typed(q)'
<1>1. req'[q.req] = req[q.req]
  BY DEF Steady
<1>2. QED
  BY <1>1 DEF Typed

LEMMA SlidesTyped ==
    ASSUME LockInv, TypesInv, Steady, NEW d, NEW New, Slides(d, New), \A q \in New : Typed(q)'
    PROVE  (\A i \in 1..Len(queue) : Typed(queue[i]))'
<1> SUFFICES ASSUME NEW i \in 1..Len(queue') PROVE Typed(queue[i])'
  OBVIOUS
<1> PICK q : q = queue'[i]
  OBVIOUS
<1>1. CASE \E k \in 1..Len(queue) : q = queue[k]
  <2>1. PICK k \in 1..Len(queue) : q = queue[k]
    BY <1>1
  <2>2. q.req \in Requests /\ req[q.req] # NULL /\ Typed(q)
    BY <2>1 DEF LockInv, QueueRight, EntryOK, TypesInv
  <2>3. Typed(q)'
    BY <2>2, TypedStays
  <2>4. QED
    BY <2>3 DEF Typed
<1>2. CASE q.stmt \notin CandidateSteps
  <2>1. Typed(q)'
    BY <1>2, OtherTyped
  <2>2. QED
    BY <2>1 DEF Typed
<1>3. CASE q \in New
  <2>1. Typed(q)'
    BY <1>3
  <2>2. QED
    BY <2>1 DEF Typed
<1>4. QED
  BY <1>1, <1>2, <1>3 DEF Slides

LEMMA SameTable ==
    ASSUME TableOK, UNCHANGED <<candidates, sync_state>>
    PROVE  TableOK'
BY DEF TableOK

LEMMA ChainGrows ==
    ASSUME NEW s, ChainOK(s), NEW b, b.index # 0 => TxOK(TxOf(b)) /\ b.index \in Nat
    PROVE  ChainOK(Append(s, b))
<1>1. PICK S : s \in Seq(S)
  BY DEF ChainOK, IsSequence
<1>2. s \in Seq(S \cup {b})
  BY <1>1
<1>3. /\ Append(s, b) \in Seq(S \cup {b})
      /\ \A i \in 1..Len(Append(s, b)) :
            Append(s, b)[i] = b \/ (i \in 1..Len(s) /\ Append(s, b)[i] = s[i])
  BY <1>2, AppendedItem
<1>4. QED
  BY <1>3 DEF ChainOK, IsSequence

\* The statement at the head and what it does.
LEMMA HeadTyped ==
    ASSUME LockInv, TypesInv, queue # <<>>
    PROVE  /\ Typed(Head(queue)) /\ EntryOK(1) /\ Carried(Head(queue)) /\ Head(queue) = queue[1]
           /\ 1 \in 1..Len(queue)
BY HeadEntry DEF LockInv, TypesInv

LEMMA ListHead ==
    ASSUME NEW S, NEW rows \in Seq(S), rows # <<>>
    PROVE  /\ Head(rows) \in S /\ Tail(rows) \in Seq(S) /\ 1 \in 1..Len(rows)
           /\ Head(rows) = rows[1]
           /\ \A i \in 1..Len(Tail(rows)) : i + 1 \in 1..Len(rows) /\ Tail(rows)[i] = rows[i + 1]
OBVIOUS

LEMMA NamedRow ==
    ASSUME NEW row \in NewRows, row.nama # NULL
    PROVE  row \in Rows
BY DEF NewRows, Rows

LEMMA PerformTyped ==
    ASSUME LockInv, TypesInv, queue # <<>>, ~RejectedCandidates(Head(queue)),
           PerformCandidates(Head(queue))
    PROVE  TableOK' /\ ChainOK(candidate_blocks')
<1> DEFINE q == Head(queue)
<1>1. Typed(q) /\ Carried(q)
  BY HeadTyped
<1>2. NULL \notin Refs
  BY CandidateNullAssumption
<1>3. CASE ReadCandidates(q)
  BY <1>3, SameTable DEF ReadCandidates, candidateTables, TypesInv
<1>4. CASE SaveTxBlock(q)
  <2>1. TxOK(TxOf(q.block.block)) /\ q.block.block.index \in Nat
    BY <1>1, <1>4 DEF SaveTxBlock, Typed, Carried, SavesTx
  <2>2. ChainOK(Append(candidate_blocks, q.block.block))
    BY <2>1, ChainGrows DEF TypesInv
  <2>3. QED
    BY <1>4, <2>2, SameTable DEF SaveTxBlock, TypesInv
<1>5. CASE InsertCandidate(q)
  <2> DEFINE row == Head(q.block.rows)
             ref == row.candidate_ref
  <2>1. row \in NewRows /\ row.nama # NULL
    BY <1>1, <1>5, ListHead DEF InsertCandidate, Typed, Writing, RejectedCandidates
  <2>2. row \in Rows /\ ref \in Refs
    BY <2>1, NamedRow DEF NewRows
  <2>3. candidates' = [id \in DOMAIN candidates \cup {ref} |->
                           IF id = ref THEN row ELSE candidates[id]]
        /\ sync_state' = sync_state /\ candidate_blocks' = candidate_blocks
    BY <1>5 DEF InsertCandidate
  <2> HIDE DEF row, q
  <2>4. candidates' \in [DOMAIN candidates' -> Rows]
    BY <2>2, <2>3 DEF TypesInv, TableOK
  <2>5. DOMAIN candidates' \subseteq Candidates \cup Refs
    BY <2>2, <2>3 DEF TypesInv, TableOK
  <2>6. \A id \in DOMAIN candidates' : candidates'[id].candidate_ref = NULL => id \in Candidates
    BY <1>2, <2>2, <2>3 DEF TypesInv, TableOK
  <2>7. QED
    BY <2>3, <2>4, <2>5, <2>6 DEF TypesInv, TableOK
<1>6. CASE UpdateCandidate(q)
  <2> DEFINE row == Head(q.block.rows)
             at  == RowsOf(row.candidate_ref)
  <2>1. row \in NewRows /\ (at # {} => row.nama # NULL)
    BY <1>1, <1>6, ListHead DEF UpdateCandidate, Typed, Writing, RejectedCandidates
  <2>2. (at # {} => row \in Rows) /\ row.candidate_ref \in Refs
    BY <2>1, NamedRow DEF NewRows
  <2>3. candidates' = [id \in DOMAIN candidates |-> IF id \in at THEN row ELSE candidates[id]]
        /\ sync_state' = sync_state /\ candidate_blocks' = candidate_blocks
    BY <1>6 DEF UpdateCandidate
  <2> HIDE DEF row, at, q
  <2>4. candidates' \in [DOMAIN candidates' -> Rows]
    BY <2>2, <2>3 DEF TypesInv, TableOK
  <2>5. DOMAIN candidates' = DOMAIN candidates
    BY <2>3
  <2>6. \A id \in DOMAIN candidates' : candidates'[id].candidate_ref = NULL => id \in Candidates
    BY <1>2, <2>2, <2>3 DEF TypesInv, TableOK
  <2>7. QED
    BY <2>3, <2>4, <2>5, <2>6 DEF TypesInv, TableOK
<1>7. CASE AdoptLegacy(q)
  <2> DEFINE tx == TxOf(q.block.block)
             id == Head(q.block.rows)
             index == q.block.block.index
             row == [candidates[id] EXCEPT !.candidate_ref = tx.candidate_ref, !.status = "ACTIVE",
                                           !.last_tx_id = tx.tx_id,
                                           !.verified_at_block_index = index]
  <2>1. TxOK(tx) /\ index \in Nat
    BY <1>1, <1>7 DEF AdoptLegacy, Typed
  <2>2. candidates' = [candidates EXCEPT ![id] = row]
        /\ sync_state' = sync_state /\ candidate_blocks' = candidate_blocks
    BY <1>7 DEF AdoptLegacy
  <2> HIDE DEF id, tx, q, index
  <2>3. id \in DOMAIN candidates => row \in Rows /\ row.candidate_ref \in Refs
    <3> SUFFICES ASSUME id \in DOMAIN candidates PROVE row \in Rows /\ row.candidate_ref \in Refs
      OBVIOUS
    <3>1. candidates[id] \in Rows
      BY DEF TypesInv, TableOK
    <3>2. tx.candidate_ref \in Refs /\ tx.tx_id \in TxIds
      BY <2>1 DEF TxOK
    <3>3. Candidates \subseteq RowNames
      BY DEF RowNames
    <3>4. QED
      BY <2>1, <3>1, <3>2, <3>3 DEF Rows
  <2> HIDE DEF row
  <2>4. candidates' \in [DOMAIN candidates' -> Rows]
    BY <2>2, <2>3 DEF TypesInv, TableOK
  <2>5. DOMAIN candidates' = DOMAIN candidates
    BY <2>2
  <2>6. \A i \in DOMAIN candidates' : candidates'[i].candidate_ref = NULL => i \in Candidates
    BY <1>2, <2>2, <2>3 DEF TypesInv, TableOK
  <2>7. QED
    BY <2>2, <2>4, <2>5, <2>6 DEF TypesInv, TableOK
<1>8. CASE UpdateSyncState(q)
  <2>1. sync_state' \in Nat /\ UNCHANGED <<candidates, candidate_blocks>>
    BY <1>1, <1>8 DEF UpdateSyncState, Typed
  <2>2. QED
    BY <2>1 DEF TypesInv, TableOK
<1>9. QED
  BY <1>3, <1>4, <1>5, <1>6, <1>7, <1>8 DEF PerformCandidates

\* What a callback finds: its own statement and request.
LEMMA HeadHeld ==
    ASSUME LockInv, TypesInv, NEW r, CandidateHead(r)
    PROVE  /\ Typed(Head(queue)) /\ Carried(Head(queue)) /\ Head(queue).req = r
           /\ Head(queue).stmt \in CandidateSteps
           /\ req[r].op = "submitTransaction" => SubmissionOK(req[r])
           /\ req' = req /\ r \in Requests /\ candidateChain # <<>>
<1>1. Typed(Head(queue)) /\ Carried(Head(queue))
  BY HeadTyped DEF CandidateHead
<1>2. QED
  BY <1>1, HeadCandidate DEF CandidateHead, Typed

LEMMA LatestIndex ==
    ASSUME LockInv, TypesInv, candidateChain # <<>>
    PROVE  LatestBlockIndex \in Nat
<1>1. PICK S : candidateChain \in Seq(S)
  BY DEF LockInv, LedgersRight, LedgerOK, IsSequence
<1>2. Len(candidateChain) \in 1..Len(candidateChain)
  BY <1>1
<1>3. candidateChain[Len(candidateChain)].index \in Nat
  BY <1>2 DEF LockInv, LedgersRight, LedgerOK
<1>4. QED
  BY <1>3 DEF LatestBlockIndex, GetLatestBlock

LEMMA WriteTyped ==
    ASSUME LockInv, TypesInv, candidateChain # <<>>,
           NEW r, NEW rows \in Seq(NewRows), NEW index \in Nat \cup {NULL},
           req[r].op = "submitTransaction" => SubmissionOK(req[r])
    PROVE  Typed(Write(r, rows, index))
<1> DEFINE n == IF index = NULL THEN LatestBlockIndex ELSE index
<1>1. n \in Nat
  BY LatestIndex
<1>2. CASE rows = <<>>
  <2> DEFINE q == Write(r, rows, index)
  <2>1. q.req = r /\ q.stmt = "UPDATE sync_state" /\ q.block = n
    BY <1>2 DEF Write, NoteProgress, Query
  <2> HIDE DEF q, n
  <2>2. Typed(q)
    BY <1>1, <2>1 DEF Typed, Writing, PastLock, SavesTx
  <2>3. QED
    BY <2>2 DEF q
<1>3. CASE rows # <<>>
  <2> DEFINE q == Write(r, rows, index)
  <2>1. q.req = r /\ q.stmt = "SELECT id" /\ q.block.rows = rows /\ q.block.index = index
    BY <1>3 DEF Write, Upsert, Query
  <2> HIDE DEF q
  <2>2. Typed(q)
    BY <1>3, <2>1 DEF Typed, Writing, PastLock, SavesTx
  <2>3. QED
    BY <2>2 DEF q
<1>4. QED
  BY <1>2, <1>3

LEMMA ResyncTyped ==
    ASSUME LockInv, TypesInv, candidateChain # <<>>, NEW r,
           req[r].op = "submitTransaction" => SubmissionOK(req[r])
    PROVE  Typed(Resync(r))
<1>1. Replay(candidateChain) \in Seq(NewRows)
  BY ReplayRows DEF RowsFrom, TypesInv
<1>2. QED
  BY <1>1, WriteTyped DEF Resync

LEMMA TransactionFields ==
    ASSUME NEW r, NEW row, NEW input, NEW ref, NEW prev
    PROVE  LET tx == Transaction(r, row, input, ref, prev)
           IN  /\ tx.tx_id = TxId(r, row) /\ tx.candidate_ref = ref
               /\ tx.tx_type = input.tx_type /\ tx.nama = input.nama
               /\ tx.deskripsi = input.deskripsi /\ tx.void_tx_id = input.void_tx_id
               /\ tx.prev_tx_ref = prev
BY DEF Transaction

LEMMA TxOfData ==
    ASSUME NEW b, NEW tx, b.data = TxData(tx)
    PROVE  TxOf(b) = tx
BY DEF TxOf, TxData

LEMMA TransactionOK ==
    ASSUME NEW r \in Requests, NEW row \in Candidates \cup {NULL}, NEW input, NEW ref \in Refs,
           NEW prev \in TxIds \cup {NULL},
           input.tx_type \in SubmittedTypes \cup {"CANDIDATE_CREATE"}, input.tx_type \in TX_TYPES,
           input.nama \in RowNames \cup {NULL}, input.deskripsi \in Descriptions \cup {NULL},
           input.void_tx_id \in TxIds \cup {NULL},
           input.tx_type \in {"CANDIDATE_CREATE", "CANDIDATE_UPDATE"} => input.nama # NULL
    PROVE  TxOK(Transaction(r, row, input, ref, prev))
<1> DEFINE tx == Transaction(r, row, input, ref, prev)
<1>1. /\ tx.tx_id = TxId(r, row) /\ tx.candidate_ref = ref
      /\ tx.tx_type = input.tx_type /\ tx.nama = input.nama
      /\ tx.deskripsi = input.deskripsi /\ tx.void_tx_id = input.void_tx_id
      /\ tx.prev_tx_ref = prev
  BY TransactionFields
<1>2. TxId(r, row) \in TxIds
  BY Ids
<1> HIDE DEF tx
<1>3. TxOK(tx)
  BY <1>1, <1>2 DEF TxOK
<1>4. QED
  BY <1>3 DEF tx

LEMMA LastTxIdType ==
    ASSUME TypesInv, NEW ref \in Refs
    PROVE  LastTxId(ref) \in TxIds \cup {NULL}
<1>1. CASE RowsOf(ref) = {}
  BY <1>1 DEF LastTxId
<1>2. CASE RowsOf(ref) # {}
  <2> DEFINE id == CHOOSE id \in RowsOf(ref) : TRUE
  <2>1. id \in RowsOf(ref) /\ LastTxId(ref) = candidates[id].last_tx_id
    BY <1>2 DEF LastTxId
  <2> HIDE DEF id
  <2>2. candidates[id] \in Rows /\ candidates[id].candidate_ref = ref
    BY <2>1 DEF RowsOf, TypesInv, TableOK
  <2>3. candidates[id].last_tx_id \in TxIds \cup {NULL}
    BY <2>2 DEF Rows
  <2>4. QED
    BY <2>1, <2>3
<1>3. QED
  BY <1>1, <1>2

LEMMA ReadRow ==
    ASSUME TypesInv, NEW ref \in Refs, NEW s,
           s = IF RowsOf(ref) = {} THEN Blank ELSE candidates[CHOOSE id \in RowsOf(ref) : TRUE]
    PROVE  [f \in DOMAIN Blank |-> s[f]] \in States
<1>1. s.nama \in RowNames \cup {NULL} /\ s.deskripsi \in Descriptions \cup {NULL}
      /\ s.status \in {"ACTIVE", "INACTIVE"}
  <2>1. CASE RowsOf(ref) = {}
    BY <2>1, BlankState DEF States
  <2>2. CASE RowsOf(ref) # {}
    <3> DEFINE id == CHOOSE id \in RowsOf(ref) : TRUE
    <3>1. id \in RowsOf(ref) /\ s = candidates[id]
      BY <2>2
    <3> HIDE DEF id
    <3>2. s \in Rows
      BY <3>1 DEF RowsOf, TypesInv, TableOK
    <3>3. Candidates \subseteq RowNames
      BY DEF RowNames
    <3>4. QED
      BY <3>2, <3>3 DEF Rows
  <2>3. QED
    BY <2>1, <2>2
<1>2. QED
  BY <1>1, StateOf

\* The SELECT of the migration: any order of the rows, each once.
LEMMA LegacyOrder ==
    ASSUME TypesInv, NEW rows \in Orders(LegacyRows)
    PROVE  /\ rows \in Seq(Candidates)
           /\ \A i \in 1..Len(rows) : rows[i] \in LegacyRows
           /\ \A i, j \in 1..Len(rows) : rows[i] = rows[j] => i = j
<1>1. LegacyRows \subseteq Candidates
  BY DEF LegacyRows, RowsOf, TypesInv, TableOK
<1>2. IsFiniteSet(LegacyRows) /\ Cardinality(LegacyRows) \in Nat
  BY <1>1, CandidateNullAssumption, FS_Subset, FS_CardinalityType
<1> DEFINE n == Cardinality(LegacyRows)
<1>3. rows \in [1..n -> LegacyRows] /\ \A i, j \in 1..n : rows[i] = rows[j] => i = j
  BY DEF Orders
<1> HIDE DEF n
<1>4. rows \in Seq(LegacyRows) /\ Len(rows) = n
  BY <1>2, <1>3 DEF n
<1>5. QED
  BY <1>1, <1>3, <1>4

LEMMA AddsTyped ==
    ASSUME LockInv, TypesInv, NEW r, CandidateHead(r), NEW row, NEW rows, NEW tx,
           Adds(r, row, rows, tx)
    PROVE  /\ TxOK(tx)
           /\ req[r].op # "submitTransaction" => LegacyList(rows)
<1> DEFINE h == Head(queue)
<1>1. /\ Typed(h) /\ h.req = r /\ h.stmt \in CandidateSteps /\ r \in Requests
      /\ req[r].op = "submitTransaction" => SubmissionOK(req[r])
  BY HeadHeld
<1>2. Names \subseteq RowNames /\ Candidates \subseteq RowNames
  BY DEF RowNames
<1>3. CASE /\ h.stmt = "SELECT lock" /\ Submitting(r)
           /\ req[r].tx_type = "CANDIDATE_CREATE" /\ req[r].nama # NULL /\ row = NULL
           /\ tx = Transaction(r, NULL, req[r], CandidateRef(r, NULL), NULL)
  <2>1. req[r].op = "submitTransaction" /\ SubmissionOK(req[r])
    BY <1>1, <1>3 DEF Submitting
  <2>2. CandidateRef(r, NULL) \in Refs
    BY <1>1, Ids
  <2>3. req[r].nama \in RowNames \cup {NULL}
    BY <1>2, <2>1 DEF SubmissionOK
  <2>4. TxOK(Transaction(r, NULL, req[r], CandidateRef(r, NULL), NULL))
    BY <1>1, <1>3, <2>1, <2>2, <2>3, TransactionOK DEF SubmissionOK
  <2>5. QED
    BY <1>3, <2>1, <2>4
<1>4. CASE /\ h.stmt = "SELECT last_tx_id" /\ row = NULL
           /\ LET ref == req[r].candidate_ref
              IN  tx = Transaction(r, NULL, req[r], ref, LastTxId(ref))
  <2> DEFINE ref == req[r].candidate_ref
             prev == LastTxId(ref)
  <2>1. /\ req[r].op = "submitTransaction" /\ SubmissionOK(req[r]) /\ ref # NULL
        /\ req[r].tx_type # "CANDIDATE_CREATE"
        /\ req[r].tx_type = "CANDIDATE_UPDATE" => req[r].nama # NULL
    BY <1>1, <1>4 DEF Typed, PastLock
  <2>2. ref \in Refs /\ req[r].nama \in RowNames \cup {NULL}
    BY <1>2, <2>1 DEF SubmissionOK
  <2>3. prev \in TxIds \cup {NULL}
    BY <2>2, LastTxIdType
  <2>4. tx = Transaction(r, NULL, req[r], ref, prev)
    BY <1>4
  <2> HIDE DEF ref, prev
  <2>5. TxOK(Transaction(r, NULL, req[r], ref, prev))
    BY <1>1, <2>1, <2>2, <2>3, TransactionOK DEF SubmissionOK
  <2>6. QED
    BY <2>1, <2>4, <2>5
<1>5. CASE /\ h.stmt = "SELECT lock" /\ Migrating(r)
           /\ rows = h.block /\ row = Head(rows)
           /\ tx = LegacyCreate(r, row)
  <2>1. LegacyList(rows)
    BY <1>1, <1>5 DEF Typed, Migrating
  <2>2. row \in Candidates
    BY <1>5, <2>1, ListHead DEF LegacyList
  <2> DEFINE input == [tx_type |-> "CANDIDATE_CREATE", nama |-> LegacyRow(row).nama,
                       deskripsi |-> NULL, void_tx_id |-> NULL]
  <2>3. /\ input.tx_type = "CANDIDATE_CREATE" /\ input.nama = row
        /\ input.deskripsi = NULL /\ input.void_tx_id = NULL
    BY DEF LegacyRow
  <2>4. tx = Transaction(r, row, input, CandidateRef(r, row), NULL)
    BY <1>5 DEF LegacyCreate
  <2>5. CandidateRef(r, row) \in Refs
    BY <1>1, <2>2, Ids
  <2>6. NULL \notin Candidates /\ "CANDIDATE_CREATE" \in TX_TYPES
    BY DatabaseAssumption DEF TX_TYPES
  <2> HIDE DEF input
  <2>7. /\ input.tx_type \in SubmittedTypes \cup {"CANDIDATE_CREATE"} /\ input.tx_type \in TX_TYPES
        /\ input.nama \in RowNames \cup {NULL} /\ input.nama # NULL
        /\ input.deskripsi \in Descriptions \cup {NULL}
        /\ input.void_tx_id \in TxIds \cup {NULL}
    BY <1>2, <2>2, <2>3, <2>6
  <2>8. TxOK(Transaction(r, row, input, CandidateRef(r, row), NULL))
    BY <1>1, <2>2, <2>5, <2>7, TransactionOK
  <2>9. QED
    BY <2>1, <2>4, <2>8
<1>6. QED
  BY <1>3, <1>4, <1>5 DEF Adds

LEMMA IssuesTyped ==
    ASSUME LockInv, TypesInv, NEW r, CandidateHead(r), NEW q, q.req = r, Issues(r, q)
    PROVE  Typed(q) /\ ChainOK(candidateChain')
<1> DEFINE h == Head(queue)
<1>1. /\ Typed(h) /\ Carried(h) /\ h.req = r /\ h.stmt \in CandidateSteps
      /\ req[r].op = "submitTransaction" => SubmissionOK(req[r])
      /\ candidateChain # <<>>
  BY HeadHeld
<1>2. candidateChain' = candidateChain => ChainOK(candidateChain')
  BY DEF TypesInv
<1>3. CASE ToExisting(r, q)
  BY <1>1, <1>2, <1>3 DEF ToExisting, Submitting, Typed, Writing, PastLock, SavesTx
<1>4. CASE ToLastTxId(r, q)
  <2>1. /\ req[r].op = "submitTransaction" /\ req[r].tx_type # "CANDIDATE_CREATE"
        /\ req[r].candidate_ref # NULL /\ SubmissionOK(req[r])
    BY <1>1, <1>4 DEF ToLastTxId, Typed, PastLock
  <2>2. req[r].tx_type = "CANDIDATE_UPDATE" => req[r].nama # NULL
    BY <1>4 DEF ToLastTxId, Incomplete
  <2>3. q.stmt = "SELECT last_tx_id" /\ candidateChain' = candidateChain
    BY <1>4 DEF ToLastTxId
  <2>4. Typed(q)
    BY <2>1, <2>2, <2>3 DEF Typed, Writing, PastLock, SavesTx
  <2>5. QED
    BY <1>2, <2>3, <2>4
<1>5. ASSUME NEW row, NEW rows, NEW tx, NEW b, ToBlock(r, q, row, rows, tx, b)
      PROVE  Typed(q) /\ ChainOK(candidateChain')
  <2>1. Adds(r, row, rows, tx)
    BY <1>5 DEF ToBlock
  <2>2. TxOK(tx) /\ (req[r].op # "submitTransaction" => LegacyList(rows))
    BY <2>1, AddsTyped
  <2>3. /\ b.index = Len(candidateChain) /\ b.data = TxData(tx)
        /\ q.stmt = SavesTx /\ q.block.block = b /\ q.block.rows = rows
        /\ candidateChain' = Append(candidateChain, b)
    BY <1>5 DEF ToBlock
  <2>4. TxOf(b) = tx
    BY <2>3, TxOfData
  <2>5. Len(candidateChain) \in Nat
    BY DEF TypesInv, ChainOK, IsSequence
  <2>6. ChainOK(candidateChain')
    BY <2>2, <2>3, <2>4, <2>5, ChainGrows DEF TypesInv
  <2>7. Typed(q)
    BY <1>1, <2>2, <2>3, <2>4 DEF Typed, Writing, PastLock, SavesTx
  <2>8. QED
    BY <2>6, <2>7
<1>6. CASE ToProjection(r, q)
  <2>1. TxOK(TxOf(h.block.block)) /\ h.block.block.index \in Nat
    BY <1>1, <1>6 DEF ToProjection, Typed, Carried
  <2>2. CASE q = Resync(r)
    BY <1>1, <1>2, <1>6, <2>2, ResyncTyped DEF ToProjection
  <2>3. CASE q.stmt = "SELECT row" /\ q.block = h.block.block
             /\ TxOf(h.block.block).tx_type # "CANDIDATE_VOID"
    <3>1. Typed(q)
      BY <1>1, <2>1, <2>3 DEF Typed, Writing, PastLock, SavesTx
    <3>2. QED
      BY <1>2, <1>6, <3>1 DEF ToProjection
  <2>4. QED
    BY <1>6, <2>2, <2>3 DEF ToProjection
<1>7. CASE ToUpsert(r, q)
  <2> DEFINE b  == h.block
             tx == TxOf(b)
             at == RowsOf(tx.candidate_ref)
             s  == IF at = {} THEN Blank ELSE candidates[CHOOSE id \in at : TRUE]
             st == [f \in DOMAIN Blank |-> s[f]]
             next == ApplyTxToState(st, tx)
             row == Row(tx, next, b.index)
  <2>1. TxOK(tx) /\ tx.tx_type # "CANDIDATE_VOID" /\ b.index \in Nat
    BY <1>1, <1>7 DEF ToUpsert, Typed
  <2>2. tx.candidate_ref \in Refs
    BY <2>1 DEF TxOK
  <2>3. st \in States
    BY <2>2, ReadRow
  <2>4. /\ q.stmt = "SELECT id" /\ q.block.rows = <<row>> /\ q.block.index = b.index
        /\ candidateChain' = candidateChain
    BY <1>7 DEF ToUpsert
  <2> HIDE DEF st
  <2>5. next \in States
    BY <2>1, <2>3, AppliedState
  <2> HIDE DEF next, tx
  <2>6. row \in NewRows
    BY <2>1, <2>5, RowFields
  <2> HIDE DEF row
  <2>7. <<row>> \in Seq(NewRows) /\ <<row>> # <<>>
    BY <2>6
  <2>8. q.block.rows \in Seq(NewRows) /\ q.block.rows # <<>> /\ q.block.index \in Nat \cup {NULL}
    BY <2>1, <2>4, <2>7
  <2>9. Typed(q)
    BY <1>1, <2>4, <2>8 DEF Typed, Writing, PastLock, SavesTx
  <2>10. QED
    BY <1>2, <2>4, <2>9
<1>8. CASE ToRow(r, q)
  <2>1. /\ h.block.rows \in Seq(NewRows) /\ h.block.rows # <<>>
        /\ h.block.index \in Nat \cup {NULL}
    BY <1>1, <1>8 DEF ToRow, Typed, Writing
  <2>2. q.stmt \in {"UPDATE candidates", "INSERT candidates"} /\ q.block = h.block
        /\ candidateChain' = candidateChain
    BY <1>8 DEF ToRow
  <2>3. Typed(q)
    BY <1>1, <2>1, <2>2 DEF Typed, Writing, PastLock, SavesTx
  <2>4. QED
    BY <1>2, <2>2, <2>3
<1>9. CASE ToOtherRows(r, q)
  <2> DEFINE rows == h.block.rows
  <2>1. rows \in Seq(NewRows) /\ rows # <<>> /\ h.block.index \in Nat \cup {NULL}
    BY <1>1, <1>9 DEF ToOtherRows, Typed, Writing
  <2>2. Tail(rows) \in Seq(NewRows)
    BY <2>1, ListHead
  <2>3. q = Write(r, Tail(rows), h.block.index) /\ candidateChain' = candidateChain
    BY <1>9 DEF ToOtherRows
  <2>4. QED
    BY <1>1, <1>2, <2>1, <2>2, <2>3, WriteTyped
<1>10. CASE ToAdoption(r, q)
  <2>1. h.stmt = SavesTx /\ req[r].op # "submitTransaction" /\ q.stmt = "UPDATE legacy"
        /\ q.block = h.block /\ candidateChain' = candidateChain
    BY <1>10 DEF ToAdoption, Migrating
  <2>2. TxOK(TxOf(h.block.block)) /\ h.block.block.index \in Nat /\ LegacyList(h.block.rows)
    BY <1>1, <2>1 DEF Typed, Carried
  <2>3. Typed(q)
    BY <1>1, <2>1, <2>2 DEF Typed, Writing, PastLock, SavesTx
  <2>4. QED
    BY <1>2, <2>1, <2>3
<1>11. CASE ToOtherLegacy(r, q)
  <2>1. q.stmt = "SELECT lock" /\ q.block # <<>> /\ candidateChain' = candidateChain
    BY <1>11 DEF ToOtherLegacy
  <2>2. q.block \in Seq(Candidates)
    <3>1. CASE h.stmt = "SELECT legacy" /\ q.block \in Orders(LegacyRows)
      BY <3>1, LegacyOrder
    <3>2. CASE h.stmt = "SELECT lock" /\ Migrating(r) /\ q.block = Tail(h.block)
      <4>1. LegacyList(h.block)
        BY <1>1, <3>2 DEF Typed, Migrating
      <4>2. QED
        BY <3>2, <4>1, ListHead DEF LegacyList
    <3>3. CASE h.stmt = "UPDATE legacy" /\ q.block = Tail(h.block.rows)
      <4>1. LegacyList(h.block.rows)
        BY <1>1, <3>3 DEF Typed
      <4>2. QED
        BY <3>3, <4>1, ListHead DEF LegacyList
    <3>4. QED
      BY <1>11, <3>1, <3>2, <3>3 DEF ToOtherLegacy
  <2>3. Typed(q)
    BY <1>1, <2>1, <2>2 DEF Typed, Writing, PastLock, SavesTx, LegacyList
  <2>4. QED
    BY <1>2, <2>1, <2>3
<1>12. QED
  BY <1>3, <1>4, <1>5, <1>6, <1>7, <1>8, <1>9, <1>10, <1>11 DEF Issues

LEMMA ComesTyped ==
    ASSUME LockInv, TypesInv, NEW r, NEW q, Comes(r, q)
    PROVE  Typed(q)'
<1>1. q.req = r /\ req'[r] # NULL /\ up /\ candidateChain' = candidateChain
  BY DEF Comes, candidateVars
<1>2. CASE req'[r] \in Submissions /\ req'[r].tx_type \in SubmittedTypes
           /\ req'[r].op = "submitTransaction" /\ q.stmt = "SELECT lock"
  <2>1. req'[r] \in CandidateInputs
    BY <1>2, SubmissionType
  <2>2. SubmissionOK(req'[r])
    BY <1>2, <2>1 DEF SubmissionOK, CandidateInputs
  <2>3. QED
    BY <1>1, <1>2, <2>2 DEF Typed, Writing, PastLock, SavesTx
<1>3. CASE req'[r].op = "resync" /\ q = Resync(r)
  <2>1. Replay(candidateChain) \in Seq(NewRows)
    BY ReplayRows DEF RowsFrom, TypesInv
  <2>2. candidateChain # <<>> /\ LatestBlockIndex \in Nat
    BY <1>1, LatestIndex DEF LockInv, LedgersRight
  <2> DEFINE rows == Replay(candidateChain)
  <2>3. CASE rows = <<>>
    <3>1. q.stmt = "UPDATE sync_state" /\ q.block = LatestBlockIndex
      BY <1>3, <2>3 DEF Resync, Write, NoteProgress, Query
    <3>2. QED
      BY <1>1, <1>3, <2>2, <3>1 DEF Typed, Writing, PastLock, SavesTx
  <2>4. CASE rows # <<>>
    <3>1. q.stmt = "SELECT id" /\ q.block.rows = rows /\ q.block.index = NULL
      BY <1>3, <2>4 DEF Resync, Write, Upsert, Query
    <3>2. QED
      BY <1>1, <1>3, <2>1, <2>4, <3>1 DEF Typed, Writing, PastLock, SavesTx
  <2>5. QED
    BY <2>3, <2>4
<1>4. CASE req'[r].op = "migrateLegacy" /\ q.stmt = "SELECT legacy"
  BY <1>1, <1>4 DEF Typed, Writing, PastLock, SavesTx
<1>5. QED
  BY <1>2, <1>3, <1>4 DEF Comes

LEMMA LoadedChain ==
    ASSUME NEW s, ChainOK(s), NEW c \in LoadOrders(s)
    PROVE  ChainOK(c)
<1> DEFINE n == Len(s)
<1>1. PICK p \in [1..n -> 1..n] : c = [i \in 1..n |-> s[p[i]]]
  BY DEF LoadOrders
<1>2. PICK S : s \in Seq(S)
  BY DEF ChainOK, IsSequence
<1>3. n \in Nat /\ \A i \in 1..n : s[i] \in S
  BY <1>2
<1>4. \A i \in 1..n : s[i].index # 0 => TxOK(TxOf(s[i])) /\ s[i].index \in Nat
  BY DEF ChainOK
<1> HIDE DEF n
<1>5. c \in [1..n -> S]
  BY <1>1, <1>3
<1>6. c \in Seq(S) /\ Len(c) = n
  BY <1>3, <1>5
<1>7. \A i \in 1..n : p[i] \in 1..n /\ c[i] = s[p[i]]
  BY <1>1
<1>8. QED
  BY <1>4, <1>6, <1>7 DEF ChainOK, IsSequence

LEMMA EmptyChain == ChainOK(<<>>)
BY ShortSequences DEF ChainOK

LEMMA NextTypes == LockInv /\ TypesInv /\ [CandidateNext]_allVars => TypesInv'
<1> SUFFICES ASSUME LockInv, TypesInv, [CandidateNext]_allVars PROVE TypesInv'
  OBVIOUS
<1>1. CASE Aside
  <2>1. PICK d : Slides(d, {})
    BY <1>1 DEF Aside
  <2>2. (\A i \in 1..Len(queue) : Typed(queue[i]))'
    BY <1>1, <2>1, SlidesTyped DEF Aside
  <2>3. UNCHANGED <<candidates, sync_state, candidate_blocks, candidateChain>>
    BY <1>1 DEF Aside, candidateVars, candidateTables
  <2>4. QED
    BY <2>2, <2>3, SameTable DEF TypesInv
<1>2. ASSUME NEW r, NEW q, Comes(r, q) PROVE TypesInv'
  <2>1. Typed(q)' /\ Slides(0, {q}) /\ Steady
    BY <1>2, ComesTyped DEF Comes
  <2>2. (\A i \in 1..Len(queue) : Typed(queue[i]))'
    BY <2>1, SlidesTyped
  <2>3. UNCHANGED <<candidates, sync_state, candidate_blocks, candidateChain>>
    BY <1>2 DEF Comes, candidateVars, candidateTables
  <2>4. QED
    BY <2>2, <2>3, SameTable DEF TypesInv
<1>3. ASSUME NEW r, Turned(r) PROVE TypesInv'
  <2>1. CandidateHead(r) /\ Steady /\ queue # <<>>
    BY <1>3 DEF Turned, CandidateHead
  <2>2. CASE Founders(r)
    <3>1. (\A i \in 1..Len(queue) : Typed(queue[i]))'
      BY <2>1, <2>2, SlidesTyped DEF Founders
    <3>2. UNCHANGED <<candidates, sync_state, candidate_blocks, candidateChain>>
      BY <2>2 DEF Founders, candidateVars, candidateTables
    <3>3. QED
      BY <3>1, <3>2, SameTable DEF TypesInv
  <2>3. CASE Succeeded
    <3>1. TableOK' /\ ChainOK(candidate_blocks')
      BY <2>1, <2>3, PerformTyped DEF Succeeded
    <3>2. CASE Slides(1, {}) /\ candidateChain' = candidateChain
      <4>1. (\A i \in 1..Len(queue) : Typed(queue[i]))'
        BY <2>1, <3>2, SlidesTyped
      <4>2. QED
        BY <3>1, <3>2, <4>1 DEF TypesInv
    <3>3. ASSUME NEW q, q.req = r, Slides(1, {q}), Issues(r, q) PROVE TypesInv'
      <4>1. Typed(q) /\ ChainOK(candidateChain')
        BY <2>1, <3>3, IssuesTyped
      <4>2. Typed(q)'
        BY <2>1, <4>1 DEF CandidateHead, Typed
      <4>3. (\A i \in 1..Len(queue) : Typed(queue[i]))'
        BY <2>1, <3>3, <4>2, SlidesTyped
      <4>4. QED
        BY <3>1, <4>1, <4>3 DEF TypesInv
    <3>4. QED
      BY <1>3, <2>2, <3>2, <3>3 DEF Turned
  <2>4. QED
    BY <1>3, <2>2, <2>3 DEF Turned
<1>4. CASE Breaks
  <2>1. TableOK' /\ ChainOK(candidate_blocks')
    <3>1. CASE UNCHANGED candidateTables
      BY <3>1, SameTable DEF candidateTables, TypesInv
    <3>2. CASE /\ queue # <<>> /\ ~RejectedCandidates(Head(queue))
               /\ PerformCandidates(Head(queue))
      BY <3>2, PerformTyped
    <3>3. QED
      BY <1>4, <3>1, <3>2 DEF Breaks
  <2>2. queue' = <<>> /\ candidateChain' = <<>>
    BY <1>4 DEF Breaks
  <2>3. \A i \in 1..Len(queue') : FALSE
    BY <2>2, ShortSequences
  <2>4. QED
    BY <2>1, <2>2, <2>3, EmptyChain DEF TypesInv
<1>5. CASE Resumes
  <2>1. /\ Steady /\ UNCHANGED <<queue, candidates, sync_state, candidate_blocks>>
        /\ candidateChain' \in LoadOrders(candidate_blocks)
    BY <1>5 DEF Resumes
  <2>2. ASSUME NEW i \in 1..Len(queue) PROVE Typed(queue[i])'
    <3> PICK q : q = queue[i]
      OBVIOUS
    <3>1. q.req \in Requests /\ req[q.req] # NULL /\ Typed(q)
      BY DEF LockInv, QueueRight, EntryOK, TypesInv
    <3>2. Typed(q)'
      BY <2>1, <3>1, TypedStays
    <3>3. QED
      BY <2>1, <3>2 DEF Typed
  <2>3. ChainOK(candidateChain')
    BY <2>1, LoadedChain DEF TypesInv
  <2>4. QED
    BY <2>1, <2>2, <2>3, SameTable DEF TypesInv
<1>6. QED
  BY <1>1, <1>2, <1>3, <1>4, <1>5, StepKinds

LEMMA InitTypes == CandidateInit => TypesInv
<1> SUFFICES ASSUME CandidateInit PROVE TypesInv
  OBVIOUS
<1>1. /\ queue = <<>> /\ candidates = [c \in Candidates |-> LegacyRow(c)] /\ sync_state = -1
      /\ candidate_blocks = <<BootGenesis>> /\ candidateChain = <<BootGenesis>>
  BY DEF CandidateInit, Init, InitWith
<1>2. \A i \in 1..Len(queue) : FALSE
  BY <1>1, ShortSequences
<1>3. \A c \in Candidates : LegacyRow(c) \in Rows
  BY DEF LegacyRow, Rows
<1>4. TableOK
  BY <1>1, <1>3 DEF TableOK
<1>5. ChainOK(<<BootGenesis>>)
  <2> DEFINE s == <<BootGenesis>>
  <2>1. BootGenesis.index = 0
    BY DEF BootGenesis, GenesisBlock, Block
  <2>2. IsSequence(s) /\ 1..Len(s) = {1} /\ s[1] = BootGenesis
    BY ShortSequences
  <2> HIDE DEF s
  <2>3. ChainOK(s)
    BY <2>1, <2>2 DEF ChainOK
  <2>4. QED
    BY <2>3 DEF s
<1>6. QED
  BY <1>1, <1>2, <1>4, <1>5 DEF TypesInv

LEMMA TypesInvariant == CandidateSpec => [](LockInv /\ TypesInv)
BY InitLock, NextLock, InitTypes, NextTypes, PTL DEF CandidateSpec

LEMMA TypedTransactions ==
    ASSUME NEW s, LedgerOK(s), ChainOK(s)
    PROVE  TransactionsOK(s)
<1> SUFFICES ASSUME NEW i \in 2..Len(s)
             PROVE  /\ TxOf(s[i]).tx_id \in TxIds /\ TxOf(s[i]).candidate_ref \in Refs
                    /\ TxOf(s[i]).tx_type \in SubmittedTypes \cup {"CANDIDATE_CREATE"}
                    /\ TxOf(s[i]).tx_type \in {"CANDIDATE_CREATE", "CANDIDATE_UPDATE"} =>
                          TxOf(s[i]).nama \in RowNames
                    /\ TxOf(s[i]).prev_tx_ref \in TxIds \cup {NULL}
  BY DEF TransactionsOK
<1>1. i \in 1..Len(s) /\ i # 1
  BY DEF ChainOK, IsSequence
<1>2. TxOK(TxOf(s[i]))
  BY <1>1 DEF LedgerOK, ChainOK
<1>3. QED
  BY <1>2 DEF TxOK

\* The table of candidates, the sync state and the transactions in memory and in
\* the table of blocks keep their types: for any number of requests between
\* them, through rejected and failed statements, kills and restarts, a row is
\* one from before the migration or has all that a transaction gives it, and no
\* transaction creates or renames a candidate without a name.
THEOREM CandidatesKeepTheirTypes == CandidateSpec => []CandidatesTypeOK
<1>1. LockInv /\ TypesInv => CandidatesTypeOK
  BY TypedTransactions DEF LockInv, LedgersRight, TypesInv, TableOK, CandidatesTypeOK
<1>2. QED
  BY <1>1, TypesInvariant, PTL

(***************************************************************************)
(* What a replay computes.                                                 *)
(***************************************************************************)
Naming(s, P) == {i \in P : TxOf(s[i]).tx_type \in {"CANDIDATE_CREATE", "CANDIDATE_UPDATE"}}

Describing(s, P) ==
    {i \in P : \/ TxOf(s[i]).tx_type = "CANDIDATE_CREATE"
               \/ /\ TxOf(s[i]).tx_type \in {"CANDIDATE_UPDATE", "CANDIDATE_CORRECTION"}
                  /\ TxOf(s[i]).deskripsi # NULL}

Switching(s, P) ==
    {i \in P : TxOf(s[i]).tx_type \in {"CANDIDATE_CREATE", "CANDIDATE_DEACTIVATE",
                                       "CANDIDATE_REACTIVATE"}}

LastName(s, P) == IF Naming(s, P) = {} THEN NULL ELSE TxOf(s[LastOf(Naming(s, P))]).nama

LastText(s, P) ==
    IF Describing(s, P) = {} THEN NULL ELSE TxOf(s[LastOf(Describing(s, P))]).deskripsi

LastStatus(s, P) ==
    IF /\ Switching(s, P) # {}
       /\ TxOf(s[LastOf(Switching(s, P))]).tx_type = "CANDIDATE_DEACTIVATE"
    THEN "INACTIVE" ELSE "ACTIVE"

LastState(s, P) ==
    [nama |-> LastName(s, P), deskripsi |-> LastText(s, P), status |-> LastStatus(s, P)]

LEMMA GivenLastFields ==
    ASSUME NEW s, NEW P
    PROVE  GivenLast(s, P) =
              [candidate_ref |-> TxOf(s[LastOf(P)]).candidate_ref, nama |-> LastName(s, P),
               deskripsi |-> LastText(s, P), status |-> LastStatus(s, P),
               last_tx_id |-> TxOf(s[LastOf(P)]).tx_id,
               verified_at_block_index |-> s[LastOf(P)].index]
BY DEF GivenLast, LastName, LastText, LastStatus, Naming, Describing, Switching

LEMMA LastAdded ==
    ASSUME NEW n \in Nat, NEW P \in SUBSET (1..n)
    PROVE  LastOf(P \cup {n + 1}) = n + 1 /\ n + 1 \notin P /\ P \cup {n + 1} # {}
<1> DEFINE Q == P \cup {n + 1}
<1>1. n + 1 \in Q /\ \A j \in Q : j <= n + 1
  OBVIOUS
<1>2. \A i \in Q : (\A j \in Q : j <= i) => i = n + 1
  OBVIOUS
<1>3. LastOf(Q) \in Q /\ \A j \in Q : j <= LastOf(Q)
  <2> HIDE DEF Q
  <2> DEFINE Last(i) == i \in Q /\ \A j \in Q : j <= i
  <2>1. \E i : Last(i)
    BY <1>1
  <2>2. Last(CHOOSE i : Last(i))
    <3> HIDE DEF Last
    <3>1. QED
      BY <2>1, Zenon
  <2>3. LastOf(Q) = CHOOSE i : Last(i)
    BY Zenon DEF LastOf
  <2>4. QED
    BY <2>2, <2>3, Zenon
<1>4. LastOf(Q) = n + 1
  BY <1>2, <1>3
<1>5. n + 1 \notin P /\ Q # {}
  OBVIOUS
<1>6. QED
  BY <1>4, <1>5

LEMMA OneMoreName ==
    ASSUME NEW s, NEW n \in Nat, NEW P \in SUBSET (1..n), NEW tx, tx = TxOf(s[n + 1])
    PROVE  LastName(s, P \cup {n + 1}) =
              IF tx.tx_type \in {"CANDIDATE_CREATE", "CANDIDATE_UPDATE"} THEN tx.nama
                                                                         ELSE LastName(s, P)
<1>1. CASE tx.tx_type \in {"CANDIDATE_CREATE", "CANDIDATE_UPDATE"}
  <2> DEFINE N == Naming(s, P)
  <2>1. Naming(s, P \cup {n + 1}) = N \cup {n + 1}
    BY <1>1 DEF Naming
  <2>2. N \in SUBSET (1..n)
    BY DEF Naming
  <2> HIDE DEF N
  <2>3. LastOf(N \cup {n + 1}) = n + 1 /\ N \cup {n + 1} # {}
    BY <2>2, LastAdded
  <2>4. QED
    BY <1>1, <2>1, <2>3 DEF LastName
<1>2. CASE ~(tx.tx_type \in {"CANDIDATE_CREATE", "CANDIDATE_UPDATE"})
  <2>1. Naming(s, P \cup {n + 1}) = Naming(s, P)
    BY <1>2 DEF Naming
  <2>2. QED
    BY <1>2, <2>1 DEF LastName
<1>3. QED
  BY <1>1, <1>2

LEMMA OneMoreText ==
    ASSUME NEW s, NEW n \in Nat, NEW P \in SUBSET (1..n), NEW tx, tx = TxOf(s[n + 1])
    PROVE  LastText(s, P \cup {n + 1}) =
              IF \/ tx.tx_type = "CANDIDATE_CREATE"
                 \/ /\ tx.tx_type \in {"CANDIDATE_UPDATE", "CANDIDATE_CORRECTION"}
                    /\ tx.deskripsi # NULL
              THEN tx.deskripsi ELSE LastText(s, P)
<1> DEFINE describes == \/ tx.tx_type = "CANDIDATE_CREATE"
                        \/ /\ tx.tx_type \in {"CANDIDATE_UPDATE", "CANDIDATE_CORRECTION"}
                           /\ tx.deskripsi # NULL
<1>1. CASE describes
  <2> DEFINE D == Describing(s, P)
  <2>1. Describing(s, P \cup {n + 1}) = D \cup {n + 1}
    BY <1>1 DEF Describing
  <2>2. D \in SUBSET (1..n)
    BY DEF Describing
  <2> HIDE DEF D
  <2>3. LastOf(D \cup {n + 1}) = n + 1 /\ D \cup {n + 1} # {}
    BY <2>2, LastAdded
  <2>4. QED
    BY <1>1, <2>1, <2>3 DEF LastText
<1>2. CASE ~describes
  <2>1. Describing(s, P \cup {n + 1}) = Describing(s, P)
    BY <1>2 DEF Describing
  <2>2. QED
    BY <1>2, <2>1 DEF LastText
<1>3. QED
  BY <1>1, <1>2

LEMMA OneMoreStatus ==
    ASSUME NEW s, NEW n \in Nat, NEW P \in SUBSET (1..n), NEW tx, tx = TxOf(s[n + 1])
    PROVE  LastStatus(s, P \cup {n + 1}) =
              IF tx.tx_type \in {"CANDIDATE_CREATE", "CANDIDATE_REACTIVATE"} THEN "ACTIVE"
              ELSE IF tx.tx_type = "CANDIDATE_DEACTIVATE" THEN "INACTIVE"
              ELSE LastStatus(s, P)
<1> DEFINE switches == tx.tx_type \in {"CANDIDATE_CREATE", "CANDIDATE_DEACTIVATE",
                                       "CANDIDATE_REACTIVATE"}
<1>1. CASE switches
  <2> DEFINE W == Switching(s, P)
  <2>1. Switching(s, P \cup {n + 1}) = W \cup {n + 1}
    BY <1>1 DEF Switching
  <2>2. W \in SUBSET (1..n)
    BY DEF Switching
  <2> HIDE DEF W
  <2>3. LastOf(W \cup {n + 1}) = n + 1 /\ W \cup {n + 1} # {}
    BY <2>2, LastAdded
  <2>4. QED
    BY <1>1, <2>1, <2>3 DEF LastStatus
<1>2. CASE ~switches
  <2>1. Switching(s, P \cup {n + 1}) = Switching(s, P)
    BY <1>2 DEF Switching
  <2>2. QED
    BY <1>2, <2>1 DEF LastStatus
<1>3. QED
  BY <1>1, <1>2

\* One transaction more, applied to the values given last before it.
LEMMA OneMoreTransaction ==
    ASSUME NEW s, NEW n \in Nat, NEW P \in SUBSET (1..n), TxOK(TxOf(s[n + 1])),
           TxOf(s[n + 1]).tx_type # "CANDIDATE_VOID"
    PROVE  Row(TxOf(s[n + 1]), ApplyTxToState(LastState(s, P), TxOf(s[n + 1])), s[n + 1].index)
              = GivenLast(s, P \cup {n + 1})
<1> DEFINE Q  == P \cup {n + 1}
           st == LastState(s, P)
<1> PICK tx : tx = TxOf(s[n + 1])
  OBVIOUS
<1>1. st = [nama |-> LastName(s, P), deskripsi |-> LastText(s, P), status |-> LastStatus(s, P)]
  BY DEF LastState
<1> HIDE DEF st
<1>2. LastOf(Q) = n + 1
  BY LastAdded
<1>3. /\ LastName(s, Q) =
            IF tx.tx_type \in {"CANDIDATE_CREATE", "CANDIDATE_UPDATE"} THEN tx.nama
                                                                       ELSE LastName(s, P)
      /\ LastText(s, Q) =
            IF \/ tx.tx_type = "CANDIDATE_CREATE"
               \/ /\ tx.tx_type \in {"CANDIDATE_UPDATE", "CANDIDATE_CORRECTION"}
                  /\ tx.deskripsi # NULL
            THEN tx.deskripsi ELSE LastText(s, P)
      /\ LastStatus(s, Q) =
            IF tx.tx_type \in {"CANDIDATE_CREATE", "CANDIDATE_REACTIVATE"} THEN "ACTIVE"
            ELSE IF tx.tx_type = "CANDIDATE_DEACTIVATE" THEN "INACTIVE"
            ELSE LastStatus(s, P)
  <2> HIDE DEF Q
  <2>1. Q = P \cup {n + 1}
    BY DEF Q
  <2>2. LastName(s, Q) =
            IF tx.tx_type \in {"CANDIDATE_CREATE", "CANDIDATE_UPDATE"} THEN tx.nama
                                                                       ELSE LastName(s, P)
    BY <2>1, OneMoreName
  <2>3. LastText(s, Q) =
            IF \/ tx.tx_type = "CANDIDATE_CREATE"
               \/ /\ tx.tx_type \in {"CANDIDATE_UPDATE", "CANDIDATE_CORRECTION"}
                  /\ tx.deskripsi # NULL
            THEN tx.deskripsi ELSE LastText(s, P)
    BY <2>1, OneMoreText
  <2>4. LastStatus(s, Q) =
            IF tx.tx_type \in {"CANDIDATE_CREATE", "CANDIDATE_REACTIVATE"} THEN "ACTIVE"
            ELSE IF tx.tx_type = "CANDIDATE_DEACTIVATE" THEN "INACTIVE"
            ELSE LastStatus(s, P)
    BY <2>1, OneMoreStatus
  <2>5. QED
    BY <2>2, <2>3, <2>4
<1>4. GivenLast(s, Q) =
         [candidate_ref |-> tx.candidate_ref, nama |-> LastName(s, Q),
          deskripsi |-> LastText(s, Q), status |-> LastStatus(s, Q),
          last_tx_id |-> tx.tx_id, verified_at_block_index |-> s[n + 1].index]
  BY <1>2, GivenLastFields
<1> HIDE DEF Q
<1>5. ApplyTxToState(st, tx) =
         [nama |-> LastName(s, Q), deskripsi |-> LastText(s, Q), status |-> LastStatus(s, Q)]
  <2>1. CASE tx.tx_type = "CANDIDATE_CREATE"
    BY <1>1, <1>3, <2>1 DEF ApplyTxToState
  <2>2. CASE tx.tx_type = "CANDIDATE_UPDATE"
    <3>1. ApplyTxToState(st, tx) =
              [st EXCEPT !.nama = tx.nama, !.deskripsi = Given(tx.deskripsi, @)]
      BY <2>2 DEF ApplyTxToState
    <3>2. PICK d : d = Given(tx.deskripsi, st.deskripsi)
      OBVIOUS
    <3>3. ApplyTxToState(st, tx) = [st EXCEPT !.nama = tx.nama, !.deskripsi = d]
      BY <3>1, <3>2
    <3>4. d = LastText(s, Q) /\ tx.nama = LastName(s, Q) /\ LastStatus(s, Q) = LastStatus(s, P)
      BY <1>1, <1>3, <2>2, <3>2 DEF Given
    <3>5. QED
      BY <1>1, <3>3, <3>4
  <2>3. CASE tx.tx_type = "CANDIDATE_DEACTIVATE"
    <3>1. ApplyTxToState(st, tx) = [st EXCEPT !.status = "INACTIVE"]
      BY <2>3 DEF ApplyTxToState
    <3>2. QED
      BY <1>1, <1>3, <2>3, <3>1
  <2>4. CASE tx.tx_type = "CANDIDATE_REACTIVATE"
    <3>1. ApplyTxToState(st, tx) = [st EXCEPT !.status = "ACTIVE"]
      BY <2>4 DEF ApplyTxToState
    <3>2. QED
      BY <1>1, <1>3, <2>4, <3>1
  <2>5. CASE tx.tx_type = "CANDIDATE_CORRECTION"
    <3>1. ApplyTxToState(st, tx) = [st EXCEPT !.deskripsi = Given(tx.deskripsi, @)]
      BY <2>5 DEF ApplyTxToState
    <3>2. PICK d : d = Given(tx.deskripsi, st.deskripsi)
      OBVIOUS
    <3>3. ApplyTxToState(st, tx) = [st EXCEPT !.deskripsi = d]
      BY <3>1, <3>2
    <3>4. d = LastText(s, Q) /\ LastName(s, P) = LastName(s, Q)
          /\ LastStatus(s, Q) = LastStatus(s, P)
      BY <1>1, <1>3, <2>5, <3>2 DEF Given
    <3>5. QED
      BY <1>1, <3>3, <3>4
  <2>6. QED
    BY <2>1, <2>2, <2>3, <2>4, <2>5 DEF TxOK, TX_TYPES
<1> PICK next : next = ApplyTxToState(st, tx)
  OBVIOUS
<1>6. /\ next.nama = LastName(s, Q) /\ next.deskripsi = LastText(s, Q)
      /\ next.status = LastStatus(s, Q)
  BY <1>5
<1>7. Row(tx, next, s[n + 1].index) = GivenLast(s, Q)
  BY <1>4, <1>6 DEF Row
<1>8. QED
  BY <1>7 DEF st, Q

\* The places of the chain, up to the n-th, that count and are of a candidate.
Places(s, voided, n, ref) ==
    {j \in 1..n : ~Skipped(s[j], voided) /\ TxOf(s[j]).candidate_ref = ref}

\* A replayed table has a row for every candidate that has such a place, with
\* the values given last.
ReplayedUpTo(rows, s, voided, n) ==
    /\ IsSequence(rows)
    /\ \A i \in 1..Len(rows) :
          LET P == Places(s, voided, n, rows[i].candidate_ref)
          IN  P # {} /\ rows[i] = GivenLast(s, P)
    /\ \A i, j \in 1..Len(rows) : rows[i].candidate_ref = rows[j].candidate_ref => i = j
    /\ \A j \in 1..n : ~Skipped(s[j], voided) =>
          \E i \in 1..Len(rows) : rows[i].candidate_ref = TxOf(s[j]).candidate_ref

LEMMA PlaceNotAdded ==
    ASSUME NEW s, NEW voided, NEW n \in Nat, NEW ref,
           Skipped(s[n + 1], voided) \/ TxOf(s[n + 1]).candidate_ref # ref
    PROVE  Places(s, voided, n + 1, ref) = Places(s, voided, n, ref)
<1>1. 1..n + 1 = (1..n) \cup {n + 1}
  OBVIOUS
<1>2. QED
  BY <1>1 DEF Places

LEMMA NothingGiven ==
    ASSUME NEW s
    PROVE  LastState(s, {}) = Blank
<1>1. Naming(s, {}) = {} /\ Describing(s, {}) = {} /\ Switching(s, {}) = {}
  BY DEF Naming, Describing, Switching
<1>2. QED
  BY <1>1 DEF LastState, LastName, LastText, LastStatus, Blank

LEMMA GivenState ==
    ASSUME NEW s, NEW P, NEW row, row = GivenLast(s, P)
    PROVE  [f \in DOMAIN Blank |-> row[f]] = LastState(s, P)
<1>1. /\ row.nama = LastName(s, P) /\ row.deskripsi = LastText(s, P)
      /\ row.status = LastStatus(s, P)
  BY GivenLastFields
<1>2. QED
  BY <1>1, BlankState DEF LastState

LEMMA ReplayedBlock ==
    ASSUME NEW s, ChainOK(s), NEW voided, NEW n \in Nat, n + 1 \in 1..Len(s), NEW rows,
           ReplayedUpTo(rows, s, voided, n), ~Skipped(s[n + 1], voided)
    PROVE  ReplayedUpTo(ReplayBlock(rows, s[n + 1]), s, voided, n + 1)
<1> DEFINE b == s[n + 1]
           tx == TxOf(b)
           ref == tx.candidate_ref
           P   == Places(s, voided, n, ref)
           at  == {i \in DOMAIN rows : rows[i].candidate_ref = tx.candidate_ref}
           old == IF at = {} THEN Blank ELSE rows[CHOOSE i \in at : TRUE]
           st  == [f \in DOMAIN Blank |-> old[f]]
           row == Row(tx, ApplyTxToState(st, tx), b.index)
           new == IF at = {} THEN Append(rows, row)
                             ELSE [i \in DOMAIN rows |-> IF i \in at THEN row ELSE rows[i]]
<1>1. ReplayBlock(rows, b) = new
  BY DEF ReplayBlock
<1>2. TxOK(tx) /\ tx.tx_type # "CANDIDATE_VOID"
  BY DEF ChainOK, Skipped
<1>3. PICK S : rows \in Seq(S)
  BY DEF ReplayedUpTo, IsSequence
<1>4. DOMAIN rows = 1..Len(rows) /\ Len(rows) \in Nat
  BY <1>3
<1>5. P \in SUBSET (1..n) /\ Places(s, voided, n + 1, ref) = P \cup {n + 1}
  <2>1. 1..n + 1 = (1..n) \cup {n + 1}
    OBVIOUS
  <2>2. QED
    BY <2>1 DEF Places
<1>6. st = LastState(s, P)
  <2>1. CASE at = {}
    <3>1. P = {}
      BY <1>4, <2>1 DEF ReplayedUpTo, Places
    <3>2. st = Blank
      BY <2>1, BlankState DEF Blank
    <3>3. QED
      BY <3>1, <3>2, NothingGiven
  <2>2. CASE at # {}
    <3>1. (CHOOSE i \in at : TRUE) \in at
      BY <2>2
    <3>2. old = GivenLast(s, P)
      BY <1>4, <2>2, <3>1 DEF ReplayedUpTo
    <3> HIDE DEF old, P
    <3>3. QED
      BY <3>2, GivenState
  <2>3. QED
    BY <2>1, <2>2
<1>7. row = GivenLast(s, P \cup {n + 1}) /\ row.candidate_ref = ref
  <2> HIDE DEF st, P
  <2>1. Row(TxOf(s[n + 1]), ApplyTxToState(LastState(s, P), TxOf(s[n + 1])), s[n + 1].index)
              = GivenLast(s, P \cup {n + 1})
    BY <1>2, <1>5, OneMoreTransaction
  <2>2. QED
    BY <1>6, <2>1, RowFields
<1>8. ASSUME NEW r, r # ref PROVE Places(s, voided, n + 1, r) = Places(s, voided, n, r)
  BY <1>8, PlaceNotAdded
<1>9. /\ \A i \in 1..Len(rows) :
            /\ Places(s, voided, n, rows[i].candidate_ref) # {}
            /\ rows[i] = GivenLast(s, Places(s, voided, n, rows[i].candidate_ref))
      /\ \A i, j \in 1..Len(rows) : rows[i].candidate_ref = rows[j].candidate_ref => i = j
      /\ \A j \in 1..n : ~Skipped(s[j], voided) =>
            \E i \in 1..Len(rows) : rows[i].candidate_ref = TxOf(s[j]).candidate_ref
  BY DEF ReplayedUpTo
<1>10. \A i \in 1..Len(rows) : i \in at <=> rows[i].candidate_ref = ref
  BY <1>4
<1> HIDE DEF row, P, at
<1>11. CASE at = {}
  <2>1. new = Append(rows, row)
    BY <1>11
  <2>2. rows \in Seq(S \cup {row})
    BY <1>3
  <2> HIDE DEF new
  <2>3. /\ new \in Seq(S \cup {row}) /\ Len(new) = Len(rows) + 1
        /\ \A i \in 1..Len(rows) : i \in 1..Len(new) /\ new[i] = rows[i]
        /\ Len(rows) + 1 \in 1..Len(new) /\ new[Len(rows) + 1] = row
        /\ \A i \in 1..Len(new) : i \in 1..Len(rows) \/ i = Len(rows) + 1
    BY <2>1, <2>2
  <2>4. \A i \in 1..Len(rows) : rows[i].candidate_ref # ref
    BY <1>10, <1>11
  <2>5. ASSUME NEW i \in 1..Len(new)
        PROVE  /\ Places(s, voided, n + 1, new[i].candidate_ref) # {}
               /\ new[i] = GivenLast(s, Places(s, voided, n + 1, new[i].candidate_ref))
    <3>1. CASE i \in 1..Len(rows)
      <4>1. new[i] = rows[i] /\ rows[i].candidate_ref # ref
        BY <2>3, <2>4, <3>1
      <4>2. QED
        BY <1>8, <1>9, <3>1, <4>1
    <3>2. CASE i = Len(rows) + 1
      <4>1. new[i] = row /\ new[i].candidate_ref = ref
        BY <1>7, <2>3, <3>2
      <4>2. QED
        BY <1>5, <1>7, <4>1
    <3>3. QED
      BY <2>3, <3>1, <3>2
  <2>6. ASSUME NEW i \in 1..Len(new), NEW j \in 1..Len(new),
               new[i].candidate_ref = new[j].candidate_ref
        PROVE  i = j
    <3>1. \A k \in 1..Len(new) : k \in 1..Len(rows) => new[k] = rows[k]
      BY <2>3
    <3>2. \A k \in 1..Len(new) :
              k \in 1..Len(rows) <=> new[k].candidate_ref # ref
      BY <1>4, <1>7, <2>3, <2>4
    <3>3. CASE i \in 1..Len(rows) /\ j \in 1..Len(rows)
      BY <1>9, <2>6, <3>1, <3>3
    <3>4. CASE i \notin 1..Len(rows) /\ j \notin 1..Len(rows)
      BY <2>3, <3>4
    <3>5. QED
      BY <2>6, <3>2, <3>3, <3>4
  <2>7. \A j \in 1..n + 1 : ~Skipped(s[j], voided) =>
            \E i \in 1..Len(new) : new[i].candidate_ref = TxOf(s[j]).candidate_ref
    <3> SUFFICES ASSUME NEW j \in 1..n + 1, ~Skipped(s[j], voided)
                 PROVE  \E i \in 1..Len(new) : new[i].candidate_ref = TxOf(s[j]).candidate_ref
      OBVIOUS
    <3>1. CASE j = n + 1
      BY <1>7, <2>3, <3>1
    <3>2. CASE j # n + 1
      <4>1. j \in 1..n
        BY <3>2
      <4>2. QED
        BY <1>9, <2>3, <4>1
    <3>3. QED
      BY <3>1, <3>2
  <2>8. QED
    BY <1>1, <2>3, <2>5, <2>6, <2>7 DEF ReplayedUpTo, IsSequence
<1>12. CASE at # {}
  <2>1. new = [i \in 1..Len(rows) |-> IF i \in at THEN row ELSE rows[i]]
    BY <1>4, <1>12
  <2>2. rows \in [1..Len(rows) -> S]
    BY <1>3
  <2> HIDE DEF new
  <2>3. new \in [1..Len(rows) -> S \cup {row}]
    BY <2>1, <2>2
  <2>4. new \in Seq(S \cup {row}) /\ Len(new) = Len(rows)
    BY <1>4, <2>3
  <2>5. \A i \in 1..Len(rows) : /\ rows[i].candidate_ref = ref => new[i] = row
                                /\ rows[i].candidate_ref # ref => new[i] = rows[i]
                                /\ new[i].candidate_ref = rows[i].candidate_ref
    BY <1>7, <1>10, <2>1
  <2>6. ASSUME NEW i \in 1..Len(new)
        PROVE  /\ Places(s, voided, n + 1, new[i].candidate_ref) # {}
               /\ new[i] = GivenLast(s, Places(s, voided, n + 1, new[i].candidate_ref))
    <3>1. CASE rows[i].candidate_ref = ref
      <4>1. new[i] = row /\ new[i].candidate_ref = ref
        BY <2>4, <2>5, <3>1
      <4>2. QED
        BY <1>5, <1>7, <4>1
    <3>2. CASE rows[i].candidate_ref # ref
      BY <1>8, <1>9, <2>4, <2>5, <3>2
    <3>3. QED
      BY <3>1, <3>2
  <2>7. \A i, j \in 1..Len(new) : new[i].candidate_ref = new[j].candidate_ref => i = j
    BY <1>9, <2>4, <2>5
  <2>8. \A j \in 1..n + 1 : ~Skipped(s[j], voided) =>
            \E i \in 1..Len(new) : new[i].candidate_ref = TxOf(s[j]).candidate_ref
    <3> SUFFICES ASSUME NEW j \in 1..n + 1, ~Skipped(s[j], voided)
                 PROVE  \E i \in 1..Len(new) : new[i].candidate_ref = TxOf(s[j]).candidate_ref
      OBVIOUS
    <3>1. CASE j = n + 1
      BY <1>4, <1>10, <1>12, <2>4, <2>5, <3>1 DEF at
    <3>2. CASE j # n + 1
      <4>1. j \in 1..n
        BY <3>2
      <4>2. QED
        BY <1>9, <2>4, <2>5, <4>1
    <3>3. QED
      BY <3>1, <3>2
  <2>9. QED
    BY <1>1, <2>4, <2>6, <2>7, <2>8 DEF ReplayedUpTo, IsSequence
<1>13. QED
  BY <1>11, <1>12

LEMMA ReplayedChain ==
    ASSUME NEW s, ChainOK(s)
    PROVE  ReplayedUpTo(Replay(s), s, VoidedTxIds(s), Len(s))
<1> DEFINE voided == VoidedTxIds(s)
<1>1. PICK f : /\ f[0] = <<>>
               /\ \A n \in 1..Len(s) : f[n] = AfterBlock(s, voided, f[n - 1], n)
               /\ Replay(s) = f[Len(s)]
  BY ReplayIsRun DEF ChainOK
<1> HIDE DEF voided
<1> DEFINE S == {n \in Nat : n <= Len(s) => ReplayedUpTo(f[n], s, voided, n)}
<1>2. Len(s) \in Nat
  BY DEF ChainOK, IsSequence
<1>3. 0 \in S
  <2>1. IsSequence(f[0]) /\ 1..Len(f[0]) = {}
    BY <1>1, ShortSequences
  <2>2. 1..0 = {}
    OBVIOUS
  <2>3. QED
    BY <2>1, <2>2 DEF ReplayedUpTo
<1>4. ASSUME NEW n \in S PROVE n + 1 \in S
  <2>1. SUFFICES ASSUME n + 1 <= Len(s) PROVE ReplayedUpTo(f[n + 1], s, voided, n + 1)
    OBVIOUS
  <2>2. n + 1 \in 1..Len(s) /\ (n + 1) - 1 = n /\ n <= Len(s)
    BY <1>2, <2>1
  <2>3. f[n + 1] = AfterBlock(s, voided, f[n], n + 1) /\ ReplayedUpTo(f[n], s, voided, n)
    BY <1>1, <2>2
  <2>4. CASE Skipped(s[n + 1], voided)
    <3>1. f[n + 1] = f[n]
      BY <2>3, <2>4 DEF AfterBlock
    <3>2. ASSUME NEW ref PROVE Places(s, voided, n + 1, ref) = Places(s, voided, n, ref)
      BY <2>4, PlaceNotAdded
    <3>3. \A j \in 1..n + 1 : j \in 1..n \/ j = n + 1
      OBVIOUS
    <3>4. QED
      BY <2>3, <2>4, <3>1, <3>2, <3>3 DEF ReplayedUpTo
  <2>5. CASE ~Skipped(s[n + 1], voided)
    <3>1. f[n + 1] = ReplayBlock(f[n], s[n + 1])
      BY <2>3, <2>5 DEF AfterBlock
    <3>2. QED
      BY <2>2, <2>3, <2>5, <3>1, ReplayedBlock
  <2>6. QED
    BY <2>4, <2>5
<1>5. \A n \in Nat : n \in S
  <2> HIDE DEF S
  <2>1. S \in SUBSET Nat
    BY DEF S
  <2>2. QED
    BY <1>3, <1>4, <2>1, Induction
<1>6. QED
  BY <1>1, <1>2, <1>5 DEF voided

\* The fold of resyncFromGenesis gives each field of a candidate the value that
\* was given to it last by a transaction that counts, whatever chain the
\* submissions, migrations, failures and restarts have left in memory.
THEOREM ReplayComputesLastValues == CandidateSpec => []ReplayIsLastValue
<1>1. TypesInv => ReplayIsLastValue
  <2> SUFFICES ASSUME TypesInv, NEW row \in Replayed(candidateChain)
               PROVE  row = LastValues(candidateChain, row.candidate_ref)
    BY DEF ReplayIsLastValue
  <2> DEFINE s == candidateChain
             rows == Replay(s)
             voided == VoidedTxIds(s)
  <2>1. ReplayedUpTo(rows, s, voided, Len(s)) /\ IsSequence(s)
    BY ReplayedChain DEF TypesInv, ChainOK
  <2>2. DOMAIN rows = 1..Len(rows) /\ DOMAIN s = 1..Len(s)
    BY <2>1 DEF ReplayedUpTo, IsSequence
  <2>3. PICK i \in 1..Len(rows) : row = rows[i]
    BY <2>2 DEF Replayed
  <2>4. row = GivenLast(s, Places(s, voided, Len(s), row.candidate_ref))
    BY <2>1, <2>3 DEF ReplayedUpTo
  <2>5. LastValues(s, row.candidate_ref) =
            GivenLast(s, Places(s, voided, Len(s), row.candidate_ref))
    BY <2>2 DEF LastValues, Places
  <2>6. QED
    BY <2>4, <2>5
<1>2. QED
  BY <1>1, TypesInvariant, PTL

(***************************************************************************)
(* The table of blocks and the chain in memory, while nothing fails.       *)
(***************************************************************************)
Saving(k, b) == queue[k].stmt = SavesTx /\ queue[k].block.block = b

Indexed(s) == \A i \in 1..Len(s) : s[i].index = i - 1

\* The table is the beginning of the chain in memory; each of the other blocks
\* is in an insert under way, and those are in the order of the chain.
Reflected ==
    /\ Len(candidate_blocks) <= Len(candidateChain)
    /\ \A i \in 1..Len(candidate_blocks) : candidateChain[i] = candidate_blocks[i]
    /\ Indexed(candidateChain)
    /\ \A i \in 1..Len(candidateChain) : i > Len(candidate_blocks) =>
          \E k \in 1..Len(queue) : Saving(k, candidateChain[i])
    /\ \A k \in 1..Len(queue) : queue[k].stmt = SavesTx =>
          \E i \in 1..Len(candidateChain) :
              i > Len(candidate_blocks) /\ queue[k].block.block = candidateChain[i]
    /\ \A j, k \in 1..Len(queue) :
          j < k /\ queue[j].stmt = SavesTx /\ queue[k].stmt = SavesTx =>
              queue[j].block.block.index < queue[k].block.block.index

MirrorInv ==
    /\ ~up => \A k \in 1..Len(queue) : queue[k].stmt \notin CandidateSteps
    /\ Indexed(candidate_blocks)
    /\ up => Reflected

Sized == IsSequence(queue) /\ IsSequence(candidateChain) /\ IsSequence(candidate_blocks)

LEMMA Sizes ==
    ASSUME Sized
    PROVE  /\ Len(queue) \in Nat /\ Len(candidateChain) \in Nat /\ Len(candidate_blocks) \in Nat
           /\ queue # <<>> => Head(queue) = queue[1] /\ 1 \in 1..Len(queue)
           /\ \A b : /\ Len(Append(candidate_blocks, b)) = Len(candidate_blocks) + 1
                     /\ Append(candidate_blocks, b)[Len(candidate_blocks) + 1] = b
                     /\ \A i \in 1..Len(candidate_blocks) :
                           Append(candidate_blocks, b)[i] = candidate_blocks[i]
           /\ \A b : /\ Len(Append(candidateChain, b)) = Len(candidateChain) + 1
                     /\ Append(candidateChain, b)[Len(candidateChain) + 1] = b
                     /\ \A i \in 1..Len(candidateChain) :
                           Append(candidateChain, b)[i] = candidateChain[i]
<1>1. ASSUME NEW s, IsSequence(s), NEW b
      PROVE  /\ Len(s) \in Nat /\ Len(Append(s, b)) = Len(s) + 1
             /\ Append(s, b)[Len(s) + 1] = b
             /\ \A i \in 1..Len(s) : Append(s, b)[i] = s[i]
  <2>1. PICK S : s \in Seq(S)
    BY <1>1 DEF IsSequence
  <2>2. s \in Seq(S \cup {b})
    BY <2>1
  <2>3. QED
    BY <2>1, <2>2
<1>2. queue # <<>> => Head(queue) = queue[1] /\ 1 \in 1..Len(queue)
  BY DEF Sized, IsSequence
<1>3. QED
  BY <1>1, <1>2 DEF Sized

\* The oldest insert is of the first block that is not in the table.
LEMMA FirstSaving ==
    ASSUME Sized, Reflected, queue # <<>>, Head(queue).stmt = SavesTx
    PROVE  /\ Len(candidate_blocks) + 1 \in 1..Len(candidateChain)
           /\ Head(queue).block.block = candidateChain[Len(candidate_blocks) + 1]
           /\ Head(queue).block.block.index = Len(candidate_blocks)
<1> DEFINE n == Len(candidate_blocks) + 1
           b == Head(queue).block.block
<1>1. PICK i \in 1..Len(candidateChain) : i > Len(candidate_blocks) /\ b = candidateChain[i]
  BY Sizes DEF Reflected
<1>2. n \in 1..Len(candidateChain) /\ n > Len(candidate_blocks) /\ n <= i
  BY <1>1, Sizes
<1>3. PICK k \in 1..Len(queue) : Saving(k, candidateChain[n])
  BY <1>2 DEF Reflected
<1>4. candidateChain[n].index = n - 1 /\ candidateChain[i].index = i - 1
  BY <1>2 DEF Reflected, Indexed
<1>5. k = 1 => i = n
  BY <1>1, <1>2, <1>3, <1>4, Sizes DEF Saving
<1>6. k # 1 => FALSE
  <2>1. SUFFICES ASSUME k # 1 PROVE FALSE
    OBVIOUS
  <2>2. b.index < candidateChain[n].index
    BY <1>3, <2>1, Sizes DEF Reflected, Saving
  <2>3. QED
    BY <1>1, <1>2, <1>4, <2>2
<1>7. QED
  BY <1>1, <1>2, <1>4, <1>5, <1>6, Sizes

LEMMA NoInsertRefused ==
    ASSUME Sized, Indexed(candidate_blocks), Reflected, queue # <<>>,
           Head(queue).stmt = SavesTx
    PROVE  ~RejectedCandidates(Head(queue))
<1> DEFINE n == Len(candidate_blocks)
<1>1. Head(queue).block.block.index = n /\ n \in Nat
  BY FirstSaving, Sizes
<1>2. DOMAIN candidate_blocks = 1..n
  BY DEF Sized, IsSequence
<1>3. \A i \in 1..n : candidate_blocks[i].index = i - 1
  BY DEF Indexed
<1>4. \A i \in DOMAIN candidate_blocks : candidate_blocks[i].index # n
  BY <1>1, <1>2, <1>3
<1>5. QED
  BY <1>1, <1>4 DEF RejectedCandidates, SavesTx

\* Which inserts there are after a step.
LEMMA InsertsSlide ==
    ASSUME Sized, NEW d, NEW New, Slides(d, New)
    PROVE  /\ \A i \in 1..Len(queue') : queue'[i].stmt = SavesTx =>
                 \/ i + d \in 1..Len(queue) /\ queue'[i] = queue[i + d]
                 \/ i + d = Len(queue) + 1 /\ queue'[i] \in New
           /\ \A k \in 1..Len(queue) : queue[k].stmt = SavesTx =>
                 \/ d = 1 /\ k = 1
                 \/ k - d \in 1..Len(queue') /\ queue'[k - d] = queue[k]
<1>1. SavesTx \in CandidateSteps
  BY DEF CandidateSteps
<1>2. QED
  BY <1>1, Sizes DEF Slides

LEMMA InsertsKept ==
    ASSUME Sized, Reflected, NEW d, NEW New, Slides(d, New), \A q \in New : q.stmt # SavesTx,
           d = 1 => queue # <<>> /\ Head(queue).stmt # SavesTx,
           UNCHANGED <<candidate_blocks, candidateChain>>
    PROVE  Reflected'
<1>1. d \in {0, 1}
  BY DEF Slides
<1>2. /\ \A i \in 1..Len(queue') : queue'[i].stmt = SavesTx =>
            i + d \in 1..Len(queue) /\ queue'[i] = queue[i + d]
      /\ \A k \in 1..Len(queue) : queue[k].stmt = SavesTx =>
            k - d \in 1..Len(queue') /\ queue'[k - d] = queue[k]
  BY InsertsSlide, Sizes
<1>3. ASSUME NEW i \in 1..Len(candidateChain'), i > Len(candidate_blocks')
      PROVE  \E k \in 1..Len(queue') : Saving(k, candidateChain[i])'
  <2>1. PICK k \in 1..Len(queue) : Saving(k, candidateChain[i])
    BY <1>3 DEF Reflected
  <2>2. k - d \in 1..Len(queue') /\ queue'[k - d] = queue[k]
    BY <1>2, <2>1 DEF Saving
  <2>3. QED
    BY <2>1, <2>2 DEF Saving
<1>4. ASSUME NEW k \in 1..Len(queue'), queue'[k].stmt = SavesTx
      PROVE  \E i \in 1..Len(candidateChain') :
                 i > Len(candidate_blocks') /\ queue'[k].block.block = candidateChain'[i]
  <2>1. k + d \in 1..Len(queue) /\ queue'[k] = queue[k + d] /\ queue[k + d].stmt = SavesTx
    BY <1>2, <1>4
  <2>2. \A l \in 1..Len(queue) : queue[l].stmt = SavesTx =>
            \E i \in 1..Len(candidateChain) :
                i > Len(candidate_blocks) /\ queue[l].block.block = candidateChain[i]
    BY DEF Reflected
  <2>3. PICK i \in 1..Len(candidateChain) :
            i > Len(candidate_blocks) /\ queue[k + d].block.block = candidateChain[i]
    BY <2>1, <2>2
  <2>4. QED
    BY <2>1, <2>3
<1>5. ASSUME NEW j \in 1..Len(queue'), NEW k \in 1..Len(queue'),
             j < k, queue'[j].stmt = SavesTx, queue'[k].stmt = SavesTx
      PROVE  queue'[j].block.block.index < queue'[k].block.block.index
  <2>1. j + d < k + d
    BY <1>1, <1>5
  <2>2. /\ j + d \in 1..Len(queue) /\ k + d \in 1..Len(queue)
        /\ queue'[j] = queue[j + d] /\ queue'[k] = queue[k + d]
    BY <1>2, <1>5
  <2>3. QED
    BY <1>5, <2>1, <2>2 DEF Reflected
<1>6. QED
  BY <1>3, <1>4, <1>5 DEF Reflected, Indexed

LEMMA InsertBegun ==
    ASSUME Sized, Reflected, NEW q, Slides(1, {q}), queue # <<>>, Head(queue).stmt # SavesTx,
           q.stmt = SavesTx, NEW b, q.block.block = b, b.index = Len(candidateChain),
           candidate_blocks' = candidate_blocks, candidateChain' = Append(candidateChain, b)
    PROVE  Reflected'
<1> DEFINE n == Len(candidateChain)
           m == Len(queue)
<1>1. /\ n \in Nat /\ m \in Nat /\ Len(candidateChain') = n + 1 /\ candidateChain'[n + 1] = b
      /\ \A i \in 1..n : candidateChain'[i] = candidateChain[i]
      /\ Len(candidate_blocks) \in Nat /\ Len(candidate_blocks) <= n /\ Head(queue) = queue[1]
  BY Sizes DEF Reflected
<1>2. /\ \A i \in 1..Len(queue') : queue'[i].stmt = SavesTx =>
            \/ i + 1 \in 1..m /\ queue'[i] = queue[i + 1]
            \/ i + 1 = m + 1 /\ queue'[i] = q
      /\ \A k \in 1..m : queue[k].stmt = SavesTx =>
            k - 1 \in 1..Len(queue') /\ queue'[k - 1] = queue[k]
  <2>1. Slides(1, {q})
    OBVIOUS
  <2>2. /\ \A i \in 1..Len(queue') : queue'[i].stmt = SavesTx =>
               \/ i + 1 \in 1..m /\ queue'[i] = queue[i + 1]
               \/ i + 1 = m + 1 /\ queue'[i] \in {q}
        /\ \A k \in 1..m : queue[k].stmt = SavesTx =>
               \/ k = 1
               \/ k - 1 \in 1..Len(queue') /\ queue'[k - 1] = queue[k]
    BY <2>1, InsertsSlide
  <2>3. queue[1].stmt # SavesTx
    BY <1>1
  <2>4. QED
    BY <2>2, <2>3
<1>3. m \in 1..Len(queue') /\ queue'[m] = q
  <2>1. m + 1 - 1 = m
    BY <1>1
  <2>2. QED
    BY <2>1 DEF Slides
<1>4. ASSUME NEW i \in 1..n + 1 PROVE candidateChain'[i].index = i - 1
  <2>1. CASE i = n + 1
    BY <1>1, <2>1
  <2>2. CASE i # n + 1
    <3>1. i \in 1..n
      BY <1>1, <2>2
    <3>2. QED
      BY <1>1, <3>1 DEF Reflected, Indexed
  <2>3. QED
    BY <2>1, <2>2
<1>5. ASSUME NEW i \in 1..n + 1, i > Len(candidate_blocks)
      PROVE  \E k \in 1..Len(queue') : Saving(k, candidateChain[i])'
  <2>1. CASE i = n + 1
    BY <1>1, <1>3, <2>1 DEF Saving
  <2>2. CASE i # n + 1
    <3>1. i \in 1..n
      BY <1>1, <2>2
    <3>2. PICK k \in 1..m : Saving(k, candidateChain[i])
      BY <1>5, <3>1 DEF Reflected
    <3>3. k - 1 \in 1..Len(queue') /\ queue'[k - 1] = queue[k]
      BY <1>2, <3>2 DEF Saving
    <3>4. QED
      BY <1>1, <3>1, <3>2, <3>3 DEF Saving
  <2>3. QED
    BY <2>1, <2>2
<1>6. \A k \in 1..m : queue[k].stmt = SavesTx =>
          \E i \in 1..n : i > Len(candidate_blocks) /\ queue[k].block.block = candidateChain[i]
  BY DEF Reflected
<1>7. ASSUME NEW k \in 1..Len(queue'), queue'[k].stmt = SavesTx
      PROVE  \E i \in 1..n + 1 :
                 i > Len(candidate_blocks) /\ queue'[k].block.block = candidateChain'[i]
  <2>1. CASE k + 1 \in 1..m /\ queue'[k] = queue[k + 1]
    <3>1. PICK i \in 1..n :
              i > Len(candidate_blocks) /\ queue[k + 1].block.block = candidateChain[i]
      BY <1>6, <1>7, <2>1
    <3>2. i \in 1..n + 1
      BY <1>1
    <3>3. QED
      BY <1>1, <2>1, <3>1, <3>2
  <2>2. CASE queue'[k] = q
    BY <1>1, <2>2
  <2>3. QED
    BY <1>2, <1>7, <2>1, <2>2
<1>8. ASSUME NEW j \in 1..Len(queue'), NEW k \in 1..Len(queue'),
             j < k, queue'[j].stmt = SavesTx, queue'[k].stmt = SavesTx
      PROVE  queue'[j].block.block.index < queue'[k].block.block.index
  <2>1. j + 1 \in 1..m /\ queue'[j] = queue[j + 1]
    <3>1. j + 1 = m + 1 => k + 1 > m + 1
      BY <1>1, <1>8
    <3>2. k + 1 \in 1..m \/ k + 1 = m + 1
      BY <1>2, <1>8
    <3>3. QED
      BY <1>1, <1>2, <1>8, <3>1, <3>2
  <2>2. CASE k + 1 \in 1..m /\ queue'[k] = queue[k + 1]
    BY <1>8, <2>1, <2>2 DEF Reflected
  <2>3. CASE queue'[k] = q
    <3>1. PICK i \in 1..n : queue[j + 1].block.block = candidateChain[i]
      BY <1>6, <1>8, <2>1
    <3>2. candidateChain[i].index = i - 1 /\ i - 1 < n
      BY <1>1 DEF Reflected, Indexed
    <3>3. QED
      BY <2>1, <2>3, <3>1, <3>2
  <2>4. QED
    BY <1>2, <1>8, <2>2, <2>3
<1>9. \A i \in 1..Len(candidate_blocks) : candidateChain'[i] = candidate_blocks[i]
  BY <1>1 DEF Reflected
<1>10. Len(candidate_blocks) <= n + 1
  BY <1>1
<1>11. Indexed(candidateChain')
  BY <1>1, <1>4 DEF Indexed
<1> HIDE DEF n, m
<1>12. QED
  BY <1>1, <1>5, <1>7, <1>8, <1>9, <1>10, <1>11 DEF Reflected

LEMMA InsertDone ==
    ASSUME Sized, Reflected, NEW New, Slides(1, New), queue # <<>>, Head(queue).stmt = SavesTx,
           \A q \in New : q.stmt # SavesTx,
           candidate_blocks' = Append(candidate_blocks, Head(queue).block.block),
           candidateChain' = candidateChain
    PROVE  Reflected'
<1> DEFINE c == Len(candidate_blocks)
           n == Len(candidateChain)
           m == Len(queue)
<1>1. /\ n \in Nat /\ m \in Nat /\ c \in Nat /\ Len(candidate_blocks') = c + 1
      /\ candidate_blocks'[c + 1] = Head(queue).block.block /\ Head(queue) = queue[1]
      /\ \A i \in 1..c : candidate_blocks'[i] = candidate_blocks[i]
      /\ 1 \in 1..m
  BY Sizes
<1>2. /\ c + 1 \in 1..n /\ Head(queue).block.block = candidateChain[c + 1]
      /\ Head(queue).block.block.index = c
  BY FirstSaving
<1>3. /\ \A i \in 1..Len(queue') : queue'[i].stmt = SavesTx =>
            i + 1 \in 1..m /\ queue'[i] = queue[i + 1]
      /\ \A k \in 1..m : queue[k].stmt = SavesTx =>
            k = 1 \/ (k - 1 \in 1..Len(queue') /\ queue'[k - 1] = queue[k])
  BY InsertsSlide
<1>4. /\ \A i \in 1..n : candidateChain[i].index = i - 1
      /\ \A i \in 1..n : i > c => \E k \in 1..m : Saving(k, candidateChain[i])
      /\ \A k \in 1..m : queue[k].stmt = SavesTx =>
            \E i \in 1..n : i > c /\ queue[k].block.block = candidateChain[i]
      /\ \A j, k \in 1..m :
            j < k /\ queue[j].stmt = SavesTx /\ queue[k].stmt = SavesTx =>
                queue[j].block.block.index < queue[k].block.block.index
      /\ \A i \in 1..c : candidateChain[i] = candidate_blocks[i]
  BY DEF Reflected, Indexed
<1> HIDE DEF n, m, c
<1>5. ASSUME NEW i \in 1..n, i > c + 1
      PROVE  \E k \in 1..Len(queue') : Saving(k, candidateChain[i])'
  <2>1. i > c
    BY <1>1, <1>5
  <2>2. PICK k \in 1..m : Saving(k, candidateChain[i])
    BY <1>4, <2>1
  <2>3. candidateChain[i].index # c
    BY <1>1, <1>4, <1>5
  <2>4. k # 1
    BY <1>1, <1>2, <2>2, <2>3 DEF Saving
  <2>5. k - 1 \in 1..Len(queue') /\ queue'[k - 1] = queue[k]
    BY <1>3, <2>2, <2>4 DEF Saving
  <2>6. QED
    BY <2>2, <2>5 DEF Saving
<1>6. ASSUME NEW k \in 1..Len(queue'), queue'[k].stmt = SavesTx
      PROVE  \E i \in 1..n : i > c + 1 /\ queue'[k].block.block = candidateChain[i]
  <2>1. k + 1 \in 1..m /\ queue'[k] = queue[k + 1] /\ 1 < k + 1
    BY <1>3, <1>6
  <2>2. PICK i \in 1..n : i > c /\ queue[k + 1].block.block = candidateChain[i]
    BY <1>4, <1>6, <2>1
  <2>3. c < candidateChain[i].index
    <3>1. queue[1].stmt = SavesTx /\ queue[1].block.block.index = c
      BY <1>1, <1>2
    <3>2. queue[k + 1].stmt = SavesTx
      BY <1>6, <2>1
    <3>3. queue[1].block.block.index < queue[k + 1].block.block.index
      BY <1>1, <1>4, <2>1, <3>1, <3>2
    <3>4. QED
      BY <2>2, <3>1, <3>3
  <2>4. i > c + 1
    BY <1>1, <1>4, <2>3
  <2>5. QED
    BY <2>1, <2>2, <2>4
<1>7. ASSUME NEW j \in 1..Len(queue'), NEW k \in 1..Len(queue'),
             j < k, queue'[j].stmt = SavesTx, queue'[k].stmt = SavesTx
      PROVE  queue'[j].block.block.index < queue'[k].block.block.index
  <2>1. /\ j + 1 \in 1..m /\ k + 1 \in 1..m /\ j + 1 < k + 1
        /\ queue'[j] = queue[j + 1] /\ queue'[k] = queue[k + 1]
    BY <1>3, <1>7
  <2>2. QED
    BY <1>4, <1>7, <2>1
<1>8. \A i \in 1..c + 1 : candidateChain[i] = candidate_blocks'[i]
  <2>1. SUFFICES ASSUME NEW i \in 1..c + 1, i # c + 1 PROVE i \in 1..c
    BY <1>1, <1>2, <1>4
  <2>2. QED
    BY <1>1, <2>1
<1>9. c + 1 <= n
  BY <1>2
<1>10. QED
  BY <1>1, <1>4, <1>5, <1>6, <1>7, <1>8, <1>9 DEF Reflected, Indexed, n

LEMMA GrownIndex ==
    ASSUME NEW s, IsSequence(s), Indexed(s), NEW b, b.index = Len(s)
    PROVE  Indexed(Append(s, b))
<1> DEFINE t == Append(s, b)
<1>1. /\ Len(s) \in Nat /\ Len(t) = Len(s) + 1 /\ t[Len(s) + 1] = b
      /\ \A i \in 1..Len(s) : t[i] = s[i]
  <2>1. PICK S : s \in Seq(S)
    BY DEF IsSequence
  <2>2. s \in Seq(S \cup {b})
    BY <2>1
  <2>3. QED
    BY <2>1, <2>2
<1>2. \A i \in 1..Len(s) : s[i].index = i - 1
  BY DEF Indexed
<1> HIDE DEF t
<1>3. \A i \in 1..Len(t) : i = Len(s) + 1 \/ i \in 1..Len(s)
  BY <1>1
<1>4. ASSUME NEW i \in 1..Len(t) PROVE t[i].index = i - 1
  BY <1>1, <1>2, <1>3
<1>5. QED
  BY <1>4 DEF Indexed, t

\* A restart reads the ledger back as it was.
LEMMA SameOrder ==
    ASSUME NEW n \in Nat, NEW p \in [1..n -> 1..n], \A i, j \in 1..n : i < j => p[i] < p[j]
    PROVE  \A i \in 1..n : p[i] = i
<1> DEFINE Up   == {k \in Nat : k \in 1..n => k <= p[k]}
           Down == {k \in Nat : k < n => p[n - k] <= n - k}
<1>1. \A k \in Nat : k \in Up
  <2>1. 0 \in Up /\ Up \in SUBSET Nat
    OBVIOUS
  <2>2. ASSUME NEW k \in Up PROVE k + 1 \in Up
    <3>1. SUFFICES ASSUME k + 1 \in 1..n, k # 0 PROVE k + 1 <= p[k + 1]
      <4>1. k = 0 /\ k + 1 \in 1..n => k + 1 <= p[k + 1]
        OBVIOUS
      <4>2. QED
        BY <3>1, <4>1
    <3>2. k \in 1..n /\ k < k + 1 /\ k <= p[k]
      BY <3>1
    <3>3. p[k] < p[k + 1] /\ p[k] \in Nat /\ p[k + 1] \in Nat
      <4>1. k \in 1..n /\ k + 1 \in 1..n /\ k < k + 1
        BY <3>1, <3>2
      <4>2. p[k] \in 1..n /\ p[k + 1] \in 1..n
        BY <4>1
      <4>3. p[k] < p[k + 1]
        BY <4>1
      <4>4. QED
        BY <4>2, <4>3
    <3>4. QED
      BY <3>2, <3>3
  <2> HIDE DEF Up
  <2>3. QED
    BY <2>1, <2>2, Induction
<1>2. \A k \in Nat : k \in Down
  <2>1. 0 \in Down /\ Down \in SUBSET Nat
    OBVIOUS
  <2>2. ASSUME NEW k \in Down PROVE k + 1 \in Down
    <3>1. SUFFICES ASSUME k + 1 < n PROVE p[n - (k + 1)] <= n - (k + 1)
      OBVIOUS
    <3>2. /\ n - (k + 1) \in 1..n /\ n - k \in 1..n /\ n - (k + 1) < n - k
          /\ p[n - k] <= n - k
      BY <3>1
    <3>3. /\ p[n - (k + 1)] < p[n - k]
          /\ p[n - (k + 1)] \in Nat /\ p[n - k] \in Nat
      BY <3>2
    <3>4. QED
      BY <3>2, <3>3
  <2> HIDE DEF Down
  <2>3. QED
    BY <2>1, <2>2, Induction
<1>3. ASSUME NEW i \in 1..n PROVE p[i] = i
  <2>1. i <= p[i]
    BY <1>1
  <2>2. n - i \in Nat /\ n - i < n /\ n - (n - i) = i
    OBVIOUS
  <2>3. p[n - (n - i)] <= n - (n - i)
    BY <1>2, <2>2
  <2>4. p[i] \in 1..n
    OBVIOUS
  <2>5. QED
    BY <2>1, <2>2, <2>3, <2>4
<1>4. QED
  BY <1>3

LEMMA LoadedAsSaved ==
    ASSUME NEW s, IsSequence(s), Indexed(s), NEW c \in LoadOrders(s)
    PROVE  c = s
<1> DEFINE n == Len(s)
<1>1. PICK p \in [1..n -> 1..n] :
          /\ c = [i \in 1..n |-> s[p[i]]]
          /\ \A i, j \in 1..n : i < j => p[i] # p[j] /\ s[p[i]].index <= s[p[j]].index
  BY DEF LoadOrders
<1>2. n \in Nat /\ s = [i \in 1..n |-> s[i]]
  BY DEF IsSequence
<1>3. \A i \in 1..n : s[i].index = i - 1
  BY DEF Indexed
<1> HIDE DEF n
<1>4. ASSUME NEW i \in 1..n, NEW j \in 1..n, i < j PROVE p[i] < p[j]
  <2>1. p[i] \in 1..n /\ p[j] \in 1..n
    OBVIOUS
  <2>2. p[i] # p[j] /\ p[i] - 1 <= p[j] - 1
    BY <1>1, <1>3, <1>4, <2>1
  <2>3. QED
    BY <2>1, <2>2
<1>5. \A i \in 1..n : p[i] = i
  BY <1>2, <1>4, SameOrder
<1>6. QED
  BY <1>1, <1>2, <1>5

LEMMA ResyncStatement ==
    ASSUME NEW r
    PROVE  Resync(r).req = r /\ Resync(r).stmt \in {"SELECT id", "UPDATE sync_state"}
BY WriteStatement DEF Resync

LEMMA NextMirror ==
    ASSUME LockInv, MirrorInv, [CandidateNext]_allVars, faults = 0, faults' = 0
    PROVE  MirrorInv'
<1>1. Sized /\ candidate_blocks # <<>>
  BY DEF Sized, LockInv, QueueRight, LedgersRight, LedgerOK
<1>2. Indexed(candidate_blocks)
  BY DEF MirrorInv
<1>3. SavesTx \in CandidateSteps
  BY DEF CandidateSteps
<1>4. CASE Aside
  <2>1. PICK d : /\ Slides(d, {})
                 /\ d = 1 => queue # <<>> /\ Head(queue).stmt \notin CandidateSteps
    BY <1>4 DEF Aside
  <2>2. UNCHANGED <<candidate_blocks, candidateChain>> /\ up' = up
    BY <1>4 DEF Aside, candidateVars, candidateTables
  <2>3. CASE up
    <3>1. Reflected'
      BY <1>1, <1>3, <2>1, <2>2, <2>3, InsertsKept DEF MirrorInv
    <3>2. QED
      BY <1>2, <2>2, <2>3, <3>1 DEF MirrorInv, Indexed
  <2>4. CASE ~up
    <3>1. \A k \in 1..Len(queue') : queue'[k].stmt \notin CandidateSteps
      BY <2>1, <2>4 DEF Slides, MirrorInv
    <3>2. QED
      BY <1>2, <2>2, <2>4, <3>1 DEF MirrorInv, Indexed
  <2>5. QED
    BY <2>3, <2>4
<1>5. ASSUME NEW r, NEW q, Comes(r, q) PROVE MirrorInv'
  <2>1. /\ UNCHANGED <<candidate_blocks, candidateChain>> /\ up /\ up' = up /\ Slides(0, {q})
    BY <1>5 DEF Comes, candidateVars, candidateTables
  <2>2. q.stmt # SavesTx
    BY <1>5, ResyncStatement DEF Comes, SavesTx
  <2>3. Reflected'
    BY <1>1, <2>1, <2>2, InsertsKept DEF MirrorInv
  <2>4. QED
    BY <1>2, <2>1, <2>3 DEF MirrorInv, Indexed
<1>6. ASSUME NEW r, Turned(r) PROVE MirrorInv'
  <2>1. /\ CandidateHead(r) /\ queue # <<>> /\ up /\ up' = up /\ Reflected
    BY <1>6 DEF Turned, CandidateHead, MirrorInv
  <2>2. CASE Founders(r)
    <3>1. Head(queue).stmt # SavesTx
      <4>1. RejectedCandidates(Head(queue))
        BY <2>2 DEF Founders
      <4>2. QED
        BY <1>1, <1>2, <2>1, <4>1, NoInsertRefused
    <3>2. UNCHANGED <<candidate_blocks, candidateChain>> /\ Slides(1, {})
      BY <2>2 DEF Founders, candidateVars, candidateTables
    <3>3. Reflected'
      BY <1>1, <2>1, <3>1, <3>2, InsertsKept
    <3>4. QED
      BY <1>2, <2>1, <3>2, <3>3 DEF MirrorInv, Indexed
  <2>3. CASE Succeeded
    <3>1. CASE Head(queue).stmt = SavesTx
      <4>1. candidate_blocks' = Append(candidate_blocks, Head(queue).block.block)
        BY <2>3, <3>1 DEF Succeeded, PerformCandidates, ReadCandidates, SaveTxBlock,
           InsertCandidate, UpdateCandidate, AdoptLegacy, UpdateSyncState, SavesTx
      <4>2. \E New : /\ Slides(1, New) /\ \A q \in New : q.stmt # SavesTx
                     /\ candidateChain' = candidateChain
        <5>1. CASE Slides(1, {}) /\ candidateChain' = candidateChain
          BY <5>1
        <5>2. ASSUME NEW q, Slides(1, {q}), Issues(r, q) PROVE
                  q.stmt # SavesTx /\ candidateChain' = candidateChain
          <6>1. ToProjection(r, q) \/ ToAdoption(r, q)
            BY <3>1, <5>2 DEF Issues, ToExisting, ToLastTxId, ToBlock, Adds, ToUpsert, ToRow,
               ToOtherRows, ToOtherLegacy, SavesTx
          <6>2. QED
            BY <6>1, ResyncStatement DEF ToProjection, ToAdoption, SavesTx
        <5>3. CASE \E q : q.req = r /\ Slides(1, {q}) /\ Issues(r, q) /\ reply' = reply
          <6>1. PICK q : Slides(1, {q}) /\ Issues(r, q)
            BY <5>3
          <6>2. q.stmt # SavesTx /\ candidateChain' = candidateChain
            BY <5>2, <6>1
          <6>3. QED
            BY <6>1, <6>2
        <5>4. QED
          <6>1. ~Founders(r)
            BY <1>1, <1>2, <2>1, <3>1, NoInsertRefused DEF Founders
          <6>2. QED
            BY <1>6, <5>1, <5>3, <6>1 DEF Turned
      <4>3. Reflected'
        BY <1>1, <2>1, <3>1, <4>1, <4>2, InsertDone
      <4>4. Indexed(candidate_blocks')
        BY <1>1, <1>2, <2>1, <3>1, <4>1, Sizes, FirstSaving, GrownIndex DEF Sized
      <4>5. QED
        BY <2>1, <4>3, <4>4 DEF MirrorInv
    <3>2. CASE Head(queue).stmt # SavesTx
      <4>1. candidate_blocks' = candidate_blocks
        BY <2>1, <3>2 DEF CandidateHead
      <4>2. CASE Slides(1, {}) /\ candidateChain' = candidateChain
        BY <1>1, <1>2, <2>1, <3>2, <4>1, <4>2, InsertsKept DEF MirrorInv, Indexed
      <4>3. ASSUME NEW q, Slides(1, {q}), Issues(r, q) PROVE Reflected'
        <5>1. ASSUME NEW row, NEW rows, NEW tx, NEW b, ToBlock(r, q, row, rows, tx, b)
              PROVE  Reflected'
          <6>1. /\ b.index = Len(candidateChain) /\ q.stmt = SavesTx /\ q.block.block = b
                /\ candidateChain' = Append(candidateChain, b)
            BY <5>1 DEF ToBlock
          <6>2. QED
            BY <1>1, <2>1, <3>2, <4>1, <4>3, <6>1, InsertBegun
        <5>2. CASE q.stmt # SavesTx /\ candidateChain' = candidateChain
          BY <1>1, <2>1, <3>2, <4>1, <4>3, <5>2, InsertsKept
        <5>3. \A rows, index : Write(r, rows, index).stmt \in {"SELECT id", "UPDATE sync_state"}
          BY WriteStatement
        <5>4. \/ \E row, rows, tx, b : ToBlock(r, q, row, rows, tx, b)
              \/ q.stmt # SavesTx /\ candidateChain' = candidateChain
          BY <3>2, <4>3, <5>3 DEF Issues, ToExisting, ToLastTxId, ToProjection, ToUpsert,
             ToRow, ToOtherRows, ToAdoption, ToOtherLegacy, SavesTx
        <5>5. QED
          BY <5>1, <5>2, <5>4
      <4>4. QED
        BY <1>1, <1>2, <1>6, <2>1, <2>2, <4>1, <4>2, <4>3 DEF Turned, MirrorInv, Indexed
    <3>3. QED
      BY <3>1, <3>2
  <2>4. QED
    BY <1>6, <2>2, <2>3 DEF Turned
<1>7. CASE Breaks
  <2>1. /\ up /\ ~up' /\ queue' = <<>>
    BY <1>7 DEF Breaks
  <2>2. \A k \in 1..Len(queue') : queue'[k].stmt \notin CandidateSteps
    BY <2>1, ShortSequences
  <2>3. \/ candidate_blocks' = candidate_blocks
        \/ /\ queue # <<>> /\ Head(queue).stmt = SavesTx
           /\ candidate_blocks' = Append(candidate_blocks, Head(queue).block.block)
    BY <1>7 DEF Breaks, candidateTables, PerformCandidates, ReadCandidates, SaveTxBlock,
       InsertCandidate, UpdateCandidate, AdoptLegacy, UpdateSyncState, SavesTx
  <2>4. Indexed(candidate_blocks')
    <3>1. Reflected /\ IsSequence(candidate_blocks)
      BY <1>1, <2>1 DEF MirrorInv, Sized
    <3>2. queue # <<>> /\ Head(queue).stmt = SavesTx =>
              Indexed(Append(candidate_blocks, Head(queue).block.block))
      BY <1>1, <1>2, <3>1, FirstSaving, GrownIndex
    <3>3. QED
      BY <1>2, <2>3, <3>2
  <2>5. QED
    BY <2>1, <2>2, <2>4 DEF MirrorInv
<1>8. CASE Resumes
  <2>1. /\ ~up /\ up' /\ UNCHANGED <<queue, candidate_blocks>>
        /\ candidateChain' \in LoadOrders(candidate_blocks)
    BY <1>8 DEF Resumes
  <2>2. candidateChain' = candidate_blocks
    BY <1>1, <1>2, <2>1, LoadedAsSaved DEF Sized
  <2>3. \A k \in 1..Len(queue) : queue[k].stmt # SavesTx
    BY <1>3, <2>1 DEF MirrorInv
  <2>4. Len(candidate_blocks) \in Nat
    BY <1>1, Sizes
  <2>5. \A i \in 1..Len(candidate_blocks) : ~(i > Len(candidate_blocks))
    BY <2>4
  <2>6. Reflected'
    BY <1>2, <2>1, <2>2, <2>3, <2>4, <2>5 DEF Reflected, Indexed
  <2>7. QED
    BY <1>2, <2>1, <2>6 DEF MirrorInv, Indexed
<1>9. QED
  BY <1>4, <1>5, <1>6, <1>7, <1>8, StepKinds

(***************************************************************************)
(* What a row stands on.                                                   *)
(***************************************************************************)
IsSaved(b) == \E i \in 1..Len(candidate_blocks) : candidate_blocks[i] = b

\* A row is the work of a block of the table, or of an insert ahead of it.
Backed(row) == \E i \in 1..Len(candidate_blocks) : MadeBy(row, candidate_blocks[i])

BackedBefore(row, k) ==
    \/ Backed(row)
    \/ \E j \in 1..k - 1 : queue[j].stmt = SavesTx /\ MadeBy(row, queue[j].block.block)

EntryBacked(q, k) ==
    /\ q.stmt = "SELECT row" => IsSaved(q.block) /\ q.block.index # 0
    /\ q.stmt = "UPDATE legacy" => IsSaved(q.block.block) /\ q.block.block.index # 0
    /\ q.stmt \in Writing => \A i \in 1..Len(q.block.rows) : BackedBefore(q.block.rows[i], k)

QueueBacked == \A k \in 1..Len(queue) : EntryBacked(queue[k], k)

TableBacked ==
    \A id \in DOMAIN candidates :
        candidates[id].candidate_ref # NULL => Backed(candidates[id])

BackedInv == QueueBacked /\ TableBacked

\* A step that loses no saved block.
Keeps ==
    \A i \in 1..Len(candidate_blocks) :
        i \in 1..Len(candidate_blocks') /\ candidate_blocks'[i] = candidate_blocks[i]

HeadSaved ==
    /\ queue # <<>>
    /\ Head(queue).stmt = SavesTx =>
          \E i \in 1..Len(candidate_blocks') : candidate_blocks'[i] = Head(queue).block.block

LEMMA SavedStays ==
    ASSUME Keeps
    PROVE  /\ \A b : IsSaved(b) => IsSaved(b)'
           /\ \A row : Backed(row) => Backed(row)'
<1>1. ASSUME NEW b, IsSaved(b) PROVE IsSaved(b)'
  BY <1>1 DEF Keeps, IsSaved
<1>2. ASSUME NEW row, Backed(row) PROVE Backed(row)'
  <2>1. PICK i \in 1..Len(candidate_blocks) : MadeBy(row, candidate_blocks[i])
    BY <1>2 DEF Backed
  <2>2. i \in 1..Len(candidate_blocks') /\ MadeBy(row, candidate_blocks'[i])
    BY <2>1 DEF Keeps
  <2>3. \E j \in 1..Len(candidate_blocks') : MadeBy(row, candidate_blocks'[j])
    BY <2>2
  <2>4. QED
    BY <2>3 DEF Backed, MadeBy
<1>3. QED
  BY <1>1, <1>2

LEMMA SavedBacks ==
    ASSUME NEW b, IsSaved(b), NEW row, MadeBy(row, b)
    PROVE  Backed(row)
BY DEF IsSaved, Backed

LEMMA BackedMoves ==
    ASSUME Sized, Keeps, NEW d, NEW New, Slides(d, New), d = 1 => HeadSaved,
           NEW k \in 1..Len(queue) + 1, k > d, NEW row, BackedBefore(row, k)
    PROVE  BackedBefore(row, k - d)'
<1>1. Len(queue) \in Nat /\ d \in {0, 1}
  BY Sizes DEF Slides
<1>2. CASE Backed(row)
  BY <1>2, SavedStays DEF BackedBefore
<1>3. ASSUME NEW j \in 1..k - 1, queue[j].stmt = SavesTx, MadeBy(row, queue[j].block.block)
      PROVE  BackedBefore(row, k - d)'
  <2>1. j \in 1..Len(queue)
    BY <1>1
  <2>2. CASE d = 1 /\ j = 1
    <3>1. queue[1] = Head(queue) /\ Head(queue).stmt = SavesTx
          /\ MadeBy(row, Head(queue).block.block)
      BY <1>3, <2>2, Sizes DEF HeadSaved
    <3>2. PICK m \in 1..Len(candidate_blocks') : candidate_blocks'[m] = Head(queue).block.block
      BY <2>2, <3>1 DEF HeadSaved
    <3>3. \E i \in 1..Len(candidate_blocks') : MadeBy(row, candidate_blocks'[i])
      BY <3>1, <3>2
    <3>4. QED
      BY <3>3 DEF BackedBefore, Backed, MadeBy
  <2>3. CASE ~(d = 1 /\ j = 1)
    <3>1. j > d /\ j - d \in 1..k - d - 1
      BY <1>1, <2>1, <2>3
    <3>2. queue'[j - d] = queue[j]
      BY <2>1, <3>1 DEF Slides
    <3>3. queue'[j - d].stmt = SavesTx /\ MadeBy(row, queue'[j - d].block.block)
      BY <1>3, <3>2
    <3>4. QED
      BY <3>1, <3>3 DEF BackedBefore, MadeBy
  <2>4. QED
    BY <2>2, <2>3
<1>4. QED
  BY <1>2, <1>3 DEF BackedBefore

LEMMA EntryMoves ==
    ASSUME Sized, Keeps, NEW d, NEW New, Slides(d, New), d = 1 => HeadSaved,
           NEW k \in 1..Len(queue) + 1, k > d, NEW q, EntryBacked(q, k)
    PROVE  EntryBacked(q, k - d)'
<1>1. q.stmt = "SELECT row" => IsSaved(q.block)' /\ q.block.index # 0
  BY SavedStays DEF EntryBacked
<1>2. q.stmt = "UPDATE legacy" => IsSaved(q.block.block)' /\ q.block.block.index # 0
  BY SavedStays DEF EntryBacked
<1>3. ASSUME q.stmt \in Writing, NEW i \in 1..Len(q.block.rows)
      PROVE  BackedBefore(q.block.rows[i], k - d)'
  <2>1. PICK row : row = q.block.rows[i]
    OBVIOUS
  <2>2. BackedBefore(row, k)
    BY <1>3, <2>1 DEF EntryBacked
  <2>3. BackedBefore(row, k - d)'
    BY <2>2, BackedMoves
  <2>4. QED
    BY <2>1, <2>3
<1>4. QED
  BY <1>1, <1>2, <1>3 DEF EntryBacked

LEMMA QueueMoves ==
    ASSUME Sized, Keeps, QueueBacked, NEW d, NEW New, Slides(d, New), d = 1 => HeadSaved,
           NEW n, n = Len(queue) + 1,
           \A q \in New : EntryBacked(q, n) \/ EntryBacked(q, n - d)'
    PROVE  QueueBacked'
<1>1. /\ Len(queue) \in Nat /\ d \in {0, 1} /\ (d = 1 => 1 \in 1..Len(queue))
      /\ Len(queue') \in Nat
  BY Sizes DEF Slides, HeadSaved, IsSequence
<1>2. SUFFICES ASSUME NEW i \in 1..Len(queue') PROVE EntryBacked(queue[i], i)'
  BY DEF QueueBacked
<1>3. PICK q : q = queue'[i]
  OBVIOUS
<1>4. PICK k : k = i + d
  OBVIOUS
<1>5. i \in Nat /\ k > d /\ k - d = i /\ n > d /\ n \in 1..Len(queue) + 1
  BY <1>1, <1>4
<1>6. CASE k \in 1..Len(queue) /\ q = queue[k]
  <2>1. EntryBacked(q, k) /\ k \in 1..Len(queue) + 1
    BY <1>1, <1>6 DEF QueueBacked
  <2>2. EntryBacked(q, k - d)'
    BY <1>5, <2>1, EntryMoves
  <2>3. EntryBacked(q, i)'
    BY <1>5, <2>2
  <2>4. QED
    BY <1>3, <2>3 DEF EntryBacked, BackedBefore
<1>7. CASE k = n /\ q \in New
  <2>1. EntryBacked(q, n - d)'
    BY <1>5, <1>7, EntryMoves
  <2>2. EntryBacked(q, i)'
    BY <1>5, <1>7, <2>1
  <2>3. QED
    BY <1>3, <2>2 DEF EntryBacked, BackedBefore
<1>8. CASE q.stmt \notin CandidateSteps
  <2>1. EntryBacked(q, i)'
    BY <1>8 DEF EntryBacked, Writing, CandidateSteps
  <2>2. QED
    BY <1>3, <2>1 DEF EntryBacked, BackedBefore
<1>9. QED
  BY <1>3, <1>4, <1>6, <1>7, <1>8 DEF Slides

LEMMA WriteBacked ==
    ASSUME NEW r, NEW rows, NEW index, NEW k, \A i \in 1..Len(rows) : BackedBefore(rows[i], k),
           NEW q, q = Write(r, rows, index)
    PROVE  EntryBacked(q, k)
<1>1. CASE rows = <<>>
  <2>1. q.stmt = "UPDATE sync_state"
    BY <1>1 DEF Write, NoteProgress, Query
  <2>2. QED
    BY <2>1 DEF EntryBacked, Writing
<1>2. CASE rows # <<>>
  <2>1. q.stmt = "SELECT id" /\ q.block.rows = rows
    BY <1>2 DEF Write, Upsert, Query
  <2>2. QED
    BY <2>1 DEF EntryBacked, Writing
<1>3. QED
  BY <1>1, <1>2

\* A replay of the chain in memory runs no further ahead than the inserts.
LEMMA ResyncBacked ==
    ASSUME Sized, Reflected, ChainOK(candidateChain), NEW n, n = Len(queue) + 1,
           NEW r, NEW q, q = Resync(r)
    PROVE  EntryBacked(q, n)
<1> DEFINE rows == Replay(candidateChain)
<1>1. \A i \in 1..Len(rows) : \E k \in 1..Len(candidateChain) : MadeBy(rows[i], candidateChain[k])
  BY ReplayRows DEF RowsFrom
<1>2. q = Write(r, rows, NULL)
  BY DEF Resync
<1> HIDE DEF rows
<1>3. ASSUME NEW i \in 1..Len(rows) PROVE BackedBefore(rows[i], n)
  <2>1. PICK k \in 1..Len(candidateChain) : MadeBy(rows[i], candidateChain[k])
    BY <1>1
  <2>2. CASE k <= Len(candidate_blocks)
    <3>1. k \in 1..Len(candidate_blocks) /\ candidateChain[k] = candidate_blocks[k]
      BY <2>2, Sizes DEF Reflected
    <3>2. QED
      BY <2>1, <3>1 DEF BackedBefore, Backed
  <2>3. CASE k > Len(candidate_blocks)
    <3>1. PICK j \in 1..Len(queue) : Saving(j, candidateChain[k])
      BY <2>3 DEF Reflected
    <3>2. j \in 1..n - 1
      BY Sizes
    <3>3. QED
      BY <2>1, <3>1, <3>2 DEF BackedBefore, Saving
  <2>4. QED
    BY <2>2, <2>3, Sizes
<1>4. QED
  BY <1>2, <1>3, WriteBacked

LEMMA FirstBacked ==
    ASSUME NEW row, BackedBefore(row, 1)
    PROVE  Backed(row)
BY DEF BackedBefore

LEMMA HeadBacked ==
    ASSUME LockInv, TypesInv, QueueBacked, queue # <<>>
    PROVE  /\ EntryBacked(Head(queue), 1)
           /\ Head(queue).stmt \in Writing => Backed(Head(Head(queue).block.rows))
           /\ Head(queue).stmt = "UPDATE legacy" =>
                 \A row : MadeBy(row, Head(queue).block.block) => Backed(row)
<1>1. /\ Typed(Head(queue)) /\ Head(queue) = queue[1] /\ 1 \in 1..Len(queue)
  BY HeadTyped
<1> PICK q : q = Head(queue)
  OBVIOUS
<1>2. EntryBacked(q, 1)
  BY <1>1 DEF QueueBacked
<1>3. ASSUME q.stmt \in Writing PROVE Backed(Head(q.block.rows))
  <2>1. q.block.rows \in Seq(NewRows) /\ q.block.rows # <<>>
    BY <1>1, <1>3 DEF Typed
  <2>2. Head(q.block.rows) = q.block.rows[1] /\ 1 \in 1..Len(q.block.rows)
    BY <2>1, ListHead
  <2>3. QED
    BY <1>2, <1>3, <2>2, FirstBacked DEF EntryBacked
<1>4. ASSUME q.stmt = "UPDATE legacy", NEW row, MadeBy(row, q.block.block) PROVE Backed(row)
  BY <1>2, <1>4, SavedBacks DEF EntryBacked
<1>5. QED
  BY <1>2, <1>3, <1>4

LEMMA PerformBacked ==
    ASSUME LockInv, TypesInv, BackedInv, queue # <<>>, Keeps, PerformCandidates(Head(queue))
    PROVE  TableBacked'
<1> DEFINE h == Head(queue)
<1>1. SUFFICES ASSUME NEW id \in DOMAIN candidates', candidates'[id].candidate_ref # NULL
               PROVE  \E row : row = candidates'[id] /\ Backed(row)'
  <2>1. ASSUME NEW id \in DOMAIN candidates', NEW row, row = candidates'[id], Backed(row)'
        PROVE  Backed(candidates[id])'
    BY <2>1 DEF Backed
  <2>2. QED
    BY <1>1, <2>1 DEF TableBacked
<1>2. \A row : Backed(row) => Backed(row)'
  BY SavedStays
<1>3. id \in DOMAIN candidates => candidates[id].candidate_ref = NULL \/ Backed(candidates[id])
  BY DEF BackedInv, TableBacked
<1>4. PICK row : row = candidates'[id]
  OBVIOUS
<1>5. CASE id \in DOMAIN candidates /\ row = candidates[id]
  <2>1. Backed(row)
    BY <1>1, <1>3, <1>4, <1>5
  <2>2. QED
    BY <1>2, <1>4, <2>1
<1>6. CASE h.stmt \in Writing /\ row = Head(h.block.rows)
  <2>1. Backed(row)
    BY <1>6, HeadBacked DEF BackedInv
  <2>2. QED
    BY <1>2, <1>4, <2>1
<1>7. CASE h.stmt = "UPDATE legacy" /\ MadeBy(row, h.block.block)
  <2>1. Backed(row)
    BY <1>7, HeadBacked DEF BackedInv
  <2>2. QED
    BY <1>2, <1>4, <2>1
<1>8. CASE UNCHANGED candidates
  BY <1>4, <1>5, <1>8
<1>9. CASE InsertCandidate(h)
  <2>1. row = Head(h.block.rows) \/ (id \in DOMAIN candidates /\ row = candidates[id])
    BY <1>4, <1>9 DEF InsertCandidate
  <2>2. QED
    BY <1>5, <1>6, <1>9, <2>1 DEF InsertCandidate, Writing
<1>10. CASE UpdateCandidate(h)
  <2>1. row = Head(h.block.rows) \/ (id \in DOMAIN candidates /\ row = candidates[id])
    BY <1>4, <1>10 DEF UpdateCandidate
  <2>2. QED
    BY <1>5, <1>6, <1>10, <2>1 DEF UpdateCandidate, Writing
<1>11. CASE AdoptLegacy(h)
  <2> DEFINE tx == TxOf(h.block.block)
             new(old) == [old EXCEPT !.candidate_ref = tx.candidate_ref, !.status = "ACTIVE",
                                     !.last_tx_id = tx.tx_id,
                                     !.verified_at_block_index = h.block.block.index]
  <2>1. id \in DOMAIN candidates /\ (row = candidates[id] \/ row = new(candidates[id]))
    BY <1>4, <1>11 DEF AdoptLegacy
  <2>2. h.stmt = "UPDATE legacy" /\ h.block.block.index # 0
    BY <1>11, HeadBacked DEF AdoptLegacy, BackedInv, EntryBacked
  <2>3. candidates[id] \in Rows
    BY <2>1 DEF TypesInv, TableOK
  <2>4. row = new(candidates[id]) => MadeBy(row, h.block.block)
    BY <2>2, <2>3 DEF MadeBy, Rows
  <2>5. QED
    BY <1>5, <1>7, <2>1, <2>2, <2>4
<1>12. QED
  BY <1>8, <1>9, <1>10, <1>11 DEF PerformCandidates, ReadCandidates, SaveTxBlock,
     UpdateSyncState, candidateTables

LEMMA IssuesBacked ==
    ASSUME LockInv, TypesInv, Sized, Reflected, BackedInv, Keeps, HeadSaved,
           NEW r, CandidateHead(r), NEW q, Issues(r, q), NEW n, n = Len(queue) + 1
    PROVE  EntryBacked(q, n) \/ EntryBacked(q, n - 1)'
<1> DEFINE h == Head(queue)
<1>1. EntryBacked(h, 1) /\ Typed(h) /\ Carried(h)
  BY HeadBacked, HeadHeld DEF BackedInv, CandidateHead
<1>2. \A row : Backed(row) => BackedBefore(row, n)
  BY DEF BackedBefore
<1>3. CASE /\ h.stmt = SavesTx
           /\ \/ q.stmt = "SELECT row" /\ q.block = h.block.block
              \/ q.stmt = "UPDATE legacy" /\ q.block = h.block
  <2>1. h.block.block.index # 0
    BY <1>1, <1>3 DEF Carried
  <2>2. PICK b : b = h.block.block
    OBVIOUS
  <2>3. IsSaved(b)'
    BY <1>3, <2>2 DEF HeadSaved, IsSaved
  <2>4. EntryBacked(q, n - 1)'
    BY <1>3, <2>1, <2>2, <2>3 DEF EntryBacked, Writing
  <2>5. QED
    BY <2>4
<1>4. CASE ToProjection(r, q)
  <2>1. q = Resync(r) => EntryBacked(q, n)
    BY ResyncBacked DEF TypesInv
  <2>2. QED
    BY <1>3, <1>4, <2>1 DEF ToProjection
<1>5. CASE ToAdoption(r, q)
  BY <1>3, <1>5 DEF ToAdoption
<1>6. CASE ToUpsert(r, q)
  <2> DEFINE b  == h.block
             tx == TxOf(b)
             at == RowsOf(tx.candidate_ref)
             s  == IF at = {} THEN Blank ELSE candidates[CHOOSE id \in at : TRUE]
             next == ApplyTxToState([f \in DOMAIN Blank |-> s[f]], tx)
             row == Row(tx, next, b.index)
  <2>1. IsSaved(b) /\ b.index # 0
    BY <1>1, <1>6 DEF ToUpsert, EntryBacked
  <2>2. q.stmt = "SELECT id" /\ q.block.rows = <<row>>
    BY <1>6 DEF ToUpsert
  <2> HIDE DEF next
  <2>3. MadeBy(row, b)
    BY <2>1, RowFields DEF MadeBy
  <2> HIDE DEF row, b
  <2>4. BackedBefore(row, n)
    BY <1>2, <2>1, <2>3, SavedBacks
  <2>5. 1..Len(<<row>>) = {1} /\ <<row>>[1] = row
    BY ShortSequences
  <2>6. QED
    BY <2>2, <2>4, <2>5 DEF EntryBacked
<1>7. CASE ToRow(r, q)
  <2>1. /\ h.stmt \in Writing /\ q.block = h.block
        /\ q.stmt \in {"UPDATE candidates", "INSERT candidates"}
    BY <1>7 DEF ToRow, Writing
  <2>2. \A i \in 1..Len(h.block.rows) : BackedBefore(h.block.rows[i], n)
    BY <1>1, <1>2, <2>1, FirstBacked DEF EntryBacked
  <2>3. QED
    BY <2>1, <2>2 DEF EntryBacked
<1>8. CASE ToOtherRows(r, q)
  <2> DEFINE rows == h.block.rows
  <2>1. h.stmt \in Writing /\ q = Write(r, Tail(rows), h.block.index)
    BY <1>8 DEF ToOtherRows, Writing
  <2>2. \A i \in 1..Len(rows) : BackedBefore(rows[i], n)
    BY <1>1, <1>2, <2>1, FirstBacked DEF EntryBacked
  <2>3. rows \in Seq(NewRows) /\ rows # <<>>
    BY <1>1, <2>1 DEF Typed
  <2> HIDE DEF rows
  <2>4. \A i \in 1..Len(Tail(rows)) : i + 1 \in 1..Len(rows) /\ Tail(rows)[i] = rows[i + 1]
    BY <2>3, ListHead
  <2>5. \A i \in 1..Len(Tail(rows)) : BackedBefore(Tail(rows)[i], n)
    BY <2>2, <2>4
  <2>6. QED
    BY <2>1, <2>5, WriteBacked
<1>9. CASE q.stmt \in PastLock \cup {SavesTx, "SELECT lock"}
  BY <1>9 DEF EntryBacked, Writing, PastLock, SavesTx
<1>10. QED
  BY <1>4, <1>5, <1>6, <1>7, <1>8, <1>9 DEF Issues, ToExisting, ToLastTxId, ToBlock,
     ToOtherLegacy, PastLock

LEMMA SameBacked ==
    ASSUME TableBacked, Keeps, UNCHANGED candidates
    PROVE  TableBacked'
<1>1. ASSUME NEW id \in DOMAIN candidates, candidates[id].candidate_ref # NULL
      PROVE  Backed(candidates[id])'
  <2>1. PICK row : row = candidates[id]
    OBVIOUS
  <2>2. Backed(row)'
    BY <1>1, <2>1, SavedStays DEF TableBacked
  <2>3. QED
    BY <2>1, <2>2 DEF Backed
<1>2. QED
  BY <1>1 DEF TableBacked

LEMMA KeepsOrSaves ==
    ASSUME Sized
    PROVE  /\ UNCHANGED candidate_blocks => Keeps
           /\ \A b : candidate_blocks' = Append(candidate_blocks, b) =>
                 /\ Keeps
                 /\ \E i \in 1..Len(candidate_blocks') : candidate_blocks'[i] = b
<1>1. ASSUME NEW b, candidate_blocks' = Append(candidate_blocks, b)
      PROVE  /\ Len(candidate_blocks) \in Nat /\ Len(candidate_blocks') = Len(candidate_blocks) + 1
             /\ candidate_blocks'[Len(candidate_blocks) + 1] = b
             /\ \A i \in 1..Len(candidate_blocks) : candidate_blocks'[i] = candidate_blocks[i]
  BY <1>1, Sizes
<1>2. ASSUME NEW b, candidate_blocks' = Append(candidate_blocks, b)
      PROVE  Keeps /\ \E i \in 1..Len(candidate_blocks') : candidate_blocks'[i] = b
  BY <1>1, <1>2 DEF Keeps
<1>3. UNCHANGED candidate_blocks => Keeps
  BY DEF Keeps
<1>4. QED
  BY <1>2, <1>3

LEMMA NextBacked ==
    ASSUME LockInv, TypesInv, MirrorInv, BackedInv, [CandidateNext]_allVars,
           faults = 0, faults' = 0
    PROVE  BackedInv'
<1>1. Sized
  BY DEF Sized, LockInv, QueueRight, LedgersRight, LedgerOK
<1>2. PICK n : n = Len(queue) + 1
  OBVIOUS
<1>3. QueueBacked /\ TableBacked
  BY DEF BackedInv
<1>4. CASE Aside
  <2>1. PICK d : /\ Slides(d, {})
                 /\ d = 1 => queue # <<>> /\ Head(queue).stmt \notin CandidateSteps
    BY <1>4 DEF Aside
  <2>2. UNCHANGED <<candidate_blocks, candidates>>
    BY <1>4 DEF Aside, candidateVars, candidateTables
  <2>3. Keeps /\ (d = 1 => HeadSaved)
    BY <1>1, <2>1, <2>2, KeepsOrSaves DEF HeadSaved, CandidateSteps
  <2>4. QueueBacked'
    BY <1>1, <1>2, <1>3, <2>1, <2>3, QueueMoves
  <2>5. QED
    BY <1>3, <2>2, <2>3, <2>4, SameBacked DEF BackedInv
<1>5. ASSUME NEW r, NEW q, Comes(r, q) PROVE BackedInv'
  <2>1. up /\ UNCHANGED <<candidate_blocks, candidates>> /\ Slides(0, {q})
    BY <1>5 DEF Comes, candidateVars, candidateTables
  <2>2. Keeps
    BY <1>1, <2>1, KeepsOrSaves
  <2>3. EntryBacked(q, n)
    <3>1. CASE q = Resync(r)
      BY <1>1, <1>2, <2>1, <3>1, ResyncBacked DEF MirrorInv, TypesInv
    <3>2. CASE q.stmt \in {"SELECT lock", "SELECT legacy"}
      BY <3>2 DEF EntryBacked, Writing
    <3>3. QED
      BY <1>5, <3>1, <3>2 DEF Comes
  <2>4. QueueBacked'
    BY <1>1, <1>2, <1>3, <2>1, <2>2, <2>3, QueueMoves
  <2>5. QED
    BY <1>3, <2>1, <2>2, <2>4, SameBacked DEF BackedInv
<1>6. ASSUME NEW r, Turned(r) PROVE BackedInv'
  <2>1. CandidateHead(r) /\ queue # <<>> /\ Reflected /\ Indexed(candidate_blocks)
    BY <1>6 DEF Turned, CandidateHead, MirrorInv
  <2>2. CASE Founders(r)
    <3>1. Head(queue).stmt # SavesTx
      <4>1. RejectedCandidates(Head(queue))
        BY <2>2 DEF Founders
      <4>2. QED
        BY <1>1, <2>1, <4>1, NoInsertRefused
    <3>2. UNCHANGED <<candidate_blocks, candidates>> /\ Slides(1, {})
      BY <2>2 DEF Founders, candidateVars, candidateTables
    <3>3. Keeps /\ HeadSaved
      BY <1>1, <2>1, <3>1, <3>2, KeepsOrSaves DEF HeadSaved
    <3>4. QueueBacked'
      BY <1>1, <1>2, <1>3, <3>2, <3>3, QueueMoves
    <3>5. QED
      BY <1>3, <3>2, <3>3, <3>4, SameBacked DEF BackedInv
  <2>3. CASE Succeeded
    <3>1. PerformCandidates(Head(queue))
      BY <2>3 DEF Succeeded
    <3>2. Head(queue).stmt = SavesTx =>
              candidate_blocks' = Append(candidate_blocks, Head(queue).block.block)
      BY <3>1 DEF PerformCandidates, ReadCandidates, SaveTxBlock, InsertCandidate,
         UpdateCandidate, AdoptLegacy, UpdateSyncState, SavesTx
    <3>3. Keeps /\ HeadSaved
      BY <1>1, <2>1, <3>2, KeepsOrSaves DEF CandidateHead, HeadSaved
    <3>4. TableBacked'
      BY <2>1, <3>1, <3>3, PerformBacked
    <3>5. CASE Slides(1, {})
      <4>1. QueueBacked'
        BY <1>1, <1>2, <1>3, <3>3, <3>5, QueueMoves
      <4>2. QED
        BY <3>4, <4>1 DEF BackedInv
    <3>6. ASSUME NEW q, Slides(1, {q}), Issues(r, q) PROVE QueueBacked'
      <4>1. EntryBacked(q, n) \/ EntryBacked(q, n - 1)'
        BY <1>1, <1>2, <2>1, <3>3, <3>6, IssuesBacked
      <4>2. QED
        BY <1>1, <1>2, <1>3, <3>3, <3>6, <4>1, QueueMoves
    <3>7. QED
      BY <1>6, <2>2, <3>4, <3>5, <3>6 DEF Turned, BackedInv
  <2>4. QED
    BY <1>6, <2>2, <2>3 DEF Turned
<1>7. CASE Breaks
  <2>1. up /\ queue' = <<>>
    BY <1>7 DEF Breaks
  <2>2. QueueBacked'
    BY <2>1, ShortSequences DEF QueueBacked
  <2>3. CASE UNCHANGED candidateTables
    <3>1. UNCHANGED <<candidate_blocks, candidates>>
      BY <2>3 DEF candidateTables
    <3>2. QED
      BY <1>1, <1>3, <2>2, <3>1, KeepsOrSaves, SameBacked DEF BackedInv
  <2>4. CASE queue # <<>> /\ PerformCandidates(Head(queue))
    <3>1. \/ UNCHANGED candidate_blocks
          \/ candidate_blocks' = Append(candidate_blocks, Head(queue).block.block)
      BY <2>4 DEF PerformCandidates, ReadCandidates, SaveTxBlock, InsertCandidate,
         UpdateCandidate, AdoptLegacy, UpdateSyncState, candidateTables
    <3>2. Keeps
      BY <1>1, <3>1, KeepsOrSaves
    <3>3. QED
      BY <2>2, <2>4, <3>2, PerformBacked DEF BackedInv
  <2>5. QED
    BY <1>7, <2>3, <2>4 DEF Breaks
<1>8. CASE Resumes
  <2>1. UNCHANGED <<queue, candidates, candidate_blocks>>
    BY <1>8 DEF Resumes
  <2>2. QueueBacked'
    BY <1>3, <2>1 DEF QueueBacked, EntryBacked, BackedBefore, Backed, IsSaved, MadeBy
  <2>3. QED
    BY <1>1, <1>3, <2>1, <2>2, KeepsOrSaves, SameBacked DEF BackedInv
<1>9. QED
  BY <1>4, <1>5, <1>6, <1>7, <1>8, StepKinds

\* While no statement has failed for reasons of its own.
MirroredInv == faults \in Nat /\ (faults = 0 => MirrorInv /\ BackedInv)

LEMMA FaultsCount ==
    ASSUME LockInv, [CandidateNext]_allVars
    PROVE  faults' = faults \/ faults' = faults + 1
BY StepKinds DEF Aside, Comes, Turned, Founders, Succeeded, Breaks, Resumes

LEMMA InitMirrored == CandidateInit => MirroredInv
<1> SUFFICES ASSUME CandidateInit PROVE MirroredInv
  OBVIOUS
<1>1. /\ queue = <<>> /\ candidates = [c \in Candidates |-> LegacyRow(c)] /\ faults = 0
      /\ candidate_blocks = <<BootGenesis>> /\ candidateChain = <<BootGenesis>>
  BY DEF CandidateInit, Init, InitWith
<1>2. BootGenesis.index = 0
  BY DEF BootGenesis, GenesisBlock, Block
<1>3. \A i \in 1..Len(queue) : FALSE
  BY <1>1, ShortSequences
<1>4. /\ Len(candidate_blocks) = 1 /\ Len(candidateChain) = 1
      /\ candidate_blocks = candidateChain /\ candidateChain[1] = BootGenesis
  BY <1>1
<1>5. Indexed(candidateChain) /\ Indexed(candidate_blocks)
  BY <1>2, <1>4 DEF Indexed
<1>6. Reflected
  BY <1>3, <1>4, <1>5 DEF Reflected
<1>7. TableBacked
  BY <1>1 DEF TableBacked, LegacyRow
<1>8. QueueBacked
  BY <1>3 DEF QueueBacked
<1>9. QED
  BY <1>1, <1>3, <1>5, <1>6, <1>7, <1>8 DEF MirroredInv, MirrorInv, BackedInv

LEMMA NextMirrored == LockInv /\ TypesInv /\ MirroredInv /\ [CandidateNext]_allVars => MirroredInv'
<1> SUFFICES ASSUME LockInv, TypesInv, MirroredInv, [CandidateNext]_allVars PROVE MirroredInv'
  OBVIOUS
<1>1. faults \in Nat /\ faults' \in Nat /\ (faults' = 0 => faults = 0)
  BY FaultsCount DEF MirroredInv
<1>2. faults' = 0 => MirrorInv' /\ BackedInv'
  BY <1>1, NextMirror, NextBacked DEF MirroredInv
<1>3. QED
  BY <1>1, <1>2 DEF MirroredInv

LEMMA MirroredInvariant == CandidateSpec => [](LockInv /\ MirroredInv)
BY TypesInvariant, InitMirrored, NextMirrored, PTL DEF CandidateSpec

\* No row runs ahead of the table of blocks, whatever requests overlap: what a
\* row says of its last transaction is in a block that is saved.  Inserts leave
\* the one connection in the order in which the blocks joined the chain, and a
\* resync, which reads the chain in memory, writes its rows behind the inserts
\* of the blocks it has replayed.
THEOREM RowsFollowTheTable == CandidateSpec => []RowsAreBacked
<1>1. ASSUME LockInv, MirroredInv PROVE RowsAreBacked
  <2>1. SUFFICES ASSUME faults = 0, NEW id \in DOMAIN candidates,
                        candidates[id].candidate_ref # NULL
                 PROVE  \E i \in 2..Len(candidate_blocks) :
                            /\ candidate_blocks[i].index = candidates[id].verified_at_block_index
                            /\ TxOf(candidate_blocks[i]).tx_id = candidates[id].last_tx_id
                            /\ TxOf(candidate_blocks[i]).candidate_ref =
                                   candidates[id].candidate_ref
    BY DEF RowsAreBacked
  <2>2. PICK i \in 1..Len(candidate_blocks) : MadeBy(candidates[id], candidate_blocks[i])
    BY <1>1, <2>1 DEF MirroredInv, BackedInv, TableBacked, Backed
  <2>3. candidate_blocks[i].index = i - 1 /\ candidate_blocks[i].index # 0
    BY <1>1, <2>1, <2>2 DEF MirroredInv, MirrorInv, Indexed, MadeBy
  <2>4. i \in 2..Len(candidate_blocks)
    BY <2>3
  <2>5. QED
    BY <2>2, <2>4 DEF MadeBy
<1>2. QED
  BY <1>1, MirroredInvariant, PTL

(***************************************************************************)
(* One administrator: what a resync has still to write.                    *)
(***************************************************************************)
NoneWaiting == \A i \in 1..Len(queue) : queue[i].stmt \notin CandidateSteps

\* Of several candidate requests one would not have been answered.
LEMMA OthersGone ==
    ASSUME LockInv, OneAdministrator, NEW r, CandidateHead(r), NEW New, Slides(1, New),
           NEW i \in 1..Len(queue'), queue'[i].stmt \in CandidateSteps
    PROVE  queue'[i] \in New
<1>1. EntryOK(1) /\ Head(queue) = queue[1]
  BY HeadEntry DEF LockInv, CandidateHead
<1>2. r \in Requests /\ IsCandidate(r) /\ queue[1].req = r /\ Watched(r) /\ reply[r] = NULL
  BY <1>1, HeadCandidate DEF CandidateHead, EntryOK
<1>3. CASE i + 1 \in 1..Len(queue) /\ queue'[i] = queue[i + 1]
  <2>1. PICK k \in 1..Len(queue) : k = i + 1 /\ k # 1 /\ queue[k].stmt \in CandidateSteps
    BY <1>3
  <2>2. EntryOK(k)
    BY DEF LockInv, QueueRight
  <2> PICK s : s = queue[k].req
    OBVIOUS
  <2>3. s \in Requests /\ IsCandidate(s) /\ reply[s] = NULL
    BY <2>1, <2>2 DEF EntryOK, Fits, Watched
  <2>4. s \in Pending /\ r \in Pending
    BY <1>2, <2>3 DEF Pending, IsCandidate
  <2>5. s = r
    BY <2>4 DEF OneAdministrator
  <2>6. k = 1
    BY <1>1, <1>2, <2>5 DEF EntryOK
  <2>7. QED
    BY <2>1, <2>6
<1>4. QED
  BY <1>3 DEF Slides

\* Inserted rows are named by their candidate_refs.
NamedByRefs == \A id \in DOMAIN candidates : id \in Refs => candidates[id].candidate_ref = id

\* Every row of the replay is in the table or among those to be written.
Restored(rows) ==
    /\ \A i \in 1..Len(rows) : rows[i] \in Replayed(candidateChain)
    /\ \A row \in Replayed(candidateChain) :
          Projected(row) \/ \E i \in 1..Len(rows) : rows[i] = row

Restoring(q) ==
    q.stmt \in CandidateSteps /\ req[q.req].op = "resync" =>
        \/ q.stmt = "UPDATE sync_state" /\ Restored(<<>>)
        \/ /\ q.stmt \in Writing /\ Restored(q.block.rows)
           /\ q.stmt = "UPDATE candidates" => RowsOf(Head(q.block.rows).candidate_ref) # {}

RestoreInv ==
    /\ OneAdministrator
    /\ ~up => NoneWaiting
    /\ NamedByRefs
    /\ \A i \in 1..Len(queue) : Restoring(queue[i])

LEMMA ReplayedApart ==
    ASSUME NEW s, ChainOK(s), NEW a \in Replayed(s), NEW b \in Replayed(s),
           a.candidate_ref = b.candidate_ref
    PROVE  a = b
<1>1. ReplayedUpTo(Replay(s), s, VoidedTxIds(s), Len(s))
  BY ReplayedChain
<1>2. DOMAIN Replay(s) = 1..Len(Replay(s))
  BY <1>1 DEF ReplayedUpTo, IsSequence
<1>3. PICK i, j \in 1..Len(Replay(s)) : a = Replay(s)[i] /\ b = Replay(s)[j]
  BY <1>2 DEF Replayed
<1>4. i = j
  BY <1>1, <1>3 DEF ReplayedUpTo
<1>5. QED
  BY <1>3, <1>4

\* A statement keeps the names of the rows.
LEMMA NamesKept ==
    ASSUME LockInv, TypesInv, NamedByRefs, queue # <<>>, PerformCandidates(Head(queue))
    PROVE  NamedByRefs'
<1> PICK q : q = Head(queue)
  OBVIOUS
<1>1. Typed(q) /\ PerformCandidates(q)
  BY HeadTyped
<1>2. CASE ReadCandidates(q) \/ SaveTxBlock(q) \/ UpdateSyncState(q)
  BY <1>2 DEF ReadCandidates, SaveTxBlock, UpdateSyncState, candidateTables, NamedByRefs
<1>3. CASE InsertCandidate(q)
  BY <1>3 DEF InsertCandidate, NamedByRefs
<1>4. CASE UpdateCandidate(q)
  BY <1>4 DEF UpdateCandidate, NamedByRefs, RowsOf
<1>5. CASE AdoptLegacy(q)
  <2>1. q.block.rows \in Seq(Candidates) /\ q.block.rows # <<>>
    BY <1>1, <1>5 DEF AdoptLegacy, Typed, LegacyList
  <2> PICK c : c = Head(q.block.rows)
    OBVIOUS
  <2>2. c \notin Refs
    BY <2>1, ListHead, FreshIdAssumption
  <2>3. \A id \in DOMAIN candidates' : id \in DOMAIN candidates
                                       /\ (id # c => candidates'[id] = candidates[id])
    BY <1>5 DEF AdoptLegacy
  <2>4. QED
    BY <2>2, <2>3 DEF NamedByRefs
<1>6. QED
  BY <1>1, <1>2, <1>3, <1>4, <1>5 DEF PerformCandidates

LEMMA ListRest ==
    ASSUME NEW S, NEW rows \in Seq(S), rows # <<>>
    PROVE  \A i \in 1..Len(rows) :
               i # 1 => i - 1 \in 1..Len(Tail(rows)) /\ Tail(rows)[i - 1] = rows[i]
OBVIOUS

\* A row of a resync is written: the others stay to be.
LEMMA RowRestored ==
    ASSUME TypesInv, NamedByRefs, NEW q, PerformCandidates(q), candidateChain' = candidateChain,
           q.stmt \in {"UPDATE candidates", "INSERT candidates"},
           q.block.rows \in Seq(NewRows), q.block.rows # <<>>, Restored(q.block.rows),
           q.stmt = "UPDATE candidates" => RowsOf(Head(q.block.rows).candidate_ref) # {}
    PROVE  Restored(Tail(q.block.rows))'
<1> PICK rows, h, rest : rows = q.block.rows /\ h = Head(rows) /\ rest = Tail(rows)
  OBVIOUS
<1>1. rows \in Seq(NewRows) /\ rows # <<>>
  OBVIOUS
<1>2. /\ h \in NewRows /\ h = rows[1] /\ 1 \in 1..Len(rows)
      /\ \A i \in 1..Len(rest) : i + 1 \in 1..Len(rows) /\ rest[i] = rows[i + 1]
      /\ \A i \in 1..Len(rows) : i # 1 => i - 1 \in 1..Len(rest) /\ rest[i - 1] = rows[i]
  BY <1>1, ListHead, ListRest
<1>3. h \in Replayed(candidateChain) /\ h.candidate_ref \in Refs
  BY <1>2 DEF Restored, NewRows
<1>4. /\ Projected(h)'
      /\ \A id \in DOMAIN candidates : candidates[id].candidate_ref # h.candidate_ref =>
            id \in DOMAIN candidates' /\ candidates'[id] = candidates[id]
  <2>1. CASE InsertCandidate(q)
    <3>1. candidates' = [id \in DOMAIN candidates \cup {h.candidate_ref} |->
                             IF id = h.candidate_ref THEN h ELSE candidates[id]]
      BY <2>1 DEF InsertCandidate
    <3>2. QED
      BY <1>3, <3>1 DEF Projected, NamedByRefs
  <2>2. CASE UpdateCandidate(q)
    <3>1. candidates' = [id \in DOMAIN candidates |->
                             IF id \in RowsOf(h.candidate_ref) THEN h ELSE candidates[id]]
      BY <2>2 DEF UpdateCandidate
    <3>2. RowsOf(h.candidate_ref) # {}
      BY <2>2 DEF UpdateCandidate
    <3>3. QED
      BY <3>1, <3>2 DEF Projected, RowsOf
  <2>3. QED
    BY <2>1, <2>2 DEF PerformCandidates, ReadCandidates, SaveTxBlock, AdoptLegacy,
       UpdateSyncState
<1>5. ASSUME NEW row \in Replayed(candidateChain)
      PROVE  Projected(row)' \/ \E i \in 1..Len(rest) : rest[i] = row
  <2>1. CASE row.candidate_ref = h.candidate_ref
    <3>1. row = h
      BY <1>3, <2>1, ReplayedApart DEF TypesInv
    <3>2. QED
      BY <1>4, <3>1
  <2>2. CASE row.candidate_ref # h.candidate_ref /\ Projected(row)
    BY <1>4, <2>2 DEF Projected
  <2>3. CASE row.candidate_ref # h.candidate_ref /\ \E i \in 1..Len(rows) : rows[i] = row
    <3>1. PICK i \in 1..Len(rows) : rows[i] = row
      BY <2>3
    <3>2. i # 1
      BY <1>2, <2>3, <3>1
    <3>3. i - 1 \in 1..Len(rest) /\ rest[i - 1] = rows[i]
      BY <1>2, <3>2
    <3>4. QED
      BY <3>1, <3>3
  <2>4. QED
    BY <2>1, <2>2, <2>3 DEF Restored
<1>6. \A i \in 1..Len(rest) : rest[i] \in Replayed(candidateChain)
  BY <1>2 DEF Restored
<1>7. Restored(rest)'
  BY <1>5, <1>6 DEF Restored
<1>8. QED
  BY <1>7

LEMMA RestoringStays ==
    ASSUME Steady, UNCHANGED candidateVars, NEW q, q.req \in Requests, req[q.req] # NULL,
           Restoring(q)
    PROVE  Restoring(q)'
<1>1. req'[q.req] = req[q.req]
  BY DEF Steady
<1>2. candidates' = candidates /\ candidateChain' = candidateChain
  BY DEF candidateVars, candidateTables
<1>3. QED
  BY <1>1, <1>2 DEF Restoring, Restored, Projected, RowsOf

\* A resync begins with all rows of the replay, and with none it is done.
LEMMA RestoringBegins ==
    ASSUME TypesInv, NEW r, NEW q, q = Resync(r)
    PROVE  \/ q.stmt = "UPDATE sync_state" /\ Restored(<<>>)
           \/ q.stmt = "SELECT id" /\ Restored(q.block.rows)
<1> PICK rows : rows = Replay(candidateChain)
  OBVIOUS
<1>1. rows \in Seq(NewRows) /\ DOMAIN rows = 1..Len(rows)
  BY ReplayRows DEF TypesInv, RowsFrom
<1>2. Restored(rows)
  BY <1>1 DEF Restored, Replayed
<1>3. CASE rows = <<>>
  BY <1>2, <1>3 DEF Resync, Write, NoteProgress, Query
<1>4. CASE rows # <<>>
  BY <1>2, <1>4 DEF Resync, Write, Upsert, Query
<1>5. QED
  BY <1>3, <1>4

\* ... and goes on with those that are left.
LEMMA RestoringGoesOn ==
    ASSUME NEW r, NEW rows, NEW index, NEW q, q = Write(r, rows, index), Restored(rows)'
    PROVE  \/ q.stmt = "UPDATE sync_state" /\ Restored(<<>>)'
           \/ q.stmt = "SELECT id" /\ Restored(q.block.rows)'
<1>1. CASE rows = <<>>
  BY <1>1 DEF Write, NoteProgress, Query
<1>2. CASE rows # <<>>
  BY <1>2 DEF Write, Upsert, Query
<1>3. QED
  BY <1>1, <1>2

\* Whatever a callback issues next for a resync, its rows are or will be there.
LEMMA RestoringIssued ==
    ASSUME LockInv, TypesInv, RestoreInv, NEW r, CandidateHead(r), Succeeded, NEW q, q.req = r,
           Issues(r, q)
    PROVE  Restoring(q)'
<1> SUFFICES ASSUME req[r].op = "resync"
             PROVE  \/ q.stmt = "UPDATE sync_state" /\ Restored(<<>>)'
                    \/ /\ q.stmt \in Writing /\ Restored(q.block.rows)'
                       /\ q.stmt = "UPDATE candidates" =>
                              (RowsOf(Head(q.block.rows).candidate_ref) # {})'
  <2>1. req' = req
    BY HeadHeld
  <2>2. QED
    BY <2>1 DEF Restoring
<1> PICK h : h = Head(queue)
  OBVIOUS
<1>1. h.req = r /\ h.stmt \in CandidateSteps /\ Typed(h) /\ h = queue[1] /\ 1 \in 1..Len(queue)
  BY HeadHeld, HeadTyped DEF CandidateHead
<1>2. \/ h.stmt = "UPDATE sync_state"
      \/ /\ h.stmt \in Writing /\ Restored(h.block.rows)
         /\ h.stmt = "UPDATE candidates" => RowsOf(Head(h.block.rows).candidate_ref) # {}
  BY <1>1 DEF RestoreInv, Restoring
<1>3. ToRow(r, q) \/ ToOtherRows(r, q)
  BY <1>2 DEF Issues, ToExisting, ToLastTxId, ToBlock, Adds, ToProjection, ToUpsert, ToAdoption,
     ToOtherLegacy, Writing, SavesTx
<1>4. PerformCandidates(h) /\ NamedByRefs
  BY DEF Succeeded, RestoreInv
<1>5. CASE ToRow(r, q)
  <2>1. h.stmt = "SELECT id" /\ q.block = h.block /\ candidateChain' = candidateChain
    BY <1>5 DEF ToRow
  <2>2. candidates' = candidates
    BY <1>4, <2>1 DEF PerformCandidates, ReadCandidates, SaveTxBlock, InsertCandidate,
       UpdateCandidate, AdoptLegacy, UpdateSyncState, candidateTables
  <2>3. Restored(q.block.rows)'
    <3> PICK rows : rows = h.block.rows
      OBVIOUS
    <3>1. Restored(rows) /\ q.block.rows = rows
      BY <1>2, <2>1
    <3>2. candidateChain' = candidateChain
      BY <2>1
    <3>3. Restored(rows)'
      BY <2>2, <3>1, <3>2 DEF Restored, Projected
    <3>4. QED
      BY <3>1, <3>3
  <2>4. \/ q.stmt = "UPDATE candidates" /\ RowsOf(Head(q.block.rows).candidate_ref) # {}
        \/ q.stmt = "INSERT candidates"
    BY <1>5, <2>1 DEF ToRow
  <2>5. QED
    BY <2>2, <2>3, <2>4 DEF Writing, RowsOf
<1>6. CASE ToOtherRows(r, q)
  <2>1. /\ h.stmt \in {"UPDATE candidates", "INSERT candidates"}
        /\ q = Write(r, Tail(h.block.rows), h.block.index) /\ candidateChain' = candidateChain
    BY <1>6 DEF ToOtherRows
  <2>2. h.block.rows \in Seq(NewRows) /\ h.block.rows # <<>>
    BY <1>1, <2>1 DEF Typed, Writing
  <2>3. Restored(Tail(h.block.rows))'
    BY <1>2, <1>4, <2>1, <2>2, RowRestored
  <2>4. \/ q.stmt = "UPDATE sync_state" /\ Restored(<<>>)'
        \/ q.stmt = "SELECT id" /\ Restored(q.block.rows)'
    BY <2>1, <2>3, RestoringGoesOn
  <2>5. QED
    BY <2>4 DEF Writing
<1>7. QED
  BY <1>3, <1>5, <1>6

LEMMA NextRestore ==
    LockInv /\ TypesInv /\ RestoreInv /\ [CandidateNext /\ OneAdministrator']_allVars
        => RestoreInv'
<1> SUFFICES ASSUME LockInv, TypesInv, RestoreInv, [CandidateNext /\ OneAdministrator']_allVars
             PROVE  RestoreInv'
  OBVIOUS
<1>1. OneAdministrator'
  BY DEF RestoreInv, OneAdministrator, Pending, allVars, vars, shared
<1>2. SavesTx \in CandidateSteps
  BY DEF CandidateSteps
<1>3. ASSUME NEW q, q.req \in Requests, req[q.req] # NULL, Restoring(q), Steady,
             UNCHANGED candidateVars
      PROVE  Restoring(q)'
  BY <1>3, RestoringStays
<1>4. ASSUME NEW i \in 1..Len(queue)
      PROVE  /\ queue[i].req \in Requests /\ req[queue[i].req] # NULL /\ Restoring(queue[i])
  BY DEF LockInv, QueueRight, EntryOK, RestoreInv
<1>5. ASSUME NEW q, q.stmt \notin CandidateSteps PROVE Restoring(q)'
  BY <1>5 DEF Restoring
<1>6. ASSUME UNCHANGED candidateVars, Steady, up' = up, NEW d, NEW New, Slides(d, New),
             \A q \in New : up /\ Restoring(q)'
      PROVE  RestoreInv'
  <2>1. NamedByRefs'
    BY <1>6 DEF RestoreInv, NamedByRefs, candidateVars, candidateTables
  <2>2. ASSUME NEW i \in 1..Len(queue') PROVE Restoring(queue[i])'
    <3> PICK q : q = queue'[i]
      OBVIOUS
    <3>1. Restoring(q)'
      <4>1. CASE \E k \in 1..Len(queue) : q = queue[k]
        BY <1>3, <1>4, <1>6, <4>1
      <4>2. CASE q \in New
        BY <1>6, <4>2
      <4>3. CASE q.stmt \notin CandidateSteps
        BY <1>5, <4>3
      <4>4. QED
        BY <1>6, <4>1, <4>2, <4>3 DEF Slides
    <3>2. QED
      BY <3>1 DEF Restoring
  <2>3. ~up' => NoneWaiting'
    BY <1>6 DEF RestoreInv, NoneWaiting, Slides
  <2>4. QED
    BY <1>1, <2>1, <2>2, <2>3 DEF RestoreInv
<1>7. CASE Aside
  BY <1>6, <1>7 DEF Aside
<1>8. ASSUME NEW r, NEW q, Comes(r, q) PROVE RestoreInv'
  <2>1. /\ up /\ UNCHANGED candidateVars /\ up' = up /\ Steady /\ Slides(0, {q}) /\ q.req = r
    BY <1>8 DEF Comes
  <2>2. Restoring(q)'
    <3>1. CASE req'[r].op # "resync"
      BY <2>1, <3>1 DEF Restoring
    <3>2. CASE req'[r].op = "resync"
      <4>1. q = Resync(r)
        BY <1>8, <3>2 DEF Comes
      <4>2. \/ q.stmt = "UPDATE sync_state" /\ Restored(<<>>)
            \/ q.stmt = "SELECT id" /\ Restored(q.block.rows)
        BY <4>1, RestoringBegins
      <4>3. QED
        BY <2>1, <4>2 DEF Restoring, Restored, Projected, Writing, candidateVars,
           candidateTables
    <3>3. QED
      BY <3>1, <3>2
  <2>3. QED
    BY <1>6, <2>1, <2>2
<1>9. ASSUME NEW r, Turned(r) PROVE RestoreInv'
  <2>1. CandidateHead(r) /\ Steady /\ up' = up /\ queue # <<>> /\ up
    BY <1>9 DEF Turned, CandidateHead
  <2>2. CASE Founders(r)
    BY <1>6, <2>1, <2>2 DEF Founders
  <2>3. ASSUME Succeeded, NEW New, Slides(1, New), \A q \in New : Restoring(q)'
        PROVE  RestoreInv'
    <3>1. NamedByRefs'
      BY <2>1, <2>3, NamesKept DEF Succeeded, RestoreInv
    <3>2. ASSUME NEW i \in 1..Len(queue') PROVE Restoring(queue[i])'
      <4> PICK q : q = queue'[i]
        OBVIOUS
      <4>1. Restoring(q)'
        <5>1. CASE q.stmt \notin CandidateSteps
          BY <1>5, <5>1
        <5>2. CASE q.stmt \in CandidateSteps
          <6>1. q \in New
            BY <2>1, <2>3, <5>2, OthersGone DEF RestoreInv
          <6>2. QED
            BY <2>3, <6>1
        <5>3. QED
          BY <5>1, <5>2
      <4>2. QED
        BY <4>1 DEF Restoring
    <3>3. QED
      BY <1>1, <2>1, <3>1, <3>2 DEF RestoreInv
  <2>4. CASE Succeeded /\ Slides(1, {})
    BY <2>3, <2>4
  <2>5. ASSUME Succeeded, NEW q, q.req = r, Slides(1, {q}), Issues(r, q) PROVE RestoreInv'
    <3>1. Restoring(q)'
      BY <2>1, <2>5, RestoringIssued
    <3>2. QED
      BY <2>3, <2>5, <3>1
  <2>6. QED
    BY <1>9, <2>2, <2>4, <2>5 DEF Turned
<1>10. CASE Breaks
  <2>1. NamedByRefs'
    BY <1>10, NamesKept DEF Breaks, RestoreInv, NamedByRefs, candidateTables
  <2>2. queue' = <<>> /\ 1..Len(<<>>) = {}
    BY <1>10, ShortSequences DEF Breaks
  <2>3. QED
    BY <1>1, <2>1, <2>2 DEF RestoreInv, NoneWaiting
<1>11. CASE Resumes
  <2>1. NamedByRefs' /\ queue' = queue /\ up' /\ NoneWaiting
    BY <1>11 DEF Resumes, RestoreInv, NamedByRefs
  <2>2. ASSUME NEW i \in 1..Len(queue') PROVE Restoring(queue[i])'
    BY <2>1, <2>2 DEF NoneWaiting, Restoring
  <2>3. QED
    BY <1>1, <2>1, <2>2 DEF RestoreInv
<1>12. QED
  <2>1. [CandidateNext]_allVars
    OBVIOUS
  <2>2. QED
    BY <1>7, <1>8, <1>9, <1>10, <1>11, <2>1, StepKinds

\* Only the last statement of a resync is answered "ok".
LEMMA CandidateReplies ==
    ASSUME NEW s, Submit(s) \/ Project(s) \/ Migrate(s)
    PROVE  reply' = reply \/ \E m : reply' = [reply EXCEPT ![s] = m]
<1>1. ASSUME NEW m, Respond(s, m) PROVE \E n : reply' = [reply EXCEPT ![s] = n]
  BY <1>1 DEF Respond, Answer
<1>2. ASSUME NEW stmt, NEW context, Continue(s, stmt, context) PROVE reply' = reply
  BY <1>2 DEF Continue, Proceed
<1>3. ASSUME NEW row, NEW rows, NEW tx, AddTransaction(s, row, rows, tx) PROVE reply' = reply
  BY <1>3 DEF AddTransaction
<1>4. CASE Submit(s)
  BY <1>1, <1>2, <1>3, <1>4 DEF Submit, RejectedByLock, CreateRead, OtherRead, ExistingRead,
     PrevTxRead, TxBlockSaved, SubmitFails
<1>5. CASE Project(s)
  BY <1>1, <1>2, <1>5 DEF Project, RowRead, IdRead, RowWritten, ProgressNoted, NotProjected
<1>6. CASE Migrate(s)
  <2>1. ASSUME NEW rows, MigrateRest(s, rows)
        PROVE  reply' = reply \/ \E m : reply' = [reply EXCEPT ![s] = m]
    BY <1>1, <1>2, <2>1 DEF MigrateRest
  <2>2. QED
    BY <1>1, <1>2, <1>3, <1>6, <2>1 DEF Migrate, LegacyRead, LegacyAdmitted,
       LegacyBlockSaved, LegacyAdopted, MigrationFails
<1>7. QED
  BY <1>4, <1>5, <1>6

LEMMA ResyncAnswered ==
    ASSUME LockInv, RestoreInv, CandidateNext, NEW r \in Requests, Sent(r, "resync"),
           reply[r] = NULL, reply'[r] = "ok"
    PROVE  Runs(r, "UPDATE sync_state") /\ candidateChain' = candidateChain
<1>1. "ok" # NULL
  BY NullAssumption DEF Replies
<1>2. DOMAIN reply = Requests /\ IsCandidate(r)
  BY DEF LockInv, RequestsRight, IsCandidate, Sent, CandidateHandlers
<1>3. ASSUME NEW s, Arrive(s) \/ CandidateArrive(s) PROVE reply' = reply
  BY <1>3 DEF Arrive, CastVoteArrives, DeleteUserArrives, ResetUserVoteArrives, ResetAllArrives,
     ToggleArrives, HackArrives, Arrives, CandidateArrive, SubmitArrives, ResyncArrives,
     MigrateArrives, CandidateArrives
<1>4. ~ProcessEnds
  BY <1>2 DEF ProcessEnds, Sent
<1>5. ~RestartAny
  BY <1>1 DEF RestartAny, Restart
<1>6. ASSUME NEW s \in Requests, Serve(s) PROVE FALSE
  <2>1. s = r
    BY <1>1, <1>2, <1>6, ServeReplies
  <2>2. queue # <<>> /\ Head(queue).req = r
    BY <1>6, <2>1, ServeTables
  <2>3. Head(queue).stmt \notin CandidateSteps
    BY <1>6, SettingsHead, VoteStep, UserStep DEF Serve, Callback, PlainStep
  <2>4. EntryOK(1) /\ Head(queue) = queue[1]
    BY <2>2, HeadEntry DEF LockInv
  <2>5. QED
    BY <1>2, <2>2, <2>3, <2>4 DEF EntryOK, Fits
<1>7. ASSUME NEW s \in Requests, CandidateServe(s)
      PROVE  Runs(r, "UPDATE sync_state") /\ candidateChain' = candidateChain
  <2>1. s = r
    BY <1>1, <1>2, <1>7, CandidateReplies DEF CandidateServe
  <2>2. up /\ UNCHANGED lifecycle /\ (Submit(r) \/ Project(r) \/ Migrate(r))
    BY <1>7, <2>1 DEF CandidateServe
  <2>3. CandidateHead(r)
    BY <2>2, SubmitTurned, ProjectTurned, MigrateTurned DEF Turned
  <2>4. Head(queue) = queue[1] /\ 1 \in 1..Len(queue)
    BY <2>3, HeadEntry DEF LockInv, CandidateHead
  <2>5. Head(queue).stmt \in Writing \cup {"UPDATE sync_state"}
    BY <2>3, <2>4 DEF RestoreInv, Restoring, CandidateHead, Sent
  <2>6. Project(r)
    BY <2>2, <2>5 DEF Submit, RejectedByLock, CreateRead, OtherRead, ExistingRead, PrevTxRead,
       TxBlockSaved, SubmitFails, Migrate, LegacyRead, LegacyAdmitted, LegacyBlockSaved,
       LegacyAdopted, MigrationFails, Runs, Refused, Executes, Writing
  <2>7. reply' # reply
    BY <1>1
  <2>8. ~NotProjected(r)
    BY <1>2 DEF NotProjected, Respond, Answer, Sent
  <2>9. ProgressNoted(r)
    BY <2>6, <2>7, <2>8 DEF Project, RowRead, IdRead, RowWritten, Continue, Proceed
  <2>10. QED
    BY <2>9 DEF ProgressNoted, Respond
<1>8. QED
  <2>1. PICK s \in Requests : ServeAny(s)
    BY <1>1, <1>3, <1>4, <1>5 DEF CandidateNext, CrashAny, Crash, CandidateCrash
  <2>2. QED
    BY <1>4, <1>6, <1>7, <2>1 DEF ServeAny, FatalError

LEMMA InitRestore == CandidateInit => RestoreInv
<1> SUFFICES ASSUME CandidateInit PROVE RestoreInv
  OBVIOUS
<1>1. /\ queue = <<>> /\ candidates = [c \in Candidates |-> LegacyRow(c)]
      /\ req = [r \in Requests |-> NULL]
  BY DEF CandidateInit, Init, InitWith
<1>2. \A i \in 1..Len(queue) : FALSE
  BY <1>1, ShortSequences
<1>3. OneAdministrator
  BY <1>1 DEF OneAdministrator, Pending
<1>4. NamedByRefs
  BY <1>1, FreshIdAssumption DEF NamedByRefs
<1>5. QED
  BY <1>2, <1>3, <1>4 DEF RestoreInv, NoneWaiting

LEMMA SerialSteps ==
    [CandidateNext /\ OneAdministrator']_allVars => [CandidateNext]_allVars
OBVIOUS

LEMMA RestoreInvariant == SerialCandidateSpec => [](LockInv /\ TypesInv /\ RestoreInv)
BY InitLock, NextLock, InitTypes, NextTypes, InitRestore, NextRestore, SerialSteps, PTL
   DEF SerialCandidateSpec

\* A full resync repairs whatever failures and kills have left in the table: when
\* it is answered "ok", every row of the replay of the ledger is in the table, as
\* it was replayed.  The administrator sends one request at a time, so neither
\* the ledger nor the table has moved since the replay was made; a row that is
\* written disturbs none of those written before it.
THEOREM ResyncBringsTheReplay == SerialCandidateSpec => ResyncRepairs
<1> DEFINE Repairs ==
        \A r \in Requests :
            Sent(r, "resync") /\ reply[r] = NULL /\ reply'[r] = "ok"
                => \A row \in Replayed(candidateChain) : Projected(row)'
<1>1. ASSUME LockInv, TypesInv, RestoreInv, [CandidateNext]_allVars PROVE [Repairs]_allVars
  <2>1. SUFFICES ASSUME CandidateNext, NEW r \in Requests, Sent(r, "resync"), reply[r] = NULL,
                        reply'[r] = "ok", NEW row \in Replayed(candidateChain)
                 PROVE  Projected(row)'
    BY <1>1
  <2>2. Runs(r, "UPDATE sync_state")
    BY <1>1, <2>1, ResyncAnswered
  <2>3. queue # <<>> /\ Head(queue).req = r /\ Head(queue).stmt = "UPDATE sync_state"
    BY <2>2 DEF Runs, Executes
  <2>4. Head(queue) = queue[1] /\ 1 \in 1..Len(queue)
    BY <1>1, <2>3, HeadEntry DEF LockInv
  <2>5. Restored(<<>>)
    BY <1>1, <2>1, <2>3, <2>4, CandidateStatements DEF RestoreInv, Restoring, Sent, Writing
  <2>6. Projected(row)
    BY <2>1, <2>5, ShortSequences DEF Restored
  <2>7. candidates' = candidates
    BY <2>2, <2>3 DEF Runs, PerformCandidates, ReadCandidates, SaveTxBlock, InsertCandidate,
       UpdateCandidate, AdoptLegacy, UpdateSyncState, candidateTables
  <2>8. QED
    BY <2>6, <2>7 DEF Projected
<1>2. QED
  BY <1>1, RestoreInvariant, SerialSteps, PTL DEF ResyncRepairs, SerialCandidateSpec

(***************************************************************************)
(* One run of the server.                                                  *)
(***************************************************************************)
OneRun == crashes = 0 /\ NobodyCutOff

\* The statements of castVote up to the one that may end the process.
Entering == {"SELECT settings", "SELECT sudah_vote"}

\* Nobody who was cut off waits for a statement, and a vote that enters waits
\* for one, unanswered.
VotesInv ==
    /\ crashes \in Nat
    /\ \A i \in 1..Len(queue) :
          /\ reply[queue[i].req] # "connection lost"
          /\ queue[i].stmt \in Entering =>
                /\ reply[queue[i].req] = NULL
                /\ \A j \in 1..Len(queue) : queue[j].req = queue[i].req => j = i

\* What a callback issues and says.
GoesOnWith(r, qs) ==
    /\ IsSequence(qs) /\ Issue(qs)
    /\ \A j \in 1..Len(qs) :
          /\ qs[j].req = r
          /\ qs[j].stmt \in Entering =>
                /\ Head(queue).stmt = "SELECT settings" /\ reply' = reply
                /\ \A i \in 1..Len(qs) : i = j

Says(r) ==
    \/ reply' = reply
    \/ \E m : m # "connection lost" /\ reply' = [reply EXCEPT ![r] = m]

Moves(r) == Says(r) /\ \E qs : GoesOnWith(r, qs)

LEMMA IssueMoves ==
    ASSUME NEW r, NEW stmt, NEW block, Issue(<<Query(r, stmt, block)>>), reply' = reply,
           stmt \in Entering => Head(queue).stmt = "SELECT settings"
    PROVE  Moves(r)
<1> DEFINE q == Query(r, stmt, block)
<1>1. q.req = r /\ q.stmt = stmt
  BY DEF Query
<1> HIDE DEF q
<1>2. IsSequence(<<q>>) /\ 1..Len(<<q>>) = {1} /\ <<q>>[1] = q
  BY ShortSequences
<1>3. Issue(<<q>>)
  BY DEF q
<1>4. GoesOnWith(r, <<q>>)
  BY <1>1, <1>2, <1>3 DEF GoesOnWith
<1>5. QED
  BY <1>4 DEF Moves, Says

LEMMA ProceedMoves ==
    ASSUME NEW r, NEW stmt, NEW block, Proceed(r, stmt, block),
           stmt \in Entering => Head(queue).stmt = "SELECT settings"
    PROVE  Moves(r)
BY IssueMoves DEF Proceed

LEMMA NothingMoves ==
    ASSUME NEW r, Issue(<<>>), Says(r)
    PROVE  Moves(r)
<1>1. IsSequence(<<>>) /\ \A j \in 1..Len(<<>>) : FALSE
  BY ShortSequences
<1>2. GoesOnWith(r, <<>>)
  BY <1>1 DEF GoesOnWith
<1>3. QED
  BY <1>2 DEF Moves

LEMMA AnswerMoves ==
    ASSUME NEW r, NEW m, Answer(r, m), m # "connection lost"
    PROVE  Moves(r)
BY NothingMoves DEF Answer, Says

LEMMA RecordMoves ==
    ASSUME NEW r, RecordAuditLog(r)
    PROVE  Moves(r)
<1>1. InsertBlockStmt(AuditLedger) \notin Entering
  BY PlainStatements DEF Entering
<1>2. QED
  BY <1>1, IssueMoves DEF RecordAuditLog, AddBlock

LEMMA EnteringStatements ==
    /\ InsertBlockStmt(VoteLedger) \notin Entering /\ InsertBlockStmt(AuditLedger) \notin Entering
    /\ \A stmt \in CandidateSteps : stmt \notin Entering
BY PlainStatements DEF Entering, CandidateSteps, PastLock, SavesTx

LEMMA VoteMoves ==
    ASSUME NEW r, CastVote(r)
    PROVE  Moves(r)
<1>1. CASE CheckSettings(r)
  <2>1. Head(queue).stmt = "SELECT settings"
    BY <1>1 DEF CheckSettings, Succeeds, Executes
  <2>2. QED
    BY <1>1, <2>1, ProceedMoves, AnswerMoves DEF CheckSettings
<1>2. CASE CheckSudahVote(r)
  BY <1>2, ProceedMoves, AnswerMoves DEF CheckSudahVote, Entering
<1>3. CASE CheckCandidate(r)
  BY <1>3, ProceedMoves, AnswerMoves DEF CheckCandidate, Entering
<1>4. CASE CheckFails(r) \/ VoteNotSaved(r) \/ FlagNotSet(r) \/ VoteBlockLost(r)
  BY <1>4, AnswerMoves DEF CheckFails, VoteNotSaved, FlagNotSet, VoteBlockLost
<1>5. CASE VoteSaved(r)
  BY <1>5, ProceedMoves DEF VoteSaved, Entering
<1>6. CASE FlagSet(r)
  <2> DEFINE insert == Query(r, InsertBlockStmt(VoteLedger), NextVoteBlock(r))
             keys   == Query(r, "UPDATE keys", NULL)
  <2>1. reply' = reply /\ (Issue(<<keys, insert>>) \/ Issue(<<insert>>))
    BY <1>6 DEF FlagSet
  <2>2. /\ insert.req = r /\ insert.stmt = "INSERT blockchain"
        /\ keys.req = r /\ keys.stmt = "UPDATE keys"
    BY PlainStatements DEF Query
  <2> HIDE DEF insert, keys
  <2>3. /\ <<keys, insert>> \in Seq({keys, insert}) /\ <<insert>> \in Seq({keys, insert})
        /\ \A j \in 1..Len(<<keys, insert>>) : <<keys, insert>>[j] \in {keys, insert}
        /\ \A j \in 1..Len(<<insert>>) : <<insert>>[j] \in {keys, insert}
    OBVIOUS
  <2>4. PICK qs \in {<<keys, insert>>, <<insert>>} : Issue(qs)
    BY <2>1
  <2>5. IsSequence(qs) /\ \A j \in 1..Len(qs) : qs[j] \in {keys, insert}
    BY <2>3, <2>4 DEF IsSequence
  <2>6. \A j \in 1..Len(qs) : qs[j].req = r /\ qs[j].stmt \notin Entering
    BY <2>2, <2>5 DEF Entering
  <2>7. GoesOnWith(r, qs)
    BY <2>4, <2>5, <2>6 DEF GoesOnWith
  <2>8. QED
    BY <2>1, <2>7 DEF Moves, Says
<1>7. CASE KeysSaved(r)
  BY <1>7, NothingMoves DEF KeysSaved, Says
<1>8. CASE VoteBlockSaved(r)
  BY <1>8, RecordMoves DEF VoteBlockSaved
<1>9. QED
  BY <1>1, <1>2, <1>3, <1>4, <1>5, <1>6, <1>7, <1>8 DEF CastVote

LEMMA ServeMoves ==
    ASSUME NEW r, Serve(r)
    PROVE  Moves(r)
<1>1. CASE UserAdmin(r)
  <2>1. CASE UserNotDeleted(r) \/ VotesNotDeleted(r) \/ FlagsNotCleared(r) \/ ResetChainFails(r)
    BY <2>1, AnswerMoves DEF UserNotDeleted, VotesNotDeleted, FlagsNotCleared,
       ResetChainFails
  <2>2. CASE UserDeleted(r)
    BY <2>2, RecordMoves DEF UserDeleted
  <2>3. CASE VotesDeleted(r)
    BY <2>3, ProceedMoves DEF VotesDeleted, Entering
  <2>4. CASE FlagsCleared(r)
    BY <2>4, ProceedMoves, RecordMoves DEF FlagsCleared, Entering
  <2>5. CASE BlocksDeleted(r)
    BY <2>5, ProceedMoves, EnteringStatements DEF BlocksDeleted
  <2>6. CASE GenesisSaved(r)
    BY <2>6, IssueMoves, EnteringStatements DEF GenesisSaved
  <2>7. QED
    BY <1>1, <2>1, <2>2, <2>3, <2>4, <2>5, <2>6 DEF UserAdmin
<1>2. CASE SettingsAdmin(r)
  BY <1>2, ProceedMoves, RecordMoves, AnswerMoves DEF SettingsAdmin, StatusRead,
     StatusNotRead, StatusUpdated, StatusNotUpdated, Entering
<1>3. CASE RecordAudit(r)
  BY <1>3, ProceedMoves, AnswerMoves DEF RecordAudit, AuditBlockSaved, AuditBlockLost,
     AuditLogSaved, AuditLogLost, Entering
<1>4. QED
  BY <1>1, <1>2, <1>3, VoteMoves DEF Serve, Callback

LEMMA CandidateMoves ==
    ASSUME NEW r, Submit(r) \/ Project(r) \/ Migrate(r)
    PROVE  Moves(r)
<1>1. ASSUME NEW m, Respond(r, m), m # "connection lost" PROVE Moves(r)
  BY <1>1, AnswerMoves DEF Respond
<1>2. ASSUME NEW stmt, NEW context, Continue(r, stmt, context), stmt \notin Entering PROVE Moves(r)
  BY <1>2, ProceedMoves DEF Continue
<1>3. ASSUME NEW row, NEW rows, NEW tx, AddTransaction(r, row, rows, tx) PROVE Moves(r)
  <2>1. "INSERT candidate_ledger_blocks" \notin Entering
    BY DEF Entering
  <2>2. QED
    BY <1>3, <2>1, IssueMoves DEF AddTransaction
<1>4. ASSUME NEW q, Issue(<<q>>), q.req = r, q.stmt \notin Entering, reply' = reply PROVE Moves(r)
  <2>1. IsSequence(<<q>>) /\ 1..Len(<<q>>) = {1} /\ <<q>>[1] = q
    BY ShortSequences
  <2>2. GoesOnWith(r, <<q>>)
    BY <1>4, <2>1 DEF GoesOnWith
  <2>3. QED
    BY <1>4, <2>2 DEF Moves, Says
<1>5. ASSUME NEW rows, NEW index
      PROVE  Write(r, rows, index).req = r /\ Write(r, rows, index).stmt \notin Entering
  BY WriteStatement DEF Entering
<1>6. CASE Submit(r)
  <2>1. CASE TxBlockSaved(r)
    <3> PICK q : q = SyncAfterTransaction(r, Head(queue).block.block)
      OBVIOUS
    <3>1. q.req = r /\ q.stmt \notin Entering
      BY ResyncStatement DEF SyncAfterTransaction, Query, Entering
    <3>2. QED
      BY <1>4, <2>1, <3>1 DEF TxBlockSaved
  <2>2. QED
    BY <1>1, <1>2, <1>3, <1>6, <2>1 DEF Submit, RejectedByLock, CreateRead, OtherRead,
       ExistingRead, PrevTxRead, SubmitFails, Entering
<1>7. CASE Project(r)
  <2>1. CASE RowRead(r)
    <3>1. PICK rows, index : Issue(<<Upsert(r, rows, index)>>) /\ reply' = reply
      BY <2>1 DEF RowRead
    <3>2. Upsert(r, rows, index).req = r /\ Upsert(r, rows, index).stmt \notin Entering
      BY DEF Upsert, Query, Entering
    <3>3. QED
      BY <1>4, <3>1, <3>2
  <2>2. CASE RowWritten(r)
    <3>1. PICK rows, index : Issue(<<Write(r, rows, index)>>) /\ reply' = reply
      BY <2>2 DEF RowWritten
    <3>2. QED
      BY <1>4, <1>5, <3>1
  <2>3. CASE IdRead(r)
    <3>1. PICK stmt, context : /\ Continue(r, stmt, context)
                               /\ stmt \in {"UPDATE candidates", "INSERT candidates"}
      BY <2>3 DEF IdRead
    <3>2. QED
      BY <1>2, <3>1 DEF Entering
  <2>4. CASE ProgressNoted(r) \/ NotProjected(r)
    BY <1>1, <2>4 DEF ProgressNoted, NotProjected
  <2>5. QED
    BY <1>7, <2>1, <2>2, <2>3, <2>4 DEF Project
<1>8. CASE Migrate(r)
  <2>1. ASSUME NEW rows, MigrateRest(r, rows) PROVE Moves(r)
    BY <1>1, <1>2, <2>1 DEF MigrateRest, Entering
  <2>2. CASE LegacyRead(r) \/ LegacyAdopted(r)
    BY <2>1, <2>2 DEF LegacyRead, LegacyAdopted
  <2>3. CASE LegacyAdmitted(r)
    <3>1. \/ \E rows : MigrateRest(r, rows)
          \/ \E row, rows, tx : AddTransaction(r, row, rows, tx)
      BY <2>3 DEF LegacyAdmitted
    <3>2. QED
      BY <1>3, <2>1, <3>1
  <2>4. CASE LegacyBlockSaved(r)
    <3>1. PICK context : Continue(r, "UPDATE legacy", context)
      BY <2>4 DEF LegacyBlockSaved
    <3>2. "UPDATE legacy" \notin Entering
      BY DEF Entering
    <3>3. QED
      BY <1>2, <3>1, <3>2
  <2>5. CASE MigrationFails(r)
    BY <1>1, <2>5 DEF MigrationFails
  <2>6. QED
    BY <1>8, <2>2, <2>3, <2>4, <2>5 DEF Migrate
<1>9. QED
  BY <1>6, <1>7, <1>8

\* A request that comes waits for its first statement.
LEMMA RequestJoins ==
    ASSUME LockInv, VotesInv, NEW r \in Requests, req[r] = NULL, NEW q, q.req = r,
           queue' = queue \o <<q>> \/ queue' = Append(queue, q), reply' = reply,
           crashes' = crashes
    PROVE  VotesInv'
<1>1. /\ Len(queue) \in Nat
      /\ \A i \in 1..Len(queue) : i \in 1..Len(queue') /\ queue'[i] = queue[i]
      /\ \A i \in 1..Len(queue') : \/ i \in 1..Len(queue) /\ queue'[i] = queue[i]
                                   \/ i = Len(queue) + 1 /\ queue'[i] = q
  BY Appended DEF LockInv, QueueRight, IsSequence
<1>2. reply[r] = NULL /\ "connection lost" # NULL
  BY NullAssumption DEF LockInv, RequestsRight, RequestRight, Replies
<1>3. \A i \in 1..Len(queue) : queue[i].req # r
  BY DEF LockInv, QueueRight, EntryOK
<1>4. ASSUME NEW i \in 1..Len(queue')
      PROVE  /\ reply[queue'[i].req] # "connection lost"
             /\ queue'[i].stmt \in Entering =>
                   /\ reply[queue'[i].req] = NULL
                   /\ \A j \in 1..Len(queue') : queue'[j].req = queue'[i].req => j = i
  <2>1. CASE i \in 1..Len(queue) /\ queue'[i] = queue[i]
    <3> PICK p : p = queue[i]
      OBVIOUS
    <3>1. /\ queue'[i] = p /\ p.req # r /\ reply[p.req] # "connection lost"
          /\ p.stmt \in Entering =>
                /\ reply[p.req] = NULL
                /\ \A j \in 1..Len(queue) : queue[j].req = p.req => j = i
      BY <1>3, <2>1 DEF VotesInv
    <3>2. ASSUME NEW j \in 1..Len(queue'), queue'[j].req = p.req
          PROVE  j \in 1..Len(queue) /\ queue'[j] = queue[j]
      BY <1>1, <3>1, <3>2
    <3>3. QED
      BY <3>1, <3>2
  <2>2. CASE i = Len(queue) + 1 /\ queue'[i] = q
    BY <1>1, <1>2, <1>3, <2>2
  <2>3. QED
    BY <1>1, <2>1, <2>2
<1>5. QED
  BY <1>4 DEF VotesInv

\* A callback moves its own request only.
LEMMA MovesVotes ==
    ASSUME LockInv, VotesInv, NEW r \in Requests, queue # <<>>, Head(queue).req = r, Moves(r),
           crashes' = crashes
    PROVE  VotesInv' /\ (NobodyCutOff' => NobodyCutOff)
<1>1. PICK qs : GoesOnWith(r, qs)
  BY DEF Moves
<1>2. /\ IsSequence(queue) /\ IsSequence(qs) /\ Issue(qs) /\ Len(queue) \in Nat
      /\ DOMAIN reply = Requests
  <2>1. IsSequence(queue) /\ IsSequence(qs) /\ Issue(qs) /\ DOMAIN reply = Requests
    BY <1>1 DEF GoesOnWith, LockInv, QueueRight, RequestsRight
  <2>2. QED
    BY <2>1 DEF IsSequence
<1>3. /\ 1 \in 1..Len(queue) /\ Head(queue) = queue[1]
      /\ \A i \in 1..Len(queue') :
            \/ \E k \in 1..Len(queue) : k # 1 /\ i = k - 1 /\ queue'[i] = queue[k]
            \/ \E j \in 1..Len(qs) : i = Len(queue) - 1 + j /\ queue'[i] = qs[j]
  BY <1>2, Issued
<1>4. reply[r] # "connection lost" /\ queue[1].req = r
  BY <1>3 DEF VotesInv
<1>5. /\ \A s \in Requests : s # r => reply'[s] = reply[s]
      /\ reply'[r] # "connection lost"
  BY <1>2, <1>4 DEF Moves, Says
<1>6. \A k \in 1..Len(queue) : k # 1 /\ queue[k].stmt \in Entering => queue[k].req # r
  BY <1>3, <1>4 DEF VotesInv
<1>7. \A k \in 1..Len(queue) : queue[k].req \in Requests
  BY DEF LockInv, QueueRight, EntryOK
<1>8. ASSUME NEW i \in 1..Len(queue')
      PROVE  /\ reply'[queue'[i].req] # "connection lost"
             /\ queue'[i].stmt \in Entering =>
                   /\ reply'[queue'[i].req] = NULL
                   /\ \A j \in 1..Len(queue') : queue'[j].req = queue'[i].req => j = i
  <2>1. ASSUME NEW k \in 1..Len(queue), k # 1, i = k - 1, queue'[i] = queue[k]
        PROVE  /\ reply'[queue'[i].req] # "connection lost"
               /\ queue'[i].stmt \in Entering =>
                     /\ reply'[queue'[i].req] = NULL
                     /\ \A j \in 1..Len(queue') : queue'[j].req = queue'[i].req => j = i
    <3>1. reply'[queue'[i].req] # "connection lost"
      BY <1>5, <1>7, <2>1 DEF VotesInv
    <3>2. ASSUME queue'[i].stmt \in Entering
          PROVE  /\ reply'[queue'[i].req] = NULL
                 /\ \A j \in 1..Len(queue') : queue'[j].req = queue'[i].req => j = i
      <4>1. queue[k].req # r /\ queue[k].req \in Requests /\ reply[queue[k].req] = NULL
        BY <1>6, <1>7, <2>1, <3>2 DEF VotesInv
      <4>2. ASSUME NEW j \in 1..Len(queue'), queue'[j].req = queue'[i].req PROVE j = i
        <5>1. ASSUME NEW l \in 1..Len(queue), l # 1, j = l - 1, queue'[j] = queue[l]
              PROVE  j = i
          <6>1. l = k
            BY <2>1, <3>2, <4>2, <5>1 DEF VotesInv
          <6>2. QED
            BY <2>1, <5>1, <6>1
        <5>2. ~ \E l \in 1..Len(qs) : queue'[j] = qs[l]
          BY <1>1, <2>1, <4>1, <4>2 DEF GoesOnWith
        <5>3. QED
          BY <1>3, <5>1, <5>2
      <4>3. QED
        BY <1>5, <2>1, <4>1, <4>2
    <3>3. QED
      BY <3>1, <3>2
  <2>2. ASSUME NEW k \in 1..Len(qs), i = Len(queue) - 1 + k, queue'[i] = qs[k]
        PROVE  /\ reply'[queue'[i].req] # "connection lost"
               /\ queue'[i].stmt \in Entering =>
                     /\ reply'[queue'[i].req] = NULL
                     /\ \A j \in 1..Len(queue') : queue'[j].req = queue'[i].req => j = i
    <3>1. queue'[i].req = r
      BY <1>1, <2>2 DEF GoesOnWith
    <3>2. ASSUME queue'[i].stmt \in Entering
          PROVE  /\ reply'[queue'[i].req] = NULL
                 /\ \A j \in 1..Len(queue') : queue'[j].req = queue'[i].req => j = i
      <4>1. /\ Head(queue).stmt \in Entering /\ reply' = reply
            /\ \A l \in 1..Len(qs) : l = k
        BY <1>1, <2>2, <3>2 DEF GoesOnWith, Entering
      <4>2. reply[r] = NULL /\ \A l \in 1..Len(queue) : queue[l].req = r => l = 1
        BY <1>3, <1>4, <4>1 DEF VotesInv
      <4>3. ASSUME NEW j \in 1..Len(queue'), queue'[j].req = queue'[i].req PROVE j = i
        BY <1>3, <2>2, <3>1, <4>1, <4>2, <4>3
      <4>4. QED
        BY <3>1, <4>1, <4>2, <4>3
    <3>3. QED
      BY <1>5, <3>1, <3>2
  <2>3. QED
    BY <1>3, <2>1, <2>2
<1>9. NobodyCutOff' => NobodyCutOff
  BY <1>4, <1>5 DEF NobodyCutOff
<1>10. QED
  BY <1>8, <1>9 DEF VotesInv

LEMMA NextVotes ==
    LockInv /\ VotesInv /\ [CandidateNext]_allVars
        => VotesInv' /\ (OneRun' => OneRun /\ (up => up'))
<1> SUFFICES ASSUME LockInv, VotesInv, [CandidateNext]_allVars
             PROVE  VotesInv' /\ (OneRun' => OneRun /\ (up => up'))
  OBVIOUS
<1>1. "connection lost" # NULL
  BY NullAssumption DEF Replies
<1>2. ASSUME NEW r \in Requests, req[r] = NULL, NEW q, q.req = r,
             queue' = queue \o <<q>> \/ queue' = Append(queue, q), reply' = reply,
             crashes' = crashes, up' = up
      PROVE  VotesInv' /\ (OneRun' => OneRun /\ (up => up'))
  BY <1>2, RequestJoins DEF OneRun, NobodyCutOff
<1>3. ASSUME NEW r \in Requests, Arrive(r)
      PROVE  VotesInv' /\ (OneRun' => OneRun /\ (up => up'))
  <2>1. PICK input, stmt, block : Arrives(r, input, <<Query(r, stmt, block)>>)
    BY <1>3 DEF Arrive, CastVoteArrives, DeleteUserArrives, ResetUserVoteArrives, ResetAllArrives,
       ToggleArrives, HackArrives
  <2> PICK q : q = Query(r, stmt, block)
    OBVIOUS
  <2>2. q.req = r
    BY DEF Query
  <2>3. QED
    BY <1>2, <2>1, <2>2 DEF Arrives, lifecycle
<1>4. ASSUME NEW r \in Requests, CandidateArrive(r)
      PROVE  VotesInv' /\ (OneRun' => OneRun /\ (up => up'))
  <2>1. \A stmt, context : Query(r, stmt, context).req = r
    BY DEF Query
  <2>2. \E input, q : CandidateArrives(r, input, q) /\ q.req = r
    <3>1. CASE SubmitArrives(r)
      BY <2>1, <3>1 DEF SubmitArrives
    <3>2. CASE ResyncArrives(r)
      BY <3>2, ResyncStatement DEF ResyncArrives
    <3>3. CASE MigrateArrives(r)
      BY <2>1, <3>3 DEF MigrateArrives
    <3>4. QED
      BY <1>4, <3>1, <3>2, <3>3 DEF CandidateArrive
  <2>3. QED
    BY <1>2, <2>2 DEF CandidateArrives, lifecycle
<1>5. ASSUME NEW r \in Requests, Serve(r)
      PROVE  VotesInv' /\ (OneRun' => OneRun /\ (up => up'))
  <2>1. queue # <<>> /\ Head(queue).req = r /\ crashes' = crashes /\ up' = up
    BY <1>5, ServeTables DEF Serve, lifecycle
  <2>2. QED
    BY <1>5, <2>1, ServeMoves, MovesVotes DEF OneRun
<1>6. ASSUME NEW r \in Requests, CandidateServe(r)
      PROVE  VotesInv' /\ (OneRun' => OneRun /\ (up => up'))
  <2>1. queue # <<>> /\ Head(queue).req = r /\ crashes' = crashes /\ up' = up
    BY <1>6, SubmitTurned, ProjectTurned, MigrateTurned DEF CandidateServe, lifecycle, Turned,
       CandidateHead
  <2>2. QED
    BY <1>6, <2>1, CandidateMoves, MovesVotes DEF OneRun, CandidateServe
<1>7. ASSUME ProcessEnds, crashes' \in Nat PROVE VotesInv'
  <2>1. queue' = <<>>
    BY <1>7 DEF ProcessEnds
  <2>2. QED
    BY <1>7, <2>1, ShortSequences DEF VotesInv
<1>8. ASSUME NEW r \in Requests, FatalError(r)
      PROVE  VotesInv' /\ ~OneRun'
  <2>1. queue # <<>> /\ Head(queue).req = r /\ Head(queue).stmt \in Entering
    BY <1>8 DEF FatalError, UserIsGone, Executes, Entering
  <2>2. EntryOK(1) /\ 1 \in 1..Len(queue) /\ Head(queue) = queue[1]
    BY <2>1, HeadEntry DEF LockInv
  <2>3. reply[r] = NULL /\ req[r] # NULL
    BY <2>1, <2>2 DEF VotesInv, EntryOK
  <2>4. reply'[r] = "connection lost"
    BY <1>8, <2>3 DEF FatalError, ProcessEnds
  <2>5. ~OneRun'
    BY <2>4 DEF OneRun, NobodyCutOff
  <2>6. QED
    BY <1>7, <1>8, <2>5 DEF FatalError, VotesInv
<1>9. ASSUME CrashAny PROVE VotesInv' /\ ~OneRun'
  <2>1. ProcessEnds /\ crashes' = crashes + 1
    BY <1>9 DEF CrashAny, Crash, CandidateCrash
  <2>2. crashes \in Nat
    BY DEF VotesInv
  <2>3. crashes' \in Nat /\ crashes' # 0
    BY <2>1, <2>2
  <2>4. QED
    BY <1>7, <2>1, <2>3 DEF OneRun
<1>10. CASE RestartAny
  <2>1. UNCHANGED <<queue, req, reply, crashes>> /\ up'
    BY <1>10 DEF RestartAny, Restart
  <2>2. QED
    BY <2>1 DEF VotesInv, OneRun, NobodyCutOff
<1>11. CASE UNCHANGED allVars
  <2>1. UNCHANGED <<queue, reply, crashes, up>>
    BY <1>11 DEF allVars, vars, shared, memory
  <2>2. QED
    BY <2>1 DEF VotesInv, OneRun, NobodyCutOff
<1>12. QED
  BY <1>3, <1>4, <1>5, <1>6, <1>8, <1>9, <1>10, <1>11 DEF CandidateNext, ServeAny

LEMMA InitVotes == CandidateInit => VotesInv
<1> SUFFICES ASSUME CandidateInit PROVE VotesInv
  OBVIOUS
<1>1. queue = <<>> /\ crashes = 0
  BY DEF CandidateInit, Init, InitWith
<1>2. \A i \in 1..Len(queue) : FALSE
  BY <1>1, ShortSequences
<1>3. QED
  BY <1>1, <1>2 DEF VotesInv

(***************************************************************************)
(* Migrations that are apart: the rows one has left are still legacy rows, *)
(* and no candidate loses its candidate_ref.                               *)
(***************************************************************************)
Unadopted(rows) ==
    /\ \A i \in 1..Len(rows) : rows[i] \in LegacyRows
    /\ \A i, j \in 1..Len(rows) : rows[i] = rows[j] => i = j

RowsLeft(q) == IF q.stmt = "SELECT lock" THEN q.block ELSE q.block.rows

\* A statement of a migration, with the rows it has left.
Adopting(q) ==
    /\ q.stmt \in {"SELECT lock", SavesTx, "UPDATE legacy"}
    /\ req[q.req].op = "migrateLegacy"

Entitled(q) ==
    /\ q.stmt = "UPDATE legacy" => req[q.req].op = "migrateLegacy"
    /\ Adopting(q) => Unadopted(RowsLeft(q))
    /\ q.stmt = "SELECT last_tx_id" => RowsOf(req[q.req].candidate_ref) # {}

MigrationInv ==
    /\ NamedByRefs
    /\ MigrationsApart => \A i \in 1..Len(queue) : Entitled(queue[i])

LEMMA MigrationsStayApart ==
    ASSUME Steady, MigrationsApart'
    PROVE  MigrationsApart
<1> SUFFICES ASSUME NEW r \in Requests, NEW s \in Requests, Sent(r, "migrateLegacy"),
                    Sent(s, "migrateLegacy"), r # s
             PROVE  Apart(r, s)
  BY DEF MigrationsApart
<1>1. req[r] # NULL /\ req[s] # NULL /\ req'[r] = req[r] /\ req'[s] = req[s]
  BY DEF Sent, Steady
<1>2. Sent(r, "migrateLegacy")' /\ Sent(s, "migrateLegacy")'
  BY <1>1 DEF Sent
<1>3. Apart(r, s)'
  BY <1>2 DEF MigrationsApart
<1>4. QED
  BY <1>1, <1>3, SteadyToggles

\* No two of them are under way.
LEMMA OneMigration ==
    ASSUME LockInv, MigrationsApart, NEW i \in 1..Len(queue), NEW k \in 1..Len(queue),
           Adopting(queue[i]), Adopting(queue[k])
    PROVE  i = k
<1> PICK r, s : r = queue[i].req /\ s = queue[k].req
  OBVIOUS
<1>1. EntryOK(i) /\ EntryOK(k)
  BY DEF LockInv, QueueRight
<1>2. /\ r \in Requests /\ s \in Requests
      /\ Sent(r, "migrateLegacy") /\ Sent(s, "migrateLegacy")
  BY <1>1 DEF EntryOK, Adopting, Sent
<1>3. reply[r] = NULL /\ reply[s] = NULL /\ (s = r => k = i)
  BY <1>1, <1>2 DEF EntryOK, Watched, IsCandidate, CandidateHandlers, Sent
<1>4. CASE r # s
  <2>1. Apart(r, s)
    BY <1>2, <1>4 DEF MigrationsApart
  <2>2. RequestRight(r) /\ RequestRight(s) /\ req[r] # NULL /\ req[s] # NULL
    BY <1>2 DEF LockInv, RequestsRight, Sent
  <2>3. QED
    BY <1>3, <2>1, <2>2 DEF Apart, RequestRight
<1>5. QED
  BY <1>3, <1>4

\* What a statement leaves of the table's candidate_refs.
LEMMA RefsStay ==
    ASSUME TypesInv, NamedByRefs, NEW q, Typed(q), PerformCandidates(q),
           q.stmt = "UPDATE legacy" => Head(q.block.rows) \in LegacyRows
    PROVE  /\ \A ref \in Refs : RowsOf(ref) # {} => RowsOf(ref)' # {}
           /\ \A c \in LegacyRows :
                 (q.stmt = "UPDATE legacy" => c # Head(q.block.rows)) => c \in LegacyRows'
<1>1. NULL \notin Refs
  BY CandidateNullAssumption
<1>2. \A c \in LegacyRows : c \in DOMAIN candidates /\ candidates[c].candidate_ref = NULL
                            /\ c \notin Refs
  BY FreshIdAssumption DEF LegacyRows, RowsOf, TypesInv, TableOK
<1>3. q.stmt \in Writing => Head(q.block.rows) \in NewRows
  BY ListHead DEF Typed
<1>4. CASE ReadCandidates(q) \/ SaveTxBlock(q) \/ UpdateSyncState(q)
  <2>1. candidates' = candidates
    BY <1>4 DEF ReadCandidates, SaveTxBlock, UpdateSyncState, candidateTables
  <2>2. QED
    BY <2>1 DEF RowsOf, LegacyRows
<1>5. CASE InsertCandidate(q)
  <2> PICK row : row = Head(q.block.rows)
    OBVIOUS
  <2>1. /\ row.candidate_ref \in Refs
        /\ candidates' = [id \in DOMAIN candidates \cup {row.candidate_ref} |->
                              IF id = row.candidate_ref THEN row ELSE candidates[id]]
    BY <1>3, <1>5 DEF InsertCandidate, Writing, NewRows
  <2>2. ASSUME NEW ref \in Refs, RowsOf(ref) # {} PROVE RowsOf(ref)' # {}
    <3>1. PICK id \in DOMAIN candidates : candidates[id].candidate_ref = ref
      BY <2>2 DEF RowsOf
    <3>2. id \in DOMAIN candidates' /\ candidates'[id].candidate_ref = ref
      BY <2>1, <3>1 DEF NamedByRefs
    <3>3. QED
      BY <3>2 DEF RowsOf
  <2>3. ASSUME NEW c \in LegacyRows PROVE c \in LegacyRows'
    <3>1. c \in DOMAIN candidates' /\ candidates'[c] = candidates[c]
      BY <1>2, <2>1
    <3>2. QED
      BY <1>2, <3>1 DEF LegacyRows, RowsOf
  <2>4. QED
    BY <2>2, <2>3
<1>6. CASE UpdateCandidate(q)
  <2> PICK row : row = Head(q.block.rows)
    OBVIOUS
  <2>1. /\ row.candidate_ref \in Refs
        /\ candidates' = [id \in DOMAIN candidates |->
                              IF id \in RowsOf(row.candidate_ref) THEN row ELSE candidates[id]]
    BY <1>3, <1>6 DEF UpdateCandidate, Writing, NewRows
  <2>2. \A id \in DOMAIN candidates :
            /\ id \in DOMAIN candidates'
            /\ candidates'[id].candidate_ref = candidates[id].candidate_ref
    BY <2>1 DEF RowsOf
  <2>3. QED
    BY <2>2 DEF RowsOf, LegacyRows
<1>7. CASE AdoptLegacy(q)
  <2> PICK c : c = Head(q.block.rows)
    OBVIOUS
  <2>1. c \in LegacyRows
    BY <1>7 DEF AdoptLegacy
  <2>2. \A id \in DOMAIN candidates : /\ id \in DOMAIN candidates'
                                      /\ id # c => candidates'[id] = candidates[id]
    BY <1>7 DEF AdoptLegacy
  <2>3. ASSUME NEW ref \in Refs, RowsOf(ref) # {} PROVE RowsOf(ref)' # {}
    <3>1. PICK id \in DOMAIN candidates : candidates[id].candidate_ref = ref
      BY <2>3 DEF RowsOf
    <3>2. id # c
      BY <1>1, <1>2, <2>1, <3>1
    <3>3. id \in DOMAIN candidates' /\ candidates'[id].candidate_ref = ref
      BY <2>2, <3>1, <3>2
    <3>4. QED
      BY <3>3 DEF RowsOf
  <2>4. ASSUME NEW d \in LegacyRows, d # c PROVE d \in LegacyRows'
    <3>1. d \in DOMAIN candidates' /\ candidates'[d] = candidates[d]
      BY <1>2, <2>2, <2>4
    <3>2. QED
      BY <1>2, <3>1 DEF LegacyRows, RowsOf
  <2>5. q.stmt = "UPDATE legacy"
    BY <1>7 DEF AdoptLegacy
  <2>6. QED
    BY <2>3, <2>4, <2>5
<1>8. QED
  BY <1>4, <1>5, <1>6, <1>7 DEF PerformCandidates

LEMMA OtherEntitled ==
    ASSUME NEW q, q.stmt \notin {"SELECT lock", SavesTx, "UPDATE legacy", "SELECT last_tx_id"}
    PROVE  Entitled(q)'
BY DEF Entitled, Adopting

\* An entry keeps what it stands on if the table does.
LEMMA EntitledStays ==
    ASSUME Steady, NEW q, q.req \in Requests, req[q.req] # NULL, Typed(q), Entitled(q),
           \A ref \in Refs : RowsOf(ref) # {} => RowsOf(ref)' # {},
           Adopting(q) => \A c \in LegacyRows : c \in LegacyRows'
    PROVE  Entitled(q)'
<1>1. req'[q.req] = req[q.req]
  BY DEF Steady
<1>2. ASSUME q.stmt = "SELECT last_tx_id"
      PROVE  (RowsOf(req[q.req].candidate_ref) # {})'
  <2> PICK ref : ref = req[q.req].candidate_ref
    OBVIOUS
  <2>1. ref \in Refs
    BY <1>2 DEF Typed, PastLock, SubmissionOK, CandidateSteps
  <2>2. RowsOf(ref)' # {}
    BY <1>2, <2>1 DEF Entitled
  <2>3. QED
    BY <1>1, <2>2 DEF RowsOf
<1>3. ASSUME Adopting(q)'
      PROVE  Unadopted(RowsLeft(q))'
  <2> PICK rows : rows = RowsLeft(q)
    OBVIOUS
  <2>1. Adopting(q)
    BY <1>1, <1>3 DEF Adopting
  <2>2. Unadopted(rows) /\ \A c \in LegacyRows : c \in LegacyRows'
    BY <2>1 DEF Entitled
  <2>3. Unadopted(rows)'
    BY <2>2 DEF Unadopted
  <2>4. QED
    BY <2>3 DEF RowsLeft
<1>4. QED
  BY <1>1, <1>2, <1>3 DEF Entitled

LEMMA SameRefs ==
    ASSUME UNCHANGED candidateVars
    PROVE  /\ \A ref : RowsOf(ref)' = RowsOf(ref)
           /\ LegacyRows' = LegacyRows
BY DEF candidateVars, candidateTables, RowsOf, LegacyRows

LEMMA SameEntitled ==
    ASSUME LockInv, TypesInv, MigrationInv, MigrationsApart, Steady, UNCHANGED candidateVars,
           NEW k \in 1..Len(queue), NEW q, q = queue[k]
    PROVE  Entitled(q)'
<1>1. q.req \in Requests /\ req[q.req] # NULL /\ Typed(q) /\ Entitled(q)
  BY DEF LockInv, QueueRight, EntryOK, TypesInv, MigrationInv
<1>2. \A ref : RowsOf(ref)' = RowsOf(ref)
  BY SameRefs
<1>3. LegacyRows' = LegacyRows
  BY SameRefs
<1>4. (\A ref \in Refs : RowsOf(ref) # {} => RowsOf(ref)' # {})
      /\ \A c \in LegacyRows : c \in LegacyRows'
  BY <1>2, <1>3
<1>5. QED
  BY <1>1, <1>4, EntitledStays

\* The first statement is performed: what waits behind it is not of the same
\* migration.
LEMMA RestEntitled ==
    ASSUME LockInv, TypesInv, MigrationInv, MigrationsApart, Steady, queue # <<>>,
           PerformCandidates(Head(queue)), NEW k \in 1..Len(queue), k # 1, NEW q, q = queue[k]
    PROVE  Entitled(q)'
<1> PICK h : h = Head(queue)
  OBVIOUS
<1>1. /\ h = queue[1] /\ 1 \in 1..Len(queue) /\ Typed(h) /\ Entitled(h)
  BY HeadTyped DEF MigrationInv
<1>2. q.req \in Requests /\ req[q.req] # NULL /\ Typed(q) /\ Entitled(q)
  BY DEF LockInv, QueueRight, EntryOK, TypesInv, MigrationInv
<1>3. h.stmt = "UPDATE legacy" => Adopting(h) /\ Head(h.block.rows) \in LegacyRows
  <2> SUFFICES ASSUME h.stmt = "UPDATE legacy"
               PROVE  Adopting(h) /\ Head(h.block.rows) \in LegacyRows
    OBVIOUS
  <2>1. Adopting(h) /\ Unadopted(h.block.rows)
    BY <1>1 DEF Entitled, Adopting, RowsLeft
  <2>2. h.block.rows \in Seq(Candidates) /\ h.block.rows # <<>>
    BY <1>1 DEF Typed, LegacyList
  <2>3. 1 \in 1..Len(h.block.rows) /\ Head(h.block.rows) = h.block.rows[1]
    BY <2>2, ListHead
  <2>4. QED
    BY <2>1, <2>3 DEF Unadopted
<1>4. \A ref \in Refs : RowsOf(ref) # {} => RowsOf(ref)' # {}
  BY <1>1, <1>3, RefsStay DEF MigrationInv
<1>5. h.stmt # "UPDATE legacy" => \A c \in LegacyRows : c \in LegacyRows'
  BY <1>1, RefsStay DEF MigrationInv
<1>6. Adopting(q) => h.stmt # "UPDATE legacy"
  BY <1>1, <1>3, OneMigration
<1>7. QED
  BY <1>2, <1>4, <1>5, <1>6, EntitledStays

\* The rows after the first.
LEMMA LeftOver ==
    ASSUME NEW rows \in Seq(Candidates), rows # <<>>, Unadopted(rows)
    PROVE  /\ Unadopted(Tail(rows)) /\ Head(rows) \in LegacyRows
           /\ \A i \in 1..Len(Tail(rows)) : Tail(rows)[i] # Head(rows)
<1>1. /\ 1 \in 1..Len(rows) /\ Head(rows) = rows[1] /\ Tail(rows) \in Seq(Candidates)
      /\ \A i \in 1..Len(Tail(rows)) : i + 1 \in 1..Len(rows) /\ Tail(rows)[i] = rows[i + 1]
  BY ListHead
<1>2. \A i \in 1..Len(Tail(rows)) : i \in Nat \ {0} /\ i + 1 # 1
  BY <1>1
<1>3. \A i, j \in 1..Len(Tail(rows)) : i + 1 = j + 1 => i = j
  BY <1>2
<1>4. QED
  BY <1>1, <1>2, <1>3 DEF Unadopted

LEMMA OtherRowsStatement ==
    ASSUME NEW r, NEW q, ToOtherRows(r, q)
    PROVE  q.stmt \in {"SELECT id", "UPDATE sync_state"}
<1>1. PICK rows, index : q = Write(r, rows, index)
  BY DEF ToOtherRows
<1>2. \A left, i : Write(r, left, i).stmt \in {"SELECT id", "UPDATE sync_state"}
  BY WriteStatement
<1>3. QED
  BY <1>1, <1>2

\* What a callback issues next.
LEMMA IssuedEntitled ==
    ASSUME LockInv, TypesInv, MigrationInv, MigrationsApart, Steady, NEW r, CandidateHead(r),
           PerformCandidates(Head(queue)), NEW q, q.req = r, Issues(r, q)
    PROVE  Entitled(q)'
<1> PICK h : h = Head(queue)
  OBVIOUS
<1>1. /\ h = queue[1] /\ 1 \in 1..Len(queue) /\ Typed(h) /\ Entitled(h) /\ h.req = r
      /\ PerformCandidates(h) /\ req' = req /\ queue # <<>>
  BY HeadTyped DEF MigrationInv, CandidateHead
<1>2. NamedByRefs
  BY DEF MigrationInv
<1>3. h.stmt # "UPDATE legacy" =>
          /\ \A ref \in Refs : RowsOf(ref) # {} => RowsOf(ref)' # {}
          /\ \A c \in LegacyRows : c \in LegacyRows'
  BY <1>1, <1>2, RefsStay
<1>4. CASE q.stmt \notin {"SELECT lock", SavesTx, "UPDATE legacy", "SELECT last_tx_id"}
  BY <1>4, OtherEntitled
<1>5. CASE ToLastTxId(r, q)
  <2> PICK ref : ref = req[r].candidate_ref
    OBVIOUS
  <2>1. h.stmt = "SELECT existing" /\ q.stmt = "SELECT last_tx_id" /\ RowsOf(ref) # {}
    BY <1>5 DEF ToLastTxId
  <2>2. ref \in Refs
    BY <1>1, <2>1 DEF Typed, PastLock, SubmissionOK, CandidateSteps
  <2>3. RowsOf(ref)' # {}
    BY <1>3, <2>1, <2>2
  <2>4. (RowsOf(req[r].candidate_ref) # {})'
    BY <1>1, <2>3 DEF RowsOf
  <2>5. QED
    BY <2>1, <2>4 DEF Entitled, Adopting, SavesTx
<1>6. ASSUME h.stmt # "UPDATE legacy", NEW rows, RowsLeft(q) = rows,
             req[r].op = "migrateLegacy" => Unadopted(rows),
             q.stmt \in {"SELECT lock", SavesTx, "UPDATE legacy"},
             q.stmt = "UPDATE legacy" => req[r].op = "migrateLegacy"
      PROVE  Entitled(q)'
  <2>1. req[r].op = "migrateLegacy" => Unadopted(rows)'
    BY <1>3, <1>6 DEF Unadopted
  <2>2. RowsLeft(q)' = rows
    BY <1>6 DEF RowsLeft
  <2>3. QED
    BY <1>1, <1>6, <2>1, <2>2 DEF Entitled, Adopting, SavesTx
<1>7. ASSUME NEW row, NEW rows, NEW tx, NEW b, ToBlock(r, q, row, rows, tx, b)
      PROVE  Entitled(q)'
  <2>1. q.stmt = SavesTx /\ RowsLeft(q) = rows /\ Adds(r, row, rows, tx)
    BY <1>7 DEF ToBlock, RowsLeft, SavesTx
  <2>2. req[r].op = "migrateLegacy" => h.stmt = "SELECT lock" /\ rows = h.block
    BY <1>1, <2>1 DEF Adds, Submitting, Typed, PastLock
  <2>3. req[r].op = "migrateLegacy" => Unadopted(rows)
    BY <1>1, <2>2 DEF Entitled, Adopting, RowsLeft
  <2>4. h.stmt # "UPDATE legacy"
    BY <2>1 DEF Adds
  <2>5. QED
    BY <1>6, <2>1, <2>3, <2>4 DEF SavesTx
<1>8. CASE ToAdoption(r, q)
  <2>1. /\ h.stmt = SavesTx /\ q.stmt = "UPDATE legacy" /\ q.block = h.block
        /\ req[r].op = "migrateLegacy"
    BY <1>8 DEF ToAdoption, Migrating
  <2>2. Unadopted(h.block.rows) /\ RowsLeft(q) = h.block.rows
    BY <1>1, <2>1 DEF Entitled, Adopting, RowsLeft, SavesTx
  <2>3. QED
    BY <1>6, <2>1, <2>2 DEF SavesTx
<1>9. CASE ToOtherLegacy(r, q)
  <2>1. q.stmt = "SELECT lock" /\ RowsLeft(q) = q.block
    BY <1>9 DEF ToOtherLegacy, RowsLeft
  <2>2. CASE h.stmt = "SELECT legacy" /\ q.block \in Orders(LegacyRows)
    <3>1. Unadopted(q.block)
      BY <2>2, LegacyOrder DEF Unadopted
    <3>2. QED
      BY <1>6, <2>1, <2>2, <3>1
  <2>3. CASE h.stmt = "SELECT lock" /\ Migrating(r) /\ q.block = Tail(h.block)
    <3>1. /\ Unadopted(h.block) /\ h.block \in Seq(Candidates) /\ h.block # <<>>
      BY <1>1, <2>3 DEF Entitled, Adopting, RowsLeft, Typed, LegacyList, Migrating
    <3>2. Unadopted(q.block)
      BY <2>3, <3>1, LeftOver
    <3>3. QED
      BY <1>6, <2>1, <2>3, <3>2
  <2>4. CASE h.stmt = "UPDATE legacy" /\ q.block = Tail(h.block.rows)
    <3> PICK left, c : left = h.block.rows /\ c = Head(left)
      OBVIOUS
    <3>1. Unadopted(left) /\ left \in Seq(Candidates) /\ left # <<>>
      BY <1>1, <2>4 DEF Entitled, Adopting, RowsLeft, Typed, LegacyList
    <3> PICK rows : rows = q.block
      OBVIOUS
    <3>2. Unadopted(rows) /\ c \in LegacyRows /\ \A i \in 1..Len(rows) : rows[i] # c
      BY <2>4, <3>1, LeftOver
    <3>3. \A d \in LegacyRows : d # c => d \in LegacyRows'
      BY <1>1, <1>2, <3>2, RefsStay
    <3>4. Unadopted(rows)'
      BY <3>2, <3>3 DEF Unadopted
    <3>5. RowsLeft(q)' = rows
      BY <2>1 DEF RowsLeft
    <3>6. QED
      BY <2>1, <3>4, <3>5 DEF Entitled
  <2>5. QED
    BY <1>9, <2>2, <2>3, <2>4 DEF ToOtherLegacy
<1>10. CASE ToProjection(r, q)
  <2>1. q.stmt \in {"SELECT row", "SELECT id", "UPDATE sync_state"}
    BY <1>10, ResyncStatement DEF ToProjection
  <2>2. QED
    BY <1>4, <2>1 DEF SavesTx
<1>11. CASE ToOtherRows(r, q)
  <2>1. q.stmt \in {"SELECT id", "UPDATE sync_state"}
    BY <1>11, OtherRowsStatement
  <2>2. QED
    BY <1>4, <2>1 DEF SavesTx
<1>12. CASE ToExisting(r, q) \/ ToUpsert(r, q) \/ ToRow(r, q)
  BY <1>4, <1>12 DEF ToExisting, ToUpsert, ToRow, SavesTx
<1>13. QED
  BY <1>5, <1>7, <1>8, <1>9, <1>10, <1>11, <1>12 DEF Issues

LEMMA SlidesEntitled ==
    ASSUME NEW d, NEW New, Slides(d, New), \A q \in New : Entitled(q)',
           \A k \in 1..Len(queue) : \A q : k > d /\ q = queue[k] => Entitled(q)'
    PROVE  (\A i \in 1..Len(queue) : Entitled(queue[i]))'
<1> SUFFICES ASSUME NEW i \in 1..Len(queue') PROVE Entitled(queue[i])'
  OBVIOUS
<1> PICK q : q = queue'[i]
  OBVIOUS
<1>1. Entitled(q)'
  <2>1. CASE i + d \in 1..Len(queue) /\ q = queue[i + d]
    <3>1. i + d > d
      <4>1. i \in 1..Len(queue') /\ Len(queue') \in Nat /\ d \in {0, 1}
        BY DEF Slides, IsSequence
      <4>2. QED
        BY <4>1
    <3>2. QED
      BY <2>1, <3>1
  <2>2. CASE q \in New
    BY <2>2
  <2>3. CASE q.stmt \notin CandidateSteps
    BY <2>3, OtherEntitled DEF CandidateSteps, PastLock
  <2>4. QED
    BY <2>1, <2>2, <2>3 DEF Slides
<1>2. q = queue[i]'
  OBVIOUS
<1>3. QED
  BY <1>1, <1>2 DEF Entitled, Adopting, RowsLeft, Unadopted, LegacyRows, RowsOf

LEMMA NextMigration ==
    LockInv /\ TypesInv /\ MigrationInv /\ [CandidateNext]_allVars => MigrationInv'
<1> SUFFICES ASSUME LockInv, TypesInv, MigrationInv, [CandidateNext]_allVars PROVE MigrationInv'
  OBVIOUS
<1>1. ASSUME Steady, NamedByRefs', NEW d, NEW New, Slides(d, New),
             MigrationsApart => \A q \in New : Entitled(q)',
             \/ UNCHANGED candidateVars
             \/ d = 1 /\ queue # <<>> /\ PerformCandidates(Head(queue))
      PROVE  MigrationInv'
  <2>1. SUFFICES ASSUME MigrationsApart' PROVE (\A i \in 1..Len(queue) : Entitled(queue[i]))'
    BY <1>1 DEF MigrationInv
  <2>2. MigrationsApart
    BY <1>1, <2>1, MigrationsStayApart
  <2>3. ASSUME NEW k \in 1..Len(queue), NEW q, k > d, q = queue[k] PROVE Entitled(q)'
    <3>1. CASE UNCHANGED candidateVars
      BY <1>1, <2>2, <2>3, <3>1, SameEntitled
    <3>2. CASE d = 1 /\ queue # <<>> /\ PerformCandidates(Head(queue))
      <4>1. k # 1
        BY <2>3, <3>2
      <4>2. QED
        BY <1>1, <2>2, <2>3, <3>2, <4>1, RestEntitled
    <3>3. QED
      BY <1>1, <3>1, <3>2
  <2>4. QED
    BY <1>1, <2>2, <2>3, SlidesEntitled
<1>2. UNCHANGED candidateVars => NamedByRefs'
  BY DEF MigrationInv, NamedByRefs, candidateVars, candidateTables
<1>3. queue # <<>> /\ PerformCandidates(Head(queue)) => NamedByRefs'
  BY NamesKept DEF MigrationInv
<1>4. CASE Aside
  BY <1>1, <1>2, <1>4 DEF Aside
<1>5. ASSUME NEW r, NEW q, Comes(r, q) PROVE MigrationInv'
  <2>1. UNCHANGED candidateVars /\ Steady /\ Slides(0, {q}) /\ q.req = r
    BY <1>5 DEF Comes
  <2>2. Entitled(q)'
    <3>1. CASE req'[r].op = "submitTransaction" /\ q.stmt = "SELECT lock"
      BY <2>1, <3>1 DEF Entitled, Adopting
    <3>2. CASE q.stmt \in {"SELECT id", "UPDATE sync_state", "SELECT legacy"}
      BY <3>2, OtherEntitled DEF SavesTx
    <3>3. \/ req'[r].op = "submitTransaction" /\ q.stmt = "SELECT lock"
          \/ q = Resync(r) \/ q.stmt = "SELECT legacy"
      BY <1>5 DEF Comes
    <3>4. q = Resync(r) => q.stmt \in {"SELECT id", "UPDATE sync_state"}
      BY ResyncStatement
    <3>5. QED
      BY <3>1, <3>2, <3>3, <3>4
  <2>3. QED
    BY <1>1, <1>2, <2>1, <2>2
<1>6. ASSUME NEW r, Turned(r) PROVE MigrationInv'
  <2>1. CandidateHead(r) /\ Steady /\ queue # <<>>
    BY <1>6 DEF Turned, CandidateHead
  <2>2. CASE Founders(r)
    BY <1>1, <1>2, <2>1, <2>2 DEF Founders
  <2>3. CASE Succeeded /\ Slides(1, {})
    BY <1>1, <1>3, <2>1, <2>3 DEF Succeeded
  <2>4. ASSUME Succeeded, NEW q, q.req = r, Slides(1, {q}), Issues(r, q) PROVE MigrationInv'
    <3>1. PerformCandidates(Head(queue)) /\ NamedByRefs'
      BY <1>3, <2>1, <2>4 DEF Succeeded
    <3>2. MigrationsApart => Entitled(q)'
      BY <2>1, <2>4, <3>1, IssuedEntitled
    <3>3. QED
      BY <1>1, <2>1, <2>4, <3>1, <3>2
  <2>5. QED
    BY <1>6, <2>2, <2>3, <2>4 DEF Turned
<1>7. CASE Breaks
  <2>1. NamedByRefs'
    BY <1>3, <1>7 DEF Breaks, MigrationInv, NamedByRefs, candidateTables
  <2>2. queue' = <<>> /\ 1..Len(<<>>) = {}
    BY <1>7, ShortSequences DEF Breaks
  <2>3. QED
    BY <2>1, <2>2 DEF MigrationInv
<1>8. CASE Resumes
  <2>1. UNCHANGED <<queue, candidates>> /\ Steady
    BY <1>8 DEF Resumes
  <2>2. NamedByRefs'
    BY <2>1 DEF MigrationInv, NamedByRefs
  <2>3. ASSUME MigrationsApart', NEW k \in 1..Len(queue) PROVE Entitled(queue[k])'
    <3> PICK q : q = queue[k]
      OBVIOUS
    <3>1. MigrationsApart
      BY <2>1, <2>3, MigrationsStayApart
    <3>2. q.req \in Requests /\ req[q.req] # NULL /\ Typed(q) /\ Entitled(q)
      BY <3>1 DEF LockInv, QueueRight, EntryOK, TypesInv, MigrationInv
    <3>3. (\A ref \in Refs : RowsOf(ref) # {} => RowsOf(ref)' # {})
          /\ \A c \in LegacyRows : c \in LegacyRows'
      BY <2>1 DEF RowsOf, LegacyRows
    <3>4. Entitled(q)'
      BY <2>1, <3>2, <3>3, EntitledStays
    <3>5. QED
      BY <2>1, <3>4 DEF Entitled, Adopting, RowsLeft, Unadopted, LegacyRows, RowsOf
  <2>4. QED
    BY <2>1, <2>2, <2>3 DEF MigrationInv
<1>9. QED
  BY <1>4, <1>5, <1>6, <1>7, <1>8, StepKinds

LEMMA InitMigration == CandidateInit => MigrationInv
<1> SUFFICES ASSUME CandidateInit PROVE MigrationInv
  OBVIOUS
<1>1. queue = <<>> /\ candidates = [c \in Candidates |-> LegacyRow(c)]
  BY DEF CandidateInit, Init, InitWith
<1>2. \A i \in 1..Len(queue) : FALSE
  BY <1>1, ShortSequences
<1>3. NamedByRefs
  BY <1>1, FreshIdAssumption DEF NamedByRefs
<1>4. QED
  BY <1>2, <1>3 DEF MigrationInv

(***************************************************************************)
(* One run: every row is the work of a block in memory.                    *)
(***************************************************************************)
InMemory(b) == b.index # 0 /\ \E i \in 1..Len(candidateChain) : candidateChain[i] = b

Known(row) == \E i \in 1..Len(candidateChain) : MadeBy(row, candidateChain[i])

EntryKnown(q) ==
    /\ q.stmt = "SELECT row" => InMemory(q.block)
    /\ q.stmt \in {SavesTx, "UPDATE legacy"} => InMemory(q.block.block)
    /\ q.stmt \in Writing => \A i \in 1..Len(q.block.rows) : Known(q.block.rows[i])

TableKnown ==
    \A id \in DOMAIN candidates :
        candidates[id].candidate_ref # NULL => Known(candidates[id])

KnownInv ==
    OneRun => up /\ TableKnown /\ \A i \in 1..Len(queue) : EntryKnown(queue[i])

\* The chain in memory grows at most.
Longer ==
    \A i \in 1..Len(candidateChain) :
        i \in 1..Len(candidateChain') /\ candidateChain'[i] = candidateChain[i]

LEMMA KnownStays ==
    ASSUME Longer
    PROVE  /\ \A b : InMemory(b) => InMemory(b)'
           /\ \A row : Known(row) => Known(row)'
<1>1. ASSUME NEW b, InMemory(b) PROVE InMemory(b)'
  BY <1>1 DEF Longer, InMemory
<1>2. ASSUME NEW row, Known(row) PROVE Known(row)'
  <2>1. PICK i \in 1..Len(candidateChain) : MadeBy(row, candidateChain[i])
    BY <1>2 DEF Known
  <2>2. i \in 1..Len(candidateChain') /\ MadeBy(row, candidateChain'[i])
    BY <2>1 DEF Longer
  <2>3. \E j \in 1..Len(candidateChain') : MadeBy(row, candidateChain'[j])
    BY <2>2
  <2>4. QED
    BY <2>3 DEF Known, MadeBy
<1>3. QED
  BY <1>1, <1>2

LEMMA MemoryKnows ==
    ASSUME NEW b, InMemory(b), NEW row, MadeBy(row, b)
    PROVE  Known(row)
BY DEF InMemory, Known

LEMMA EntryStaysKnown ==
    ASSUME Longer, NEW q, EntryKnown(q)
    PROVE  EntryKnown(q)'
<1>1. q.stmt = "SELECT row" => InMemory(q.block)'
  BY KnownStays DEF EntryKnown
<1>2. q.stmt \in {SavesTx, "UPDATE legacy"} => InMemory(q.block.block)'
  BY KnownStays DEF EntryKnown
<1>3. ASSUME q.stmt \in Writing, NEW i \in 1..Len(q.block.rows) PROVE Known(q.block.rows[i])'
  <2>1. PICK row : row = q.block.rows[i]
    OBVIOUS
  <2>2. Known(row)'
    BY <1>3, <2>1, KnownStays DEF EntryKnown
  <2>3. QED
    BY <2>1, <2>2
<1>4. QED
  BY <1>1, <1>2, <1>3 DEF EntryKnown

LEMMA WriteKnown ==
    ASSUME NEW r, NEW rows, NEW index, \A i \in 1..Len(rows) : Known(rows[i]),
           NEW q, q = Write(r, rows, index)
    PROVE  EntryKnown(q)
<1>1. CASE rows = <<>>
  <2>1. q.stmt = "UPDATE sync_state"
    BY <1>1 DEF Write, NoteProgress, Query
  <2>2. QED
    BY <2>1 DEF EntryKnown, Writing, SavesTx
<1>2. CASE rows # <<>>
  <2>1. q.stmt = "SELECT id" /\ q.block.rows = rows
    BY <1>2 DEF Write, Upsert, Query
  <2>2. QED
    BY <2>1 DEF EntryKnown, Writing, SavesTx
<1>3. QED
  BY <1>1, <1>2

LEMMA ResyncKnown ==
    ASSUME ChainOK(candidateChain), NEW r, NEW q, q = Resync(r)
    PROVE  EntryKnown(q)
<1> PICK rows : rows = Replay(candidateChain)
  OBVIOUS
<1>1. \A i \in 1..Len(rows) : Known(rows[i])
  BY ReplayRows DEF RowsFrom, Known
<1>2. q = Write(r, rows, NULL)
  BY DEF Resync
<1>3. QED
  BY <1>1, <1>2, WriteKnown

LEMMA PerformKnown ==
    ASSUME TypesInv, NEW h, Typed(h), PerformCandidates(h), TableKnown, EntryKnown(h), Longer
    PROVE  TableKnown'
<1>1. SUFFICES ASSUME NEW id \in DOMAIN candidates', candidates'[id].candidate_ref # NULL
               PROVE  \E row : row = candidates'[id] /\ Known(row)'
  <2>1. ASSUME NEW id \in DOMAIN candidates', NEW row, row = candidates'[id], Known(row)'
        PROVE  Known(candidates[id])'
    BY <2>1 DEF Known
  <2>2. QED
    BY <1>1, <2>1 DEF TableKnown
<1>2. \A row : Known(row) => Known(row)'
  BY KnownStays
<1>3. id \in DOMAIN candidates => candidates[id].candidate_ref = NULL \/ Known(candidates[id])
  BY DEF TableKnown
<1>4. PICK row : row = candidates'[id]
  OBVIOUS
<1>5. CASE id \in DOMAIN candidates /\ row = candidates[id]
  <2>1. Known(row)
    BY <1>1, <1>3, <1>4, <1>5
  <2>2. QED
    BY <1>2, <1>4, <2>1
<1>6. CASE h.stmt \in Writing /\ row = Head(h.block.rows)
  <2>1. h.block.rows \in Seq(NewRows) /\ h.block.rows # <<>>
    BY <1>6 DEF Typed
  <2>2. Head(h.block.rows) = h.block.rows[1] /\ 1 \in 1..Len(h.block.rows)
    BY <2>1, ListHead
  <2>3. Known(row)
    BY <1>6, <2>2 DEF EntryKnown
  <2>4. QED
    BY <1>2, <1>4, <2>3
<1>7. CASE h.stmt = "UPDATE legacy" /\ MadeBy(row, h.block.block)
  <2>1. Known(row)
    BY <1>7, MemoryKnows DEF EntryKnown
  <2>2. QED
    BY <1>2, <1>4, <2>1
<1>8. CASE UNCHANGED candidates
  BY <1>4, <1>5, <1>8
<1>9. CASE InsertCandidate(h)
  <2>1. row = Head(h.block.rows) \/ (id \in DOMAIN candidates /\ row = candidates[id])
    BY <1>4, <1>9 DEF InsertCandidate
  <2>2. QED
    BY <1>5, <1>6, <1>9, <2>1 DEF InsertCandidate, Writing
<1>10. CASE UpdateCandidate(h)
  <2>1. row = Head(h.block.rows) \/ (id \in DOMAIN candidates /\ row = candidates[id])
    BY <1>4, <1>10 DEF UpdateCandidate
  <2>2. QED
    BY <1>5, <1>6, <1>10, <2>1 DEF UpdateCandidate, Writing
<1>11. CASE AdoptLegacy(h)
  <2> DEFINE tx == TxOf(h.block.block)
             new(old) == [old EXCEPT !.candidate_ref = tx.candidate_ref, !.status = "ACTIVE",
                                     !.last_tx_id = tx.tx_id,
                                     !.verified_at_block_index = h.block.block.index]
  <2>1. id \in DOMAIN candidates /\ (row = candidates[id] \/ row = new(candidates[id]))
    BY <1>4, <1>11 DEF AdoptLegacy
  <2>2. h.stmt = "UPDATE legacy" /\ h.block.block.index # 0
    BY <1>11 DEF AdoptLegacy, EntryKnown, InMemory
  <2>3. candidates[id] \in Rows
    BY <2>1 DEF TypesInv, TableOK
  <2>4. row = new(candidates[id]) => MadeBy(row, h.block.block)
    BY <2>2, <2>3 DEF MadeBy, Rows
  <2>5. QED
    BY <1>5, <1>7, <2>1, <2>2, <2>4
<1>12. QED
  BY <1>8, <1>9, <1>10, <1>11 DEF PerformCandidates, ReadCandidates, SaveTxBlock,
     UpdateSyncState, candidateTables

\* What a callback issues next.
LEMMA IssuesKnown ==
    ASSUME LockInv, TypesInv, NEW r, CandidateHead(r), EntryKnown(Head(queue)), NEW q,
           Issues(r, q)
    PROVE  Longer /\ EntryKnown(q)'
<1> PICK h : h = Head(queue)
  OBVIOUS
<1>1. EntryKnown(h) /\ Typed(h) /\ Sized
  BY HeadHeld DEF Sized, LockInv, QueueRight, LedgersRight, LedgerOK
<1>2. ASSUME candidateChain' = candidateChain, EntryKnown(q) PROVE Longer /\ EntryKnown(q)'
  <2>1. Longer
    BY <1>2 DEF Longer
  <2>2. QED
    BY <1>2, <2>1, EntryStaysKnown
<1>3. ASSUME NEW row, NEW rows, NEW tx, NEW b, ToBlock(r, q, row, rows, tx, b)
      PROVE  Longer /\ EntryKnown(q)'
  <2>1. /\ Len(candidateChain) \in Nat /\ b.index = Len(candidateChain)
        /\ q.stmt = SavesTx /\ q.block.block = b
        /\ candidateChain' = Append(candidateChain, b)
    BY <1>1, <1>3, Sizes DEF ToBlock
  <2>2. /\ Len(candidateChain') = Len(candidateChain) + 1
        /\ candidateChain'[Len(candidateChain) + 1] = b
        /\ \A i \in 1..Len(candidateChain) : candidateChain'[i] = candidateChain[i]
    BY <1>1, <2>1, Sizes
  <2>3. Longer /\ \E i \in 1..Len(candidateChain') : candidateChain'[i] = b
    BY <2>1, <2>2 DEF Longer
  <2>4. b.index # 0
    <3>1. candidateChain # <<>>
      BY HeadHeld
    <3>2. Len(candidateChain) # 0
      BY <1>1, <3>1 DEF Sized, IsSequence
    <3>3. QED
      BY <2>1, <3>2
  <2>5. InMemory(b)'
    BY <2>3, <2>4 DEF InMemory
  <2>6. QED
    BY <2>1, <2>3, <2>5 DEF EntryKnown, Writing, SavesTx
<1>4. CASE ToProjection(r, q)
  <2>1. q = Resync(r) => EntryKnown(q)
    BY ResyncKnown DEF TypesInv
  <2>2. ASSUME q.stmt = "SELECT row", q.block = h.block.block, h.stmt = SavesTx
        PROVE  EntryKnown(q)
    BY <1>1, <2>2 DEF EntryKnown, Writing, SavesTx
  <2>3. QED
    BY <1>2, <1>4, <2>1, <2>2 DEF ToProjection
<1>5. CASE ToAdoption(r, q)
  <2>1. EntryKnown(q)
    BY <1>1, <1>5 DEF ToAdoption, EntryKnown, Writing, SavesTx
  <2>2. QED
    BY <1>2, <1>5, <2>1 DEF ToAdoption
<1>6. CASE ToUpsert(r, q)
  <2> DEFINE b  == Head(queue).block
             tx == TxOf(b)
             at == RowsOf(tx.candidate_ref)
             s  == IF at = {} THEN Blank ELSE candidates[CHOOSE id \in at : TRUE]
             next == ApplyTxToState([f \in DOMAIN Blank |-> s[f]], tx)
             row == Row(tx, next, b.index)
  <2>1. InMemory(b) /\ candidateChain' = candidateChain
    BY <1>1, <1>6 DEF ToUpsert, EntryKnown
  <2>2. q.stmt = "SELECT id" /\ q.block.rows = <<row>>
    BY <1>6 DEF ToUpsert
  <2> HIDE DEF next
  <2>3. MadeBy(row, b)
    BY <2>1, RowFields DEF MadeBy, InMemory
  <2> HIDE DEF row, b
  <2>4. Known(row)
    BY <2>1, <2>3, MemoryKnows
  <2>5. 1..Len(<<row>>) = {1} /\ <<row>>[1] = row
    BY ShortSequences
  <2>6. EntryKnown(q)
    BY <2>2, <2>4, <2>5 DEF EntryKnown, SavesTx
  <2>7. QED
    BY <1>2, <2>1, <2>6
<1>7. CASE ToRow(r, q)
  <2>1. EntryKnown(q)
    BY <1>1, <1>7 DEF ToRow, EntryKnown, Writing, SavesTx
  <2>2. QED
    BY <1>2, <1>7, <2>1 DEF ToRow
<1>8. CASE ToOtherRows(r, q)
  <2> PICK rows, rest : rows = h.block.rows /\ rest = Tail(rows)
    OBVIOUS
  <2>1. h.stmt \in Writing /\ q = Write(r, rest, h.block.index)
    BY <1>8 DEF ToOtherRows, Writing
  <2>2. \A i \in 1..Len(rows) : Known(rows[i])
    BY <1>1, <2>1 DEF EntryKnown
  <2>3. rows \in Seq(NewRows) /\ rows # <<>>
    BY <1>1, <2>1 DEF Typed
  <2>4. \A i \in 1..Len(rest) : i + 1 \in 1..Len(rows) /\ rest[i] = rows[i + 1]
    BY <2>3, ListHead
  <2>5. \A i \in 1..Len(rest) : Known(rest[i])
    BY <2>2, <2>4
  <2>6. EntryKnown(q)
    BY <2>1, <2>5, WriteKnown
  <2>7. QED
    BY <1>2, <1>8, <2>6 DEF ToOtherRows
<1>9. ASSUME candidateChain' = candidateChain, q.stmt \in PastLock \cup {"SELECT lock"}
      PROVE  Longer /\ EntryKnown(q)'
  <2>1. EntryKnown(q)
    BY <1>9 DEF EntryKnown, Writing, PastLock, SavesTx
  <2>2. QED
    BY <1>2, <1>9, <2>1
<1>10. QED
  BY <1>3, <1>4, <1>5, <1>6, <1>7, <1>8, <1>9 DEF Issues, ToExisting, ToLastTxId,
     ToOtherLegacy, PastLock

LEMMA SlidesKnown ==
    ASSUME Longer, NEW d, NEW New, Slides(d, New), \A q \in New : EntryKnown(q)',
           \A k \in 1..Len(queue) : EntryKnown(queue[k])
    PROVE  (\A i \in 1..Len(queue) : EntryKnown(queue[i]))'
<1> SUFFICES ASSUME NEW i \in 1..Len(queue') PROVE EntryKnown(queue[i])'
  OBVIOUS
<1> PICK q : q = queue'[i]
  OBVIOUS
<1>1. EntryKnown(q)'
  <2>1. CASE \E k \in 1..Len(queue) : q = queue[k]
    BY <2>1, EntryStaysKnown
  <2>2. CASE q \in New
    BY <2>2
  <2>3. CASE q.stmt \notin CandidateSteps
    BY <2>3 DEF EntryKnown, CandidateSteps, PastLock, Writing
  <2>4. QED
    BY <2>1, <2>2, <2>3 DEF Slides
<1>2. q = queue'[i]
  OBVIOUS
<1>3. QED
  BY <1>1, <1>2 DEF EntryKnown

LEMMA NextKnown ==
    LockInv /\ TypesInv /\ VotesInv /\ KnownInv /\ [CandidateNext]_allVars => KnownInv'
<1> SUFFICES ASSUME LockInv, TypesInv, VotesInv, KnownInv, [CandidateNext]_allVars, OneRun'
             PROVE  up' /\ TableKnown' /\ (\A i \in 1..Len(queue) : EntryKnown(queue[i]))'
  BY DEF KnownInv
<1>1. OneRun /\ up /\ up'
  BY NextVotes DEF KnownInv
<1>2. TableKnown /\ \A i \in 1..Len(queue) : EntryKnown(queue[i])
  BY <1>1 DEF KnownInv
<1>3. ASSUME UNCHANGED candidateVars, NEW d, NEW New, Slides(d, New),
             \A q \in New : EntryKnown(q)'
      PROVE  TableKnown' /\ (\A i \in 1..Len(queue) : EntryKnown(queue[i]))'
  <2>1. candidates' = candidates /\ candidateChain' = candidateChain
    BY <1>3 DEF candidateVars, candidateTables
  <2>2. Longer /\ TableKnown'
    BY <1>2, <2>1 DEF Longer, TableKnown, Known, MadeBy
  <2>3. QED
    BY <1>2, <1>3, <2>2, SlidesKnown
<1>4. CASE Aside
  BY <1>1, <1>3, <1>4 DEF Aside
<1>5. ASSUME NEW r, NEW q, Comes(r, q)
      PROVE  TableKnown' /\ (\A i \in 1..Len(queue) : EntryKnown(queue[i]))'
  <2>1. UNCHANGED candidateVars /\ Slides(0, {q})
    BY <1>5 DEF Comes
  <2>2. EntryKnown(q)
    <3>1. q = Resync(r) => EntryKnown(q)
      BY ResyncKnown DEF TypesInv
    <3>2. q.stmt \in {"SELECT lock", "SELECT legacy"} => EntryKnown(q)
      BY DEF EntryKnown, Writing, SavesTx
    <3>3. q = Resync(r) \/ q.stmt \in {"SELECT lock", "SELECT legacy"}
      BY <1>5 DEF Comes
    <3>4. QED
      BY <3>1, <3>2, <3>3
  <2>3. candidateChain' = candidateChain
    BY <2>1 DEF candidateVars
  <2>4. Longer
    BY <2>3 DEF Longer
  <2>5. EntryKnown(q)'
    BY <2>2, <2>4, EntryStaysKnown
  <2>6. QED
    BY <1>3, <2>1, <2>5
<1>6. ASSUME NEW r, Turned(r)
      PROVE  TableKnown' /\ (\A i \in 1..Len(queue) : EntryKnown(queue[i]))'
  <2>1. /\ CandidateHead(r) /\ queue # <<>> /\ Typed(Head(queue)) /\ EntryKnown(Head(queue))
    <3>1. CandidateHead(r) /\ queue # <<>>
      BY <1>6 DEF Turned, CandidateHead
    <3>2. Typed(Head(queue)) /\ Head(queue) = queue[1] /\ 1 \in 1..Len(queue)
      BY <3>1, HeadTyped
    <3>3. QED
      BY <1>2, <3>1, <3>2
  <2>2. CASE Founders(r)
    BY <1>3, <2>2 DEF Founders
  <2>3. ASSUME Succeeded, Longer, NEW New, Slides(1, New), \A q \in New : EntryKnown(q)'
        PROVE  TableKnown' /\ (\A i \in 1..Len(queue) : EntryKnown(queue[i]))'
    <3>1. TableKnown'
      BY <1>2, <2>1, <2>3, PerformKnown DEF Succeeded
    <3>2. QED
      BY <1>2, <2>3, <3>1, SlidesKnown
  <2>4. ASSUME Succeeded, Slides(1, {}), candidateChain' = candidateChain
        PROVE  TableKnown' /\ (\A i \in 1..Len(queue) : EntryKnown(queue[i]))'
    <3>1. Longer
      BY <2>4 DEF Longer
    <3>2. QED
      BY <2>3, <2>4, <3>1
  <2>5. ASSUME Succeeded, NEW q, Slides(1, {q}), Issues(r, q)
        PROVE  TableKnown' /\ (\A i \in 1..Len(queue) : EntryKnown(queue[i]))'
    <3>1. Longer /\ EntryKnown(q)'
      BY <2>1, <2>5, IssuesKnown
    <3>2. QED
      BY <2>3, <2>5, <3>1
  <2>6. QED
    BY <1>6, <2>2, <2>4, <2>5 DEF Turned
<1>7. ~Breaks /\ ~Resumes
  BY <1>1 DEF Breaks, Resumes
<1>8. QED
  BY <1>1, <1>4, <1>5, <1>6, <1>7, StepKinds

LEMMA InitKnown == CandidateInit => KnownInv
<1> SUFFICES ASSUME CandidateInit PROVE KnownInv
  OBVIOUS
<1>1. queue = <<>> /\ candidates = [c \in Candidates |-> LegacyRow(c)] /\ up
  BY DEF CandidateInit, Init, InitWith
<1>2. \A i \in 1..Len(queue) : FALSE
  BY <1>1, ShortSequences
<1>3. TableKnown
  BY <1>1 DEF TableKnown, LegacyRow
<1>4. QED
  BY <1>1, <1>2, <1>3 DEF KnownInv

(***************************************************************************)
(* The history of a candidate.                                             *)
(***************************************************************************)
RefersTo(tx, b) ==
    b.index # 0 /\ TxOf(b).tx_id = tx.prev_tx_ref /\ TxOf(b).candidate_ref = tx.candidate_ref

Continues(b) == b.index # 0 /\ TxOf(b).tx_type # "CANDIDATE_CREATE"

Continued(s) ==
    \A i \in 1..Len(s) : Continues(s[i]) => \E j \in 1..(i - 1) : RefersTo(TxOf(s[i]), s[j])

Lasting == faults = 0 \/ OneRun

HistoryHolds == Continued(candidateChain) /\ (faults = 0 => Continued(candidate_blocks))

HistoryInv == Lasting /\ MigrationsApart => HistoryHolds

LEMMA PrefixContinued ==
    ASSUME NEW s, Continued(s), NEW t, Len(s) \in Nat, Len(t) \in Nat, Len(t) <= Len(s),
           \A i \in 1..Len(t) : s[i] = t[i]
    PROVE  Continued(t)
<1> SUFFICES ASSUME NEW i \in 1..Len(t), Continues(t[i])
             PROVE  \E j \in 1..(i - 1) : RefersTo(TxOf(t[i]), t[j])
  BY DEF Continued
<1>1. i \in 1..Len(s) /\ t[i] = s[i]
  OBVIOUS
<1>2. PICK j \in 1..(i - 1) : RefersTo(TxOf(s[i]), s[j])
  BY <1>1 DEF Continued
<1>3. j \in 1..Len(t)
  BY <1>2
<1>4. QED
  BY <1>1, <1>2, <1>3

LEMMA OneMoreContinued ==
    ASSUME NEW s, IsSequence(s), Continued(s), NEW b,
           Continues(b) => \E j \in 1..Len(s) : RefersTo(TxOf(b), s[j])
    PROVE  Continued(Append(s, b))
<1> PICK t : t = Append(s, b)
  OBVIOUS
<1>1. /\ Len(s) \in Nat /\ Len(t) = Len(s) + 1 /\ t[Len(s) + 1] = b
      /\ \A i \in 1..Len(s) : t[i] = s[i]
  <2>1. PICK S : s \in Seq(S)
    BY DEF IsSequence
  <2>2. s \in Seq(S \cup {b})
    BY <2>1
  <2>3. QED
    BY <2>2
<1>2. ASSUME NEW i \in 1..Len(t), Continues(t[i])
      PROVE  \E j \in 1..(i - 1) : RefersTo(TxOf(t[i]), t[j])
  <2>1. CASE i = Len(s) + 1
    <3>1. PICK j \in 1..Len(s) : RefersTo(TxOf(b), s[j])
      BY <1>1, <1>2, <2>1
    <3>2. j \in 1..(i - 1) /\ t[i] = b /\ t[j] = s[j]
      BY <1>1, <2>1
    <3>3. QED
      BY <3>1, <3>2
  <2>2. CASE i \in 1..Len(s)
    <3>1. PICK j \in 1..(i - 1) : RefersTo(TxOf(s[i]), s[j])
      BY <1>1, <1>2, <2>2 DEF Continued
    <3>2. j \in 1..Len(s)
      BY <1>1, <2>2
    <3>3. QED
      BY <1>1, <2>2, <3>1, <3>2
  <2>3. QED
    BY <1>1, <2>1, <2>2
<1>3. QED
  BY <1>2 DEF Continued

LEMMA NothingContinued == Continued(<<>>)
BY ShortSequences DEF Continued

\* A row of the table is the work of a block in memory.
LEMMA RowsKnown ==
    ASSUME LockInv, MirroredInv, KnownInv, Lasting, up
    PROVE  TableKnown
<1>1. CASE OneRun
  BY <1>1 DEF KnownInv
<1>2. CASE faults = 0
  <2>1. TableBacked /\ Reflected /\ Sized
    BY <1>2 DEF MirroredInv, MirrorInv, BackedInv, Sized, LockInv, QueueRight, LedgersRight,
       LedgerOK
  <2>2. ASSUME NEW row, Backed(row) PROVE Known(row)
    <3>1. PICK i \in 1..Len(candidate_blocks) : MadeBy(row, candidate_blocks[i])
      BY <2>2 DEF Backed
    <3>2. i \in 1..Len(candidateChain) /\ candidateChain[i] = candidate_blocks[i]
      BY <2>1, Sizes DEF Reflected
    <3>3. QED
      BY <3>1, <3>2 DEF Known
  <2>3. QED
    BY <2>1, <2>2 DEF TableBacked, TableKnown
<1>3. QED
  BY <1>1, <1>2 DEF Lasting

LEMMA TransactionRefs ==
    ASSUME NEW r, NEW row, NEW input, NEW ref, NEW prev, NEW tx,
           tx = Transaction(r, row, input, ref, prev)
    PROVE  tx.candidate_ref = ref /\ tx.prev_tx_ref = prev
BY DEF Transaction

\* What a transaction is told of the last one is on the ledger.
LEMMA PrevFound ==
    ASSUME LockInv, TypesInv, MigrationInv, MigrationsApart, TableKnown,
           NEW r, CandidateHead(r), Head(queue).stmt = "SELECT last_tx_id",
           NEW tx, tx.candidate_ref = req[r].candidate_ref,
           tx.prev_tx_ref = LastTxId(req[r].candidate_ref)
    PROVE  \E j \in 1..Len(candidateChain) : RefersTo(tx, candidateChain[j])
<1> PICK ref : ref = req[r].candidate_ref
  OBVIOUS
<1>1. Typed(Head(queue)) /\ Entitled(Head(queue)) /\ Head(queue).req = r
  BY HeadTyped DEF MigrationInv, CandidateHead
<1>2. ref # NULL /\ RowsOf(ref) # {}
  BY <1>1 DEF Typed, PastLock, Entitled
<1>3. PICK id : id = CHOOSE i \in RowsOf(ref) : TRUE
  OBVIOUS
<1>4. id \in RowsOf(ref)
  BY <1>2, <1>3
<1>5. LastTxId(ref) = candidates[id].last_tx_id
  BY <1>2, <1>3 DEF LastTxId
<1>6. id \in DOMAIN candidates /\ candidates[id].candidate_ref = ref
  BY <1>4 DEF RowsOf
<1>7. PICK j \in 1..Len(candidateChain) : MadeBy(candidates[id], candidateChain[j])
  BY <1>2, <1>6 DEF TableKnown, Known
<1>8. tx.candidate_ref = ref /\ tx.prev_tx_ref = LastTxId(ref)
  OBVIOUS
<1>9. RefersTo(tx, candidateChain[j])
  BY <1>5, <1>6, <1>7, <1>8 DEF MadeBy, RefersTo
<1>10. QED
  BY <1>9

LEMMA AddsContinued ==
    ASSUME LockInv, TypesInv, MigrationInv, MigrationsApart, TableKnown,
           Continued(candidateChain), NEW r, CandidateHead(r), NEW q, NEW row, NEW rows, NEW tx,
           NEW b, ToBlock(r, q, row, rows, tx, b)
    PROVE  Continued(candidateChain')
<1>1. candidateChain' = Append(candidateChain, b) /\ TxOf(b) = tx /\ Adds(r, row, rows, tx)
  BY TxOfData DEF ToBlock
<1>2. IsSequence(candidateChain)
  BY DEF LockInv, LedgersRight, LedgerOK
<1>3. \/ tx.tx_type = "CANDIDATE_CREATE"
      \/ \E j \in 1..Len(candidateChain) : RefersTo(tx, candidateChain[j])
  <2>1. CASE /\ req[r].tx_type = "CANDIDATE_CREATE"
             /\ tx = Transaction(r, NULL, req[r], CandidateRef(r, NULL), NULL)
    BY <2>1, TransactionFields
  <2>2. CASE /\ Head(queue).stmt = "SELECT last_tx_id"
             /\ tx = Transaction(r, NULL, req[r], req[r].candidate_ref,
                                 LastTxId(req[r].candidate_ref))
    <3>1. PICK input, ref, prev : /\ input = req[r] /\ ref = req[r].candidate_ref
                                  /\ prev = LastTxId(req[r].candidate_ref)
      OBVIOUS
    <3>2. tx = Transaction(r, NULL, input, ref, prev)
      BY <2>2, <3>1, Zenon
    <3>3. tx.candidate_ref = ref /\ tx.prev_tx_ref = prev
      BY <3>2, TransactionRefs
    <3>4. QED
      BY <2>2, <3>1, <3>3, PrevFound
  <2>3. CASE tx = LegacyCreate(r, row)
    BY <2>3 DEF LegacyCreate, Transaction
  <2>4. QED
    BY <1>1, <2>1, <2>2, <2>3 DEF Adds
<1>4. Continues(b) => \E j \in 1..Len(candidateChain) : RefersTo(TxOf(b), candidateChain[j])
  BY <1>1, <1>3 DEF Continues
<1>5. QED
  BY <1>1, <1>2, <1>4, OneMoreContinued

LEMMA NextHistory ==
    ASSUME LockInv, TypesInv, VotesInv, KnownInv, MigrationInv, MirroredInv, HistoryInv,
           MirroredInv', LockInv', [CandidateNext]_allVars
    PROVE  HistoryInv'
<1> SUFFICES ASSUME Lasting', MigrationsApart' PROVE HistoryHolds'
  BY DEF HistoryInv
<1>1. faults \in Nat /\ faults' \in Nat /\ (faults' = 0 => faults = 0)
  BY FaultsCount DEF MirroredInv
<1>2. Lasting /\ (~up => faults = 0)
  <2>1. CASE faults' = 0
    BY <1>1, <2>1 DEF Lasting
  <2>2. CASE OneRun'
    <3>1. OneRun
      BY <2>2, NextVotes
    <3>2. up
      BY <3>1 DEF KnownInv
    <3>3. QED
      BY <3>1, <3>2 DEF Lasting
  <2>3. QED
    BY <2>1, <2>2 DEF Lasting
<1>3. MigrationsApart
  <2>1. Steady
    BY StepKinds DEF Aside, Comes, Turned, Breaks, Resumes
  <2>2. QED
    BY <2>1, MigrationsStayApart
<1>4. Continued(candidateChain) /\ (faults = 0 => Continued(candidate_blocks))
  BY <1>2, <1>3 DEF HistoryInv, HistoryHolds
<1>5. Sized /\ Len(candidateChain) \in Nat /\ Len(candidate_blocks) \in Nat
  <2>1. Sized
    BY DEF Sized, LockInv, QueueRight, LedgersRight, LedgerOK
  <2>2. QED
    BY <2>1, Sizes
<1>6. Continued(candidateChain')
  <2>1. CASE candidateChain' = candidateChain
    BY <1>4, <2>1
  <2>2. ASSUME NEW r, CandidateHead(r), NEW q, Issues(r, q) PROVE Continued(candidateChain')
    <3>1. up
      BY <2>2 DEF CandidateHead
    <3>2. TableKnown
      BY <1>2, <3>1, RowsKnown
    <3>3. ASSUME NEW row, NEW rows, NEW tx, NEW b, ToBlock(r, q, row, rows, tx, b)
          PROVE  Continued(candidateChain')
      BY <1>3, <1>4, <2>2, <3>2, <3>3, AddsContinued
    <3>4. QED
      BY <2>1, <2>2, <3>3 DEF Issues, ToExisting, ToLastTxId, ToProjection, ToUpsert, ToRow,
         ToOtherRows, ToAdoption, ToOtherLegacy
  <2>3. CASE Breaks
    BY <2>3, NothingContinued DEF Breaks
  <2>4. CASE Resumes
    <3>1. faults = 0 /\ candidateChain' \in LoadOrders(candidate_blocks)
      BY <1>2, <2>4 DEF Resumes
    <3>2. Indexed(candidate_blocks) /\ IsSequence(candidate_blocks)
      BY <1>5, <3>1 DEF MirroredInv, MirrorInv, Sized
    <3>3. candidateChain' = candidate_blocks
      BY <3>1, <3>2, LoadedAsSaved
    <3>4. QED
      BY <1>4, <3>1, <3>3
  <2>5. CASE Aside \/ \E r, q : Comes(r, q)
    BY <2>1, <2>5 DEF Aside, Comes, candidateVars
  <2>6. ASSUME NEW r, Turned(r) PROVE Continued(candidateChain')
    BY <2>1, <2>2, <2>6 DEF Turned, Founders, candidateVars
  <2>7. QED
    BY <2>3, <2>4, <2>5, <2>6, StepKinds
<1>7. ASSUME faults' = 0 PROVE Continued(candidate_blocks')
  <2>1. faults = 0 /\ Continued(candidate_blocks)
    BY <1>1, <1>4, <1>7
  <2>2. CASE candidate_blocks' = candidate_blocks
    BY <2>1, <2>2
  <2>3. CASE up'
    <3>1. Reflected'
      BY <1>7, <2>3 DEF MirroredInv, MirrorInv
    <3>2. /\ Len(candidate_blocks') <= Len(candidateChain')
          /\ \A i \in 1..Len(candidate_blocks') : candidateChain'[i] = candidate_blocks'[i]
      BY <3>1 DEF Reflected
    <3>3. Len(candidate_blocks') \in Nat /\ Len(candidateChain') \in Nat
      BY DEF LockInv, LedgersRight, LedgerOK, IsSequence
    <3> PICK s, t : s = candidateChain' /\ t = candidate_blocks'
      OBVIOUS
    <3>4. Continued(t)
      BY <1>6, <3>2, <3>3, PrefixContinued
    <3>5. QED
      BY <3>4
  <2>4. CASE Breaks
    <3>1. CASE queue # <<>> /\ SaveTxBlock(Head(queue))
      <4> PICK b : b = Head(queue).block.block
        OBVIOUS
      <4>1. candidate_blocks' = Append(candidate_blocks, b) /\ Head(queue).stmt = SavesTx
        BY <3>1 DEF SaveTxBlock, SavesTx
      <4>2. Reflected
        BY <2>1, <2>4 DEF MirroredInv, MirrorInv, Breaks
      <4>3. /\ Len(candidate_blocks) + 1 \in 1..Len(candidateChain)
            /\ b = candidateChain[Len(candidate_blocks) + 1]
        BY <1>5, <3>1, <4>1, <4>2, FirstSaving
      <4> PICK t : t = candidate_blocks'
        OBVIOUS
      <4>4. /\ Len(t) = Len(candidate_blocks) + 1 /\ t[Len(candidate_blocks) + 1] = b
            /\ \A i \in 1..Len(candidate_blocks) : t[i] = candidate_blocks[i]
        BY <1>5, <4>1, Sizes
      <4>5. \A i \in 1..Len(candidate_blocks) : candidateChain[i] = candidate_blocks[i]
        BY <4>2 DEF Reflected
      <4>6. \A i \in 1..Len(t) : candidateChain[i] = t[i]
        <5> SUFFICES ASSUME NEW i \in 1..Len(t) PROVE candidateChain[i] = t[i]
          OBVIOUS
        <5>1. CASE i = Len(candidate_blocks) + 1
          BY <4>3, <4>4, <5>1
        <5>2. CASE i \in 1..Len(candidate_blocks)
          BY <4>4, <4>5, <5>2
        <5>3. QED
          BY <1>5, <4>4, <5>1, <5>2
      <4>7. Len(t) \in Nat /\ Len(t) <= Len(candidateChain)
        BY <1>5, <4>3, <4>4
      <4>8. QED
        BY <1>4, <1>5, <4>6, <4>7, PrefixContinued
    <3>2. QED
      BY <2>2, <2>4, <3>1 DEF Breaks, PerformCandidates, ReadCandidates, InsertCandidate,
         UpdateCandidate, AdoptLegacy, UpdateSyncState, candidateTables
  <2>5. CASE Aside
    BY <2>2, <2>5 DEF Aside, candidateVars, candidateTables
  <2>6. ASSUME NEW r, NEW q, Comes(r, q) PROVE up'
    BY <2>6 DEF Comes
  <2>7. ASSUME NEW r, Turned(r) PROVE up'
    BY <2>7 DEF Turned, CandidateHead
  <2>8. Resumes => up'
    BY DEF Resumes
  <2>9. QED
    BY <2>3, <2>4, <2>5, <2>6, <2>7, <2>8, StepKinds
<1>8. QED
  BY <1>6, <1>7 DEF HistoryHolds

LEMMA InitHistory == CandidateInit => HistoryInv
<1> SUFFICES ASSUME CandidateInit PROVE HistoryInv
  OBVIOUS
<1>1. candidate_blocks = <<BootGenesis>> /\ candidateChain = <<BootGenesis>>
  BY DEF CandidateInit
<1>2. BootGenesis.index = 0
  BY DEF BootGenesis, GenesisBlock, Block
<1>3. Continued(<<BootGenesis>>)
  BY <1>2, ShortSequences DEF Continued, Continues
<1>4. QED
  BY <1>1, <1>3 DEF HistoryInv, HistoryHolds

LEMMA HistoryInvariant == CandidateSpec => [](LockInv /\ HistoryInv)
<1> DEFINE Inv == LockInv /\ TypesInv /\ VotesInv /\ KnownInv /\ MigrationInv /\ MirroredInv
<1>1. CandidateInit => Inv
  BY InitLock, InitTypes, InitVotes, InitKnown, InitMigration, InitMirrored
<1>2. Inv /\ [CandidateNext]_allVars => Inv'
  BY NextLock, NextTypes, NextVotes, NextKnown, NextMigration, NextMirrored
<1>3. Inv /\ Inv' /\ HistoryInv /\ [CandidateNext]_allVars => HistoryInv'
  BY NextHistory
<1>4. QED
  BY <1>1, <1>2, <1>3, InitHistory, PTL DEF CandidateSpec

\* The history of a candidate runs through its prev_tx_refs: from any transaction
\* on the ledger they lead to an earlier one of the same candidate.  Under
\* overlapping requests and resyncs it is so because a row is always the work of
\* a block on the ledger and, as long as no two migrations overlap, never loses
\* its candidate_ref; through crashes because the table of blocks is the
\* beginning of the chain, through failures because nothing leaves memory.
THEOREM HistoryGoesBack == CandidateSpec => []HistoryRefersBack
<1>1. ASSUME LockInv, HistoryInv PROVE HistoryRefersBack
  <2>1. SUFFICES ASSUME Lasting, MigrationsApart, NEW i \in TxIndices,
                        TxAt(i).tx_type # "CANDIDATE_CREATE"
                 PROVE  \E j \in 2..(i - 1) : /\ TxAt(j).tx_id = TxAt(i).prev_tx_ref
                                              /\ TxAt(j).candidate_ref = TxAt(i).candidate_ref
    BY DEF HistoryRefersBack, Lasting, OneRun
  <2>2. LedgerOK(candidateChain) /\ Len(candidateChain) \in Nat
    BY <1>1 DEF LockInv, LedgersRight, LedgerOK, IsSequence
  <2>3. i \in 1..Len(candidateChain) /\ i # 1
    BY <2>1, <2>2 DEF TxIndices
  <2>4. Continues(candidateChain[i])
    BY <2>1, <2>2, <2>3 DEF LedgerOK, Continues, TxAt
  <2>5. PICK j \in 1..(i - 1) : RefersTo(TxOf(candidateChain[i]), candidateChain[j])
    BY <1>1, <2>1, <2>3, <2>4 DEF HistoryInv, HistoryHolds, Continued
  <2>6. j # 1
    BY <2>2, <2>3, <2>5 DEF LedgerOK, RefersTo
  <2>7. j \in 2..(i - 1)
    BY <2>3, <2>5, <2>6
  <2>8. QED
    BY <2>5, <2>7 DEF RefersTo, TxAt
<1>2. QED
  BY <1>1, HistoryInvariant, PTL
================================================================================
