------------------------ MODULE CandidateTransactions ------------------------
(***************************************************************************)
(* The transactions of the candidate ledger and what they make of a        *)
(* candidate: the pure part of services/candidateLedgerService.js and      *)
(* services/candidateProjectionService.js.                                 *)
(*                                                                         *)
(* A transaction's payload is flattened into its record; a field the client*)
(* did not send is NULL.  `deskripsi` stands for itself and for foto_url,  *)
(* which every transaction treats alike.                                   *)
(***************************************************************************)
EXTENDS Ledger

TX_TYPES ==
    {"CANDIDATE_CREATE", "CANDIDATE_UPDATE", "CANDIDATE_DEACTIVATE",
     "CANDIDATE_REACTIVATE", "CANDIDATE_CORRECTION", "CANDIDATE_VOID"}

LOCKED_FORBIDDEN_TYPES ==
    {"CANDIDATE_CREATE", "CANDIDATE_UPDATE", "CANDIDATE_DEACTIVATE", "CANDIDATE_REACTIVATE"}

\* A candidate before its first transaction.
Blank == [nama |-> NULL, deskripsi |-> NULL, status |-> "ACTIVE"]

Given(new, old) == IF new = NULL THEN old ELSE new

\* A field that an update does not send is erased.
ApplyTxToState_Erases(s, tx) ==
    CASE tx.tx_type = "CANDIDATE_CREATE"     -> [nama |-> tx.nama, deskripsi |-> tx.deskripsi,
                                                 status |-> "ACTIVE"]
      [] tx.tx_type = "CANDIDATE_UPDATE"     -> [s EXCEPT !.nama = tx.nama,
                                                          !.deskripsi = tx.deskripsi]
      [] tx.tx_type = "CANDIDATE_DEACTIVATE" -> [s EXCEPT !.status = "INACTIVE"]
      [] tx.tx_type = "CANDIDATE_REACTIVATE" -> [s EXCEPT !.status = "ACTIVE"]
      [] tx.tx_type = "CANDIDATE_CORRECTION" -> [s EXCEPT !.deskripsi = Given(tx.deskripsi, @)]

ApplyTxToState(s, tx) ==
    CASE tx.tx_type = "CANDIDATE_CREATE"     -> [nama |-> tx.nama, deskripsi |-> tx.deskripsi,
                                                 status |-> "ACTIVE"]
      [] tx.tx_type = "CANDIDATE_UPDATE"     -> [s EXCEPT !.nama = tx.nama,
                                                          !.deskripsi = Given(tx.deskripsi, @)]
      [] tx.tx_type = "CANDIDATE_DEACTIVATE" -> [s EXCEPT !.status = "INACTIVE"]
      [] tx.tx_type = "CANDIDATE_REACTIVATE" -> [s EXCEPT !.status = "ACTIVE"]
      [] tx.tx_type = "CANDIDATE_CORRECTION" -> [s EXCEPT !.deskripsi = Given(tx.deskripsi, @)]

\* A row of table candidates as a transaction in block `index` leaves it.
Row(tx, s, index) ==
    [candidate_ref |-> tx.candidate_ref, nama |-> s.nama, deskripsi |-> s.deskripsi,
     status |-> s.status, last_tx_id |-> tx.tx_id, verified_at_block_index |-> index]

(***************************************************************************)
(* The replay of a chain.                                                  *)
(***************************************************************************)
TxData(tx) == <<"candidate", tx>>
TxOf(b)    == b.data[2]

VoidedTxIds(chain) ==
    {TxOf(b).void_tx_id : b \in {b \in {chain[i] : i \in DOMAIN chain} :
                                    b.index # 0 /\ TxOf(b).tx_type = "CANDIDATE_VOID"}} \ {NULL}

\* A genesis block holds no transaction; a VOID and what it names do not count.
Skipped(b, voided) ==
    b.index = 0 \/ TxOf(b).tx_type = "CANDIDATE_VOID" \/ TxOf(b).tx_id \in voided

\* One transaction applied to the rows replayed so far, which are kept in the
\* order in which their candidates first appeared (a Map of the source).
ReplayBlock(rows, b) ==
    LET tx == TxOf(b)
        at == {i \in DOMAIN rows : rows[i].candidate_ref = tx.candidate_ref}
        s  == IF at = {} THEN Blank ELSE rows[CHOOSE i \in at : TRUE]
        row == Row(tx, ApplyTxToState([f \in DOMAIN Blank |-> s[f]], tx), b.index)
    IN  IF at = {} THEN Append(rows, row)
                   ELSE [i \in DOMAIN rows |-> IF i \in at THEN row ELSE rows[i]]

\* The rows after each block of the chain.
Replay(chain) ==
    LET voided == VoidedTxIds(chain)
        rows[n \in 0..Len(chain)] ==
            IF n = 0 THEN <<>>
            ELSE IF Skipped(chain[n], voided) THEN rows[n - 1]
                                              ELSE ReplayBlock(rows[n - 1], chain[n])
    IN  rows[Len(chain)]

(***************************************************************************)
(* What a replay is meant to compute, field by field: the value given last.*)
(***************************************************************************)
LastOf(places) == CHOOSE i \in places : \A j \in places : j <= i

\* By the transactions in some places of the chain, which are of one candidate.
GivenLast(chain, places) ==
    LET tx(i) == TxOf(chain[i])
        naming == {i \in places : tx(i).tx_type \in {"CANDIDATE_CREATE", "CANDIDATE_UPDATE"}}
        describing == {i \in places :
                          \/ tx(i).tx_type = "CANDIDATE_CREATE"
                          \/ /\ tx(i).tx_type \in {"CANDIDATE_UPDATE", "CANDIDATE_CORRECTION"}
                             /\ tx(i).deskripsi # NULL}
        switching == {i \in places :
                         tx(i).tx_type \in {"CANDIDATE_CREATE", "CANDIDATE_DEACTIVATE",
                                            "CANDIDATE_REACTIVATE"}}
        off == /\ switching # {}
               /\ tx(LastOf(switching)).tx_type = "CANDIDATE_DEACTIVATE"
    IN  [candidate_ref |-> tx(LastOf(places)).candidate_ref,
         nama |-> IF naming = {} THEN NULL ELSE tx(LastOf(naming)).nama,
         deskripsi |-> IF describing = {} THEN NULL ELSE tx(LastOf(describing)).deskripsi,
         status |-> IF off THEN "INACTIVE" ELSE "ACTIVE",
         last_tx_id |-> tx(LastOf(places)).tx_id,
         verified_at_block_index |-> chain[LastOf(places)].index]

LastValues(chain, ref) ==
    GivenLast(chain, {i \in DOMAIN chain : /\ ~Skipped(chain[i], VoidedTxIds(chain))
                                           /\ TxOf(chain[i]).candidate_ref = ref})
=============================================================================
