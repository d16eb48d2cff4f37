----------------------- MODULE CandidateLedgerService -----------------------
(***************************************************************************)
(* submitTransaction of services/candidateLedgerService.js as              *)
(* controllers/candidateController.js calls it, and the migration of       *)
(* legacy candidates, which submits one CREATE per row.                    *)
(***************************************************************************)
EXTENDS CandidateProjectionService, FiniteSets

\* start_time is NULL, as in VotingService.
Locked == settings.is_open

\* A lock that only stops new candidates.
Forbidden_CreateOnly(tx_type) == Locked /\ tx_type = "CANDIDATE_CREATE"

Forbidden(tx_type) == Locked /\ tx_type \in LOCKED_FORBIDDEN_TYPES

(***************************************************************************)
(* Making a block.  tx_id and candidate_ref are random UUIDs in the source:*)
(* here they name the request, and the row a migration is about.           *)
(***************************************************************************)
TxId(r, row)         == <<"TX", r, row>>
CandidateRef(r, row) == <<"CAND", r, row>>

Transaction(r, row, input, ref, prev) ==
    [tx_id |-> TxId(r, row), candidate_ref |-> ref, tx_type |-> input.tx_type,
     nama |-> input.nama, deskripsi |-> input.deskripsi, void_tx_id |-> input.void_tx_id,
     prev_tx_ref |-> prev]

\* The block is in memory at once; `rows` are the rows the migration has left,
\* the one of this block first.
AddTransaction(r, row, rows, tx) ==
    LET b == NewBlock(candidateChain, <<r, row>>, TxData(tx), SystemKey)
    IN  /\ candidateChain' = Append(candidateChain, b)
        /\ Issue(<<Query(r, "INSERT candidate_ledger_blocks", [block |-> b, rows |-> rows])>>)
        /\ UNCHANGED <<chain, reply>>

(***************************************************************************)
(* submitTransaction.                                                      *)
(***************************************************************************)
Submitting(r) == req[r] # NULL /\ req[r].op = "submitTransaction"

RejectedByLock(r) ==
    /\ Runs(r, "SELECT lock")
    /\ Submitting(r)
    /\ Forbidden(req[r].tx_type)
    /\ Respond(r, "Candidate Ledger sedang terkunci")

\* A CREATE whose name is not looked at.
CreateRead_Unnamed(r) ==
    /\ Runs(r, "SELECT lock")
    /\ Submitting(r)
    /\ ~Forbidden(req[r].tx_type)
    /\ req[r].tx_type = "CANDIDATE_CREATE"
    /\ AddTransaction(r, NULL, <<>>, Transaction(r, NULL, req[r], CandidateRef(r, NULL), NULL))

CreateRead(r) ==
    /\ Runs(r, "SELECT lock")
    /\ Submitting(r)
    /\ ~Forbidden(req[r].tx_type)
    /\ req[r].tx_type = "CANDIDATE_CREATE"
    /\ IF req[r].nama = NULL
       THEN Respond(r, "nama_kandidat wajib diisi")
       ELSE AddTransaction(r, NULL, <<>>, Transaction(r, NULL, req[r], CandidateRef(r, NULL), NULL))

OtherRead(r) ==
    /\ Runs(r, "SELECT lock")
    /\ Submitting(r)
    /\ ~Forbidden(req[r].tx_type)
    /\ req[r].tx_type # "CANDIDATE_CREATE"
    /\ IF req[r].candidate_ref = NULL
       THEN Respond(r, "candidate_ref wajib diisi")
       ELSE Continue(r, "SELECT existing", Locked)

\* The payload checks of validateTransaction, under the lock as it was read.
Incomplete(input, locked) ==
    \/ input.tx_type = "CANDIDATE_UPDATE" /\ input.nama = NULL
    \/ /\ input.tx_type = "CANDIDATE_CORRECTION"
       /\ ~input.reason \/ (locked /\ input.nama # NULL)
    \/ /\ input.tx_type = "CANDIDATE_VOID"
       /\ ~input.reason \/ input.void_tx_id = NULL

ExistingRead(r) ==
    /\ Runs(r, "SELECT existing")
    /\ IF RowsOf(req[r].candidate_ref) = {} \/ Incomplete(req[r], Head(queue).block)
       THEN Respond(r, "invalid")
       ELSE Continue(r, "SELECT last_tx_id", NULL)

LastTxId(ref) ==
    IF RowsOf(ref) = {} THEN NULL ELSE candidates[CHOOSE id \in RowsOf(ref) : TRUE].last_tx_id

\* prev_tx_ref left empty.
PrevTxRead_Unlinked(r) ==
    /\ Runs(r, "SELECT last_tx_id")
    /\ AddTransaction(r, NULL, <<>>, Transaction(r, NULL, req[r], req[r].candidate_ref, NULL))

PrevTxRead(r) ==
    /\ Runs(r, "SELECT last_tx_id")
    /\ LET ref == req[r].candidate_ref
       IN  AddTransaction(r, NULL, <<>>, Transaction(r, NULL, req[r], ref, LastTxId(ref)))

TxBlockSaved(r) ==
    /\ Runs(r, "INSERT candidate_ledger_blocks")
    /\ Submitting(r)
    /\ Issue(<<SyncAfterTransaction(r, Head(queue).block.block)>>)
    /\ UNCHANGED <<chain, reply, candidateChain>>

\* The controller does not catch: Express answers a rejected handler with 500.
SubmitFails(r) ==
    /\ Submitting(r)
    /\ \/ Refused(r, "SELECT lock")       \/ Refused(r, "SELECT existing")
       \/ Refused(r, "SELECT last_tx_id") \/ Refused(r, "INSERT candidate_ledger_blocks")
    /\ Respond(r, "500")

Submit(r) ==
    \/ RejectedByLock(r) \/ CreateRead(r) \/ OtherRead(r)    \/ ExistingRead(r)
    \/ PrevTxRead(r)     \/ TxBlockSaved(r) \/ SubmitFails(r)

(***************************************************************************)
(* migrateLegacyCandidates.                                                *)
(***************************************************************************)
Migrating(r) == req[r] # NULL /\ req[r].op = "migrateLegacy"

\* The next row is submitted, or the migration is done.
MigrateRest(r, rows) ==
    IF rows = <<>> THEN Respond(r, "ok") ELSE Continue(r, "SELECT lock", rows)

\* SELECT without ORDER BY: the rows in some order.
Orders(S) == {s \in [1..Cardinality(S) -> S] : \A i, j \in DOMAIN s : s[i] = s[j] => i = j}

LegacyRead(r) ==
    /\ Runs(r, "SELECT legacy")
    /\ \E rows \in Orders(LegacyRows) : MigrateRest(r, rows)

\* The CREATE of a row, with the name it had when it was read (a row without
\* candidate_ref is never renamed); a locked ledger skips the row.
LegacyAdmitted(r) ==
    /\ Runs(r, "SELECT lock")
    /\ Migrating(r)
    /\ LET rows == Head(queue).block
           id   == Head(rows)
           create == [tx_type |-> "CANDIDATE_CREATE", nama |-> LegacyRow(id).nama,
                      deskripsi |-> NULL, void_tx_id |-> NULL]
       IN  IF Forbidden("CANDIDATE_CREATE")
           THEN MigrateRest(r, Tail(rows))
           ELSE AddTransaction(r, id, rows, Transaction(r, id, create, CandidateRef(r, id), NULL))

LegacyBlockSaved(r) ==
    /\ Runs(r, "INSERT candidate_ledger_blocks")
    /\ Migrating(r)
    /\ Continue(r, "UPDATE legacy", Head(queue).block)

LegacyAdopted(r) ==
    /\ Runs(r, "UPDATE legacy")
    /\ MigrateRest(r, Tail(Head(queue).block.rows))

MigrationFails(r) ==
    /\ Migrating(r)
    /\ \/ Refused(r, "SELECT legacy") \/ Refused(r, "SELECT lock")
       \/ Refused(r, "INSERT candidate_ledger_blocks") \/ Refused(r, "UPDATE legacy")
    /\ Respond(r, "Gagal migrasi kandidat lama")

Migrate(r) ==
    \/ LegacyRead(r)    \/ LegacyAdmitted(r) \/ LegacyBlockSaved(r)
    \/ LegacyAdopted(r) \/ MigrationFails(r)
=============================================================================
