--------------------------- MODULE UserAdminService ---------------------------
(***************************************************************************)
(* deleteUser, resetUserVote and resetAll of services/userAdminService.js, *)
(* the last with Blockchain.resetChain.                                    *)
(***************************************************************************)
EXTENDS Database

UserDeleted(r) ==
    /\ Succeeds(r, "DELETE users")
    /\ RecordAuditLog(r)

UserNotDeleted(r) ==
    /\ Fails(r, "DELETE users")
    /\ Answer(r, "Gagal hapus user")

VotesDeleted(r) ==
    /\ Succeeds(r, "DELETE votes")
    /\ Proceed(r, "CLEAR sudah_vote", NULL)

VotesNotDeleted(r) ==
    /\ Fails(r, "DELETE votes")
    /\ Answer(r, "Gagal hapus vote")

\* resetUserVote is done here and leaves the chain alone; resetAll goes on
\* with resetChain.
FlagsCleared(r) ==
    /\ Succeeds(r, "CLEAR sudah_vote")
    /\ IF req[r].op = "resetAll" THEN Proceed(r, "DELETE blockchain", NULL)
                                 ELSE RecordAuditLog(r)

FlagsNotCleared(r) ==
    /\ Fails(r, "CLEAR sudah_vote")
    /\ Answer(r, "Gagal reset status")

BlocksDeleted(r) ==
    /\ Succeeds(r, "DELETE blockchain")
    /\ Proceed(r, InsertBlockStmt(VoteLedger), GenesisBlock(r))

\* The chain in memory is replaced only now, then the reset is recorded.
GenesisSaved(r) ==
    /\ Succeeds(r, InsertBlockStmt(VoteLedger))
    /\ req[r].op = "resetAll"
    /\ LET b == NextAuditBlock(r)
       IN  /\ chain' = [chain EXCEPT ![VoteLedger]  = <<Head(queue).block>>,
                                     ![AuditLedger] = Append(@, b)]
           /\ Issue(<<Query(r, InsertBlockStmt(AuditLedger), b)>>)
    /\ UNCHANGED reply

ResetChainFails(r) ==
    /\ \/ Fails(r, "DELETE blockchain")
       \/ Fails(r, InsertBlockStmt(VoteLedger)) /\ req[r].op = "resetAll"
    /\ Answer(r, "Gagal reset blockchain")

UserAdmin(r) ==
    \/ UserDeleted(r)   \/ UserNotDeleted(r)
    \/ VotesDeleted(r)  \/ VotesNotDeleted(r)
    \/ FlagsCleared(r)  \/ FlagsNotCleared(r)
    \/ BlocksDeleted(r) \/ GenesisSaved(r)    \/ ResetChainFails(r)
=============================================================================
