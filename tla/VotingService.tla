---------------------------- MODULE VotingService ----------------------------
(***************************************************************************)
(* castVote of services/votingService.js: four statements that decide and  *)
(* four or five that record, one action per callback.                      *)
(***************************************************************************)
EXTENDS Database

CONSTANT Unkeyed      \* users whose session was opened before they had a key pair

\* start_time and end_time of the settings row are NULL here, their default
\* in the schema, so the window is open whenever is_open is.
VotingAccepted == settings.is_open

\* The vote that a request asks for, as the data of a block.
VoteData(r) == <<"vote", req[r].user, req[r].candidate>>

StoredKey(u) == <<"stored", u>>

\* The session's keys used as they are.
SigningKey_SessionOnly(r) == req[r].key

SigningKey(r) == IF req[r].key = NULL THEN GeneratedKey(r) ELSE req[r].key

NextVoteBlock(r) == NewBlock(chain[VoteLedger], r, VoteData(r), SigningKey(r))

\* is_open not looked at.
CheckSettings_AlwaysOpen(r) ==
    /\ Succeeds(r, "SELECT settings")
    /\ IF req[r].candidate = NULL
       THEN Answer(r, "Kandidat tidak valid")
       ELSE Proceed(r, "SELECT sudah_vote", NULL)

CheckSettings(r) ==
    /\ Succeeds(r, "SELECT settings")
    /\ IF ~VotingAccepted
       THEN Answer(r, "Voting belum dibuka oleh panitia.")
       ELSE IF req[r].candidate = NULL
            THEN Answer(r, "Kandidat tidak valid")
            ELSE Proceed(r, "SELECT sudah_vote", NULL)

\* The flag read and not looked at.
CheckSudahVote_Ignored(r) ==
    /\ Succeeds(r, "SELECT sudah_vote")
    /\ req[r].user \in DOMAIN users
    /\ Proceed(r, "SELECT candidate", NULL)

CheckSudahVote(r) ==
    /\ Succeeds(r, "SELECT sudah_vote")
    /\ req[r].user \in DOMAIN users
    /\ IF users[req[r].user].sudah_vote
       THEN Answer(r, "Kamu sudah voting!")
       ELSE Proceed(r, "SELECT candidate", NULL)

\* `result[0].sudah_vote` when the user has been deleted in the meantime: the
\* callback throws, nothing catches it and Node ends the process.
UserIsGone(r) ==
    /\ Executes(r, "SELECT sudah_vote")
    /\ req[r].user \notin DOMAIN users

CheckCandidate(r) ==
    /\ Succeeds(r, "SELECT candidate")
    /\ IF req[r].candidate \in Candidates
       THEN Proceed(r, "INSERT votes", NULL)
       ELSE Answer(r, "Kandidat tidak ditemukan.")

CheckFails(r) ==
    /\ \/ Fails(r, "SELECT settings")
       \/ Fails(r, "SELECT sudah_vote")
       \/ Fails(r, "SELECT candidate")
    /\ Answer(r, "Database error")

VoteSaved(r) ==
    /\ Succeeds(r, "INSERT votes")
    /\ Proceed(r, "SET sudah_vote", NULL)

\* The error of the insert not looked at.
VoteNotSaved_Ignored(r) ==
    /\ Fails(r, "INSERT votes")
    /\ Proceed(r, "SET sudah_vote", NULL)

VoteNotSaved(r) ==
    /\ Fails(r, "INSERT votes")
    /\ Answer(r, "Gagal menyimpan vote")

\* The block is built, linked and pushed in the callback of the flag update; a
\* session without keys first sends its new pair, without waiting for it.
FlagSet(r) ==
    /\ Succeeds(r, "SET sudah_vote")
    /\ LET b == NextVoteBlock(r)
           insert == Query(r, InsertBlockStmt(VoteLedger), b)
       IN  /\ chain' = [chain EXCEPT ![VoteLedger] = Append(@, b)]
           /\ Issue(IF req[r].key = NULL
                    THEN <<Query(r, "UPDATE keys", NULL), insert>>
                    ELSE <<insert>>)
    /\ UNCHANGED reply

FlagNotSet(r) ==
    /\ Fails(r, "SET sudah_vote")
    /\ Answer(r, "Vote tersimpan tapi gagal update status")

\* No callback: nothing follows.
KeysSaved(r) ==
    /\ Succeeds(r, "UPDATE keys")
    /\ Issue(<<>>)
    /\ UNCHANGED <<chain, reply>>

VoteBlockSaved(r) ==
    /\ Succeeds(r, InsertBlockStmt(VoteLedger))
    /\ req[r].op = "castVote"
    /\ RecordAuditLog(r)

\* The error of the insert swallowed, as recordAuditLog does with its own.
VoteBlockLost_Swallowed(r) ==
    /\ Fails(r, InsertBlockStmt(VoteLedger))
    /\ req[r].op = "castVote"
    /\ RecordAuditLog(r)

\* The block stays in memory.
VoteBlockLost(r) ==
    /\ Fails(r, InsertBlockStmt(VoteLedger))
    /\ req[r].op = "castVote"
    /\ Answer(r, "Vote tersimpan tapi gagal catat di blockchain")

CastVote(r) ==
    \/ CheckSettings(r) \/ CheckSudahVote(r) \/ CheckCandidate(r) \/ CheckFails(r)
    \/ VoteSaved(r)     \/ VoteNotSaved(r)
    \/ FlagSet(r)       \/ FlagNotSet(r)     \/ KeysSaved(r)
    \/ VoteBlockSaved(r) \/ VoteBlockLost(r)
=============================================================================
