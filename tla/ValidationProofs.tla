--------------------------- MODULE ValidationProofs ---------------------------
(***************************************************************************)
(* The integrity validation tool beside the server.  The server's own      *)
(* invariants hold next to the tool as well; the tool's castVote is that of*)
(* ElectionServer on the tool's chains and connection.  Then the tool's    *)
(* promises: it spares the voters, its report is right, and its clean-up   *)
(* leaves the tables it found.                                             *)
(***************************************************************************)
EXTENDS IntegrityValidation, ServerProofs

(***************************************************************************)
(* castVote of the tool.                                                   *)
(***************************************************************************)
Checks == {"SELECT settings", "SELECT sudah_vote", "SELECT candidate", "INSERT votes",
           "SET sudah_vote", "UPDATE keys", "INSERT audit_logs"}

CastStatements == Checks \cup {InsertBlockStmt(l) : l \in Ledgers}

\* A statement of the tool's castVote.
OwnCall(q) ==
    /\ q.req \in ValidationVotes
    /\ Sent(q.req, "castVote")
    /\ q.stmt \in CastStatements

\* The oldest statement has been performed, or has failed.
ToolRuns(r, stmt) ==
    /\ tool_queue # <<>>
    /\ Head(tool_queue).req = r /\ Head(tool_queue).stmt = stmt
    /\ req' = req
    /\ \/ Perform(Head(tool_queue)) /\ ~Rejected(Head(tool_queue)) /\ faults' = faults
       \/ UNCHANGED db /\ (faults' = faults \/ (faults < MaxFaults /\ faults' = faults + 1))

ToolIssues(qs) == tool_queue' = Tail(tool_queue) \o qs

\* The three ways a callback ends.
ToolAnswers(r) ==
    /\ ToolIssues(<<>>) /\ tool_chain' = tool_chain
    /\ \/ reply' = reply
       \/ \E message \in Replies : reply' = [reply EXCEPT ![r] = message]

ToolProceeds(r) ==
    /\ tool_chain' = tool_chain /\ reply' = reply
    /\ \/ \E stmt \in Checks : ToolIssues(<<Query(r, stmt, NULL)>>)
       \/ /\ Head(tool_queue).stmt = InsertBlockStmt(AuditLedger)
          /\ ToolIssues(<<Query(r, "INSERT audit_logs", Head(tool_queue).block)>>)

ToolAdds(r) ==
    /\ reply' = reply
    /\ \E l \in Ledgers : \E data, key :
          LET b      == NewBlock(tool_chain[l], r, data, key)
              insert == Query(r, InsertBlockStmt(l), b)
          IN  /\ \/ l = VoteLedger /\ data = VoteData(r) /\ key = SigningKey(r)
                                   /\ Head(tool_queue).stmt = "SET sudah_vote"
                 \/ l = AuditLedger /\ data = AuditData(r) /\ key = SystemKey
              /\ tool_chain' = [tool_chain EXCEPT ![l] = Append(@, b)]
              /\ \/ ToolIssues(<<insert>>)
                 \/ ToolIssues(<<Query(r, "UPDATE keys", NULL), insert>>)

ToolTurn(r) ==
    /\ \E stmt : ToolRuns(r, stmt)
    /\ ToolAnswers(r) \/ ToolProceeds(r) \/ ToolAdds(r)

(***************************************************************************)
(* The names of the instance stand for what they stand for in the server.  *)
(***************************************************************************)
LEMMA ToolNames ==
    /\ Tool!VoteLedger = VoteLedger /\ Tool!AuditLedger = AuditLedger /\ Tool!Ledgers = Ledgers
    /\ \A l : Tool!InsertBlockStmt(l) = InsertBlockStmt(l)
    /\ \A r, stmt, block : Tool!Query(r, stmt, block) = Query(r, stmt, block)
    /\ \A c, t, d, k : Tool!NewBlock(c, t, d, k) = NewBlock(c, t, d, k)
    /\ \A r : Tool!AuditData(r) = AuditData(r) /\ Tool!VoteData(r) = VoteData(r)
    /\ \A r : Tool!SigningKey(r) = SigningKey(r)
    /\ Tool!SystemKey = SystemKey
<1>1. \A c, t, d, k : Tool!NewBlock(c, t, d, k) = NewBlock(c, t, d, k)
  BY DEF Tool!NewBlock, NewBlock, Tool!Block, Block, Tool!CalculateHash, CalculateHash,
     Tool!MerkleRoot, MerkleRoot, Tool!SignData, SignData, Tool!GetLatestBlock, GetLatestBlock,
     Tool!Link, Link, Tool!NoHash, NoHash
<1>2. \A l : Tool!InsertBlockStmt(l) = InsertBlockStmt(l)
  BY DEF Tool!InsertBlockStmt, InsertBlockStmt, Tool!VoteLedger, VoteLedger
<1>3. QED
  BY <1>1, <1>2
     DEF Tool!VoteLedger, VoteLedger, Tool!AuditLedger, AuditLedger, Tool!Ledgers, Ledgers,
     Tool!Query, Query, Tool!AuditData, AuditData, Tool!VoteData, VoteData, Tool!SigningKey,
     SigningKey, Tool!GeneratedKey, GeneratedKey, Tool!SystemKey, SystemKey

LEMMA ToolStatements ==
    ASSUME NEW q
    PROVE  /\ Tool!Perform(q) <=> Perform(q)
           /\ Tool!Rejected(q) <=> Rejected(q)
<1>1. Tool!Rejected(q) <=> Rejected(q)
  BY ToolNames DEF Tool!Rejected, Rejected
<1>2. Tool!Perform(q) <=> Perform(q)
  BY DEF Tool!Perform, Tool!Read, Tool!InsertVote, Tool!DeleteVotes, Tool!UpdateFlag,
     Tool!UpdateKeys, Tool!DeleteUser, Tool!UpdateIsOpen, Tool!SaveBlock, Tool!DeleteBlocks,
     Tool!InsertAuditLog, Perform, Read, InsertVote, DeleteVotes, UpdateFlag, UpdateKeys,
     DeleteUser, UpdateIsOpen, SaveBlock, DeleteBlocks, InsertAuditLog, Tool!db, db,
     Tool!Scope, Scope, Tool!GeneratedKey, GeneratedKey, Tool!Ledgers, Ledgers,
     Tool!VoteLedger, VoteLedger, Tool!AuditLedger, AuditLedger, Tool!InsertBlockStmt,
     InsertBlockStmt
<1>3. QED
  BY <1>1, <1>2

LEMMA ToolRunsStatement ==
    ASSUME NEW r, NEW stmt, Tool!Succeeds(r, stmt) \/ Tool!Fails(r, stmt)
    PROVE  ToolRuns(r, stmt)
BY ToolStatements
   DEF Tool!Succeeds, Tool!Fails, Tool!Executes, Tool!db, db, ToolRuns

LEMMA ToolAnswersClient ==
    ASSUME NEW r, NEW message \in Replies, Tool!Answer(r, message)
    PROVE  ToolAnswers(r)
BY DEF Tool!Answer, Tool!Issue, ToolAnswers, ToolIssues

LEMMA ToolGoesOn ==
    ASSUME NEW r, NEW stmt \in Checks, Tool!Proceed(r, stmt, NULL)
    PROVE  ToolProceeds(r)
BY ToolNames DEF Tool!Proceed, Tool!Issue, ToolProceeds, ToolIssues

LEMMA ToolRecords ==
    ASSUME NEW r, Tool!RecordAuditLog(r)
    PROVE  ToolAdds(r)
<1> DEFINE b == NewBlock(tool_chain[AuditLedger], r, AuditData(r), SystemKey)
           insert == Query(r, InsertBlockStmt(AuditLedger), b)
<1>1. Tool!NextAuditBlock(r) = b
  BY ToolNames DEF Tool!NextAuditBlock
<1>2. /\ tool_chain' = [tool_chain EXCEPT ![AuditLedger] = Append(@, b)]
      /\ ToolIssues(<<insert>>) /\ reply' = reply
  BY <1>1, ToolNames DEF Tool!RecordAuditLog, Tool!AddBlock, Tool!Issue, ToolIssues
<1>3. AuditLedger \in Ledgers
  BY DEF Ledgers
<1>4. QED
  BY <1>2, <1>3 DEF ToolAdds

LEMMA ToolTurns ==
    ASSUME NEW r, Tool!Callback(r),
           tool_queue # <<>> => OwnCall(Head(tool_queue))
    PROVE  ToolTurn(r)
<1>1. /\ Tool!InsertBlockStmt(VoteLedger) = InsertBlockStmt(VoteLedger)
      /\ Tool!InsertBlockStmt(AuditLedger) = InsertBlockStmt(AuditLedger)
      /\ Tool!VoteLedger = VoteLedger /\ Tool!AuditLedger = AuditLedger
      /\ VoteLedger \in Ledgers /\ AuditLedger \in Ledgers
  BY ToolNames DEF Ledgers
<1>2. \A m \in {"ok", "Database error", "Voting belum dibuka oleh panitia.",
                 "Kandidat tidak valid", "Kamu sudah voting!", "Kandidat tidak ditemukan.",
                 "Gagal menyimpan vote", "Vote tersimpan tapi gagal update status",
                 "Vote tersimpan tapi gagal catat di blockchain"} : m \in Replies
  BY DEF Replies
<1>3. \A stmt : Tool!Succeeds(r, stmt) \/ Tool!Fails(r, stmt) => ToolRuns(r, stmt)
  BY ToolRunsStatement
<1>4. \A m \in Replies : Tool!Answer(r, m) => ToolAnswers(r)
  BY ToolAnswersClient
<1>5. \A stmt \in Checks : Tool!Proceed(r, stmt, NULL) => ToolProceeds(r)
  BY ToolGoesOn
<1>6. Tool!RecordAuditLog(r) => ToolAdds(r)
  BY ToolRecords
<1>7. CASE Tool!CastVote(r)
  <2>1. CASE Tool!CheckSettings(r)
    BY <1>2, <1>3, <1>4, <1>5, <2>1 DEF Tool!CheckSettings, ToolTurn, Checks
  <2>2. CASE Tool!CheckSudahVote(r)
    BY <1>2, <1>3, <1>4, <1>5, <2>2 DEF Tool!CheckSudahVote, ToolTurn, Checks
  <2>3. CASE Tool!CheckCandidate(r)
    BY <1>2, <1>3, <1>4, <1>5, <2>3 DEF Tool!CheckCandidate, ToolTurn, Checks
  <2>4. CASE Tool!CheckFails(r)
    BY <1>2, <1>3, <1>4, <2>4 DEF Tool!CheckFails, ToolTurn
  <2>5. CASE Tool!VoteSaved(r)
    BY <1>3, <1>5, <2>5 DEF Tool!VoteSaved, ToolTurn, Checks
  <2>6. CASE Tool!VoteNotSaved(r)
    BY <1>2, <1>3, <1>4, <2>6 DEF Tool!VoteNotSaved, ToolTurn
  <2>7. CASE Tool!FlagSet(r)
    <3> DEFINE b == NewBlock(tool_chain[VoteLedger], r, VoteData(r), SigningKey(r))
               insert == Query(r, InsertBlockStmt(VoteLedger), b)
    <3>1. Tool!NextVoteBlock(r) = b
      BY ToolNames DEF Tool!NextVoteBlock
    <3>2. /\ ToolRuns(r, "SET sudah_vote") /\ reply' = reply
          /\ tool_chain' = [tool_chain EXCEPT ![VoteLedger] = Append(@, b)]
          /\ \/ ToolIssues(<<insert>>)
             \/ ToolIssues(<<Query(r, "UPDATE keys", NULL), insert>>)
      BY <1>1, <1>3, <2>7, <3>1, ToolNames DEF Tool!FlagSet, Tool!Issue, ToolIssues
    <3>3. Head(tool_queue).stmt = "SET sudah_vote"
      BY <3>2 DEF ToolRuns
    <3>4. ToolAdds(r)
      BY <1>1, <3>2, <3>3 DEF ToolAdds
    <3>5. QED
      BY <3>2, <3>4 DEF ToolTurn
  <2>8. CASE Tool!FlagNotSet(r)
    BY <1>2, <1>3, <1>4, <2>8 DEF Tool!FlagNotSet, ToolTurn
  <2>9. CASE Tool!KeysSaved(r)
    BY <1>3, <2>9 DEF Tool!KeysSaved, Tool!Issue, ToolTurn, ToolAnswers, ToolIssues
  <2>10. CASE Tool!VoteBlockSaved(r)
    BY <1>3, <1>6, <2>10 DEF Tool!VoteBlockSaved, ToolTurn
  <2>11. CASE Tool!VoteBlockLost(r)
    BY <1>2, <1>3, <1>4, <2>11 DEF Tool!VoteBlockLost, ToolTurn
  <2>12. QED
    BY <1>7, <2>1, <2>2, <2>3, <2>4, <2>5, <2>6, <2>7, <2>8, <2>9, <2>10, <2>11
       DEF Tool!CastVote
<1>8. CASE Tool!RecordAudit(r)
  <2>1. CASE Tool!AuditBlockSaved(r)
    <3>1. ToolRuns(r, InsertBlockStmt(AuditLedger))
      BY <1>1, <1>3, <2>1 DEF Tool!AuditBlockSaved
    <3>2. /\ Head(tool_queue).stmt = InsertBlockStmt(AuditLedger)
          /\ ToolIssues(<<Query(r, "INSERT audit_logs", Head(tool_queue).block)>>)
          /\ tool_chain' = tool_chain /\ reply' = reply
      BY <2>1, <3>1, ToolNames
         DEF Tool!AuditBlockSaved, Tool!Proceed, Tool!Issue, ToolIssues, ToolRuns
    <3>3. QED
      BY <3>1, <3>2 DEF ToolTurn, ToolProceeds
  <2>2. CASE Tool!AuditBlockLost(r)
    BY <1>1, <1>3, <1>5, <2>2 DEF Tool!AuditBlockLost, ToolTurn, Checks
  <2>3. CASE Tool!AuditLogSaved(r)
    BY <1>2, <1>3, <1>4, <2>3 DEF Tool!AuditLogSaved, ToolTurn
  <2>4. CASE Tool!AuditLogLost(r)
    BY <1>2, <1>3, <1>4, <2>4 DEF Tool!AuditLogLost, ToolTurn
  <2>5. QED
    BY <1>8, <2>1, <2>2, <2>3, <2>4 DEF Tool!RecordAudit
<1>9. \A stmt : ToolRuns(r, stmt) => stmt \in CastStatements /\ req[r].op = "castVote"
  BY DEF ToolRuns, OwnCall, Sent
<1>10. \A stmt \in CastStatements :
          stmt \notin {"DELETE users", "DELETE votes", "CLEAR sudah_vote", "DELETE blockchain",
                       "SELECT is_open", "SET is_open", "CLEAR is_open"}
  BY DEF CastStatements, Checks, InsertBlockStmt
<1>11. ~Tool!UserAdmin(r)
  <2>1. ~Tool!UserDeleted(r) /\ ~Tool!UserNotDeleted(r) /\ ~Tool!VotesDeleted(r)
    BY <1>3, <1>9, <1>10 DEF Tool!UserDeleted, Tool!UserNotDeleted, Tool!VotesDeleted
  <2>2. ~Tool!VotesNotDeleted(r) /\ ~Tool!FlagsCleared(r) /\ ~Tool!FlagsNotCleared(r)
    BY <1>3, <1>9, <1>10 DEF Tool!VotesNotDeleted, Tool!FlagsCleared, Tool!FlagsNotCleared
  <2>3. ~Tool!BlocksDeleted(r) /\ ~Tool!GenesisSaved(r) /\ ~Tool!ResetChainFails(r)
    BY <1>3, <1>9, <1>10 DEF Tool!BlocksDeleted, Tool!GenesisSaved, Tool!ResetChainFails
  <2>4. QED
    BY <2>1, <2>2, <2>3 DEF Tool!UserAdmin
<1>12. ~Tool!SettingsAdmin(r)
  BY <1>3, <1>9, <1>10 DEF Tool!SettingsAdmin, Tool!StatusRead, Tool!StatusNotRead,
     Tool!StatusUpdated, Tool!StatusNotUpdated
<1>13. QED
  BY <1>7, <1>8, <1>11, <1>12 DEF Tool!Callback

(***************************************************************************)
(* The rows that a DELETE leaves.                                          *)
(***************************************************************************)
Upto(kept, i) == {j \in kept : j <= i}

\* Each number up to the size of a set of positions is the rank of one of them.
LEMMA Rank ==
    ASSUME NEW n \in Nat, NEW kept \in SUBSET (1..n)
    PROVE  /\ Cardinality(kept) \in Nat /\ IsFiniteSet(kept)
           /\ \A k \in 1..Cardinality(kept) :
                 \E i \in kept : Cardinality(Upto(kept, i)) = k
<1>1. IsFiniteSet(1..n)
  BY FS_Interval
<1>2. \A S \in SUBSET kept : IsFiniteSet(S) /\ Cardinality(S) \in Nat
  BY <1>1, FS_Subset, FS_CardinalityType
<1>3. ASSUME NEW k \in 1..Cardinality(kept)
      PROVE  \E i \in kept : Cardinality(Upto(kept, i)) = k
  <2> DEFINE size(i) == Cardinality(Upto(kept, i))
             S == {i \in kept : k <= size(i)}
  <2>1. \A i \in kept : Upto(kept, i) \in SUBSET kept
    BY DEF Upto
  <2>2. \A i \in kept : size(i) \in Nat
    BY <1>2, <2>1
  <2>3. k \in Nat /\ k >= 1 /\ k <= Cardinality(kept)
    BY <1>2
  <2>4. PICK last \in kept : \A j \in kept : j <= last
    <3>1. kept # {}
      BY <2>3, FS_EmptySet
    <3>2. QED
      BY <3>1, LastPosition
  <2>5. last \in S
    <3>1. Upto(kept, last) = kept
      BY <2>4 DEF Upto
    <3>2. QED
      BY <2>3, <3>1
  <2>6. PICK i \in S : \A j \in S : i <= j
    <3>1. S \in SUBSET Nat
      <4>1. S \in SUBSET kept
        BY Zenon
      <4>2. 1..n \subseteq Nat
        OBVIOUS
      <4> HIDE DEF S
      <4>3. QED
        BY <4>1, <4>2
    <3> HIDE DEF S
    <3>2. QED
      BY <2>5, <3>1, FirstPosition
  <2>7. ASSUME size(i) > k PROVE FALSE
    <3> DEFINE below == Upto(kept, i) \ {i}
    <3>1. i \in kept /\ k <= size(i) /\ i \in Upto(kept, i) /\ IsFiniteSet(Upto(kept, i))
      BY <1>2, <2>1 DEF Upto
    <3>2. Cardinality(below) = size(i) - 1 /\ below \in SUBSET kept
      BY <3>1, FS_RemoveElement DEF Upto
    <3>3. Cardinality(below) >= k
      BY <2>2, <2>3, <2>7, <3>1, <3>2
    <3>4. below # {}
      BY <2>3, <3>3, FS_EmptySet
    <3>5. PICK p \in below : \A j \in below : j <= p
      <4> HIDE DEF below
      <4>1. below \in SUBSET (1..n)
        BY <3>2
      <4>2. QED
        BY <3>4, <4>1, LastPosition
    <3>6. p \in kept /\ p < i
      <4>1. p <= i /\ p # i /\ p \in 1..n /\ i \in 1..n
        BY <3>1 DEF Upto
      <4>2. QED
        BY <3>2, <4>1
    <3>7. Upto(kept, p) = below
      <4>1. ASSUME NEW j \in kept PROVE j <= p <=> j <= i /\ j # i
        <5>1. j \in 1..n /\ i \in 1..n /\ p \in 1..n
          BY <3>1, <3>6
        <5>2. j <= i /\ j # i => j <= p
          BY <3>5 DEF Upto
        <5>3. j <= p => j <= i /\ j # i
          BY <3>6, <5>1
        <5>4. QED
          BY <5>2, <5>3
      <4>2. QED
        BY <4>1 DEF Upto
    <3>8. p \in S
      BY <3>3, <3>6, <3>7
    <3>9. i \in 1..n /\ p \in 1..n /\ i <= p
      BY <2>6, <3>1, <3>6, <3>8
    <3>10. QED
      BY <3>6, <3>9
  <2>8. size(i) = k
    <3>1. i \in kept /\ k <= size(i)
      OBVIOUS
    <3>2. size(i) \in Nat /\ ~(size(i) > k)
      BY <2>2, <2>7, <3>1
    <3> HIDE DEF size
    <3>3. QED
      BY <2>3, <3>1, <3>2
  <2>9. QED
    BY <2>6, <2>8
<1>4. QED
  BY <1>2, <1>3

LEMMA RowsAtType ==
    ASSUME NEW rows \in Seq(Blocks), NEW kept \in SUBSET (DOMAIN rows)
    PROVE  /\ RowsAt(rows, kept) \in Seq(Blocks)
           /\ \A k \in 1..Len(RowsAt(rows, kept)) :
                 \E i \in kept : RowsAt(rows, kept)[k] = rows[i]
<1> DEFINE m == Cardinality(kept)
           pick(k) == CHOOSE i \in kept : Cardinality(Upto(kept, i)) = k
<1>1. DOMAIN rows = 1..Len(rows) /\ Len(rows) \in Nat
  OBVIOUS
<1>2. m \in Nat /\ \A k \in 1..m : pick(k) \in kept
  BY <1>1, Rank
<1>3. RowsAt(rows, kept) = [k \in 1..m |-> rows[pick(k)]]
  BY DEF RowsAt, Upto
<1> HIDE DEF m, pick
<1>4. \A k \in 1..m : rows[pick(k)] \in Blocks
  BY <1>1, <1>2, ElementOfSeq
<1>5. [k \in 1..m |-> rows[pick(k)]] \in Seq(Blocks)
      /\ Len([k \in 1..m |-> rows[pick(k)]]) = m
  BY <1>2, <1>4
<1>6. QED
  BY <1>2, <1>3, <1>5

(***************************************************************************)
(* The invariant of the two processes: the tool's variables, whose request *)
(* is whose, and the server's own invariants, which hold until the tool    *)
(* deletes the settings row.                                               *)
(***************************************************************************)
\* The program points up to the creation of users.
Early == {"load vote", "load audit", "max vote", "max audit", "setting", "ensure", "open",
          "create"}

ToolOK ==
    /\ DOMAIN tool = {"pc", "max", "previous", "created", "users", "report", "spoilt",
                      "before", "after"}
    /\ tool.users \subseteq ValidationUsers
    /\ tool.created \subseteq ValidationUsers
    /\ tool.pc \in Early => tool.users = {}
    /\ tool.previous \in BOOLEAN \cup {NULL}
    /\ tool.pc = "vote" => Candidates # {}

\* The tool's chains are loaded before it votes.
ToolMemory ==
    /\ tool_chain \in [Ledgers -> Seq(Blocks)]
    /\ tool_queue \in Seq(Queries)
    /\ tool.pc \notin {"load vote", "failed"} => tool_chain[VoteLedger] # <<>>
    /\ tool.pc \notin {"load vote", "load audit", "failed"} => tool_chain[AuditLedger] # <<>>
    /\ tool_queue # <<>> => tool.pc = "vote"

Separate ==
    /\ \A i \in 1..Len(tool_queue) : OwnCall(tool_queue[i])
    /\ \A i \in 1..Len(queue) : queue[i].req \in Clients
    /\ \A r \in ValidationVotes :
          req[r] # NULL => req[r].op = "castVote" /\ req[r].user \in ValidationUsers
    /\ \A r \in Clients : req[r] # NULL => req[r].user \notin ValidationUsers

ServerOK == up /\ TypeInv /\ HandlersInv

ServerGone == DOMAIN settings = {} /\ tool.pc = "done"

ValidationInv == ToolOK /\ ToolMemory /\ Separate /\ (ServerOK \/ ServerGone)

\* What the tool does outside of castVote.
OwnStep ==
    /\ ToolOK' /\ ToolMemory'
    /\ tool_queue' = tool_queue
    /\ faults' \in 0..MaxFaults
    /\ TablesOK' \/ ServerGone'

LEMMA OnErrorExits ==
    ASSUME NEW exit \in OnError
    PROVE  /\ exit[1] # "vote" /\ exit[1] # "done"
           /\ exit[2] # "vote" /\ exit[2] # "load vote"
           /\ exit[2] # "load audit" /\ exit[2] \notin Early
           /\ exit[1] \in {"load vote", "load audit", "failed"} => exit[2] = "failed"
<1>1. CASE exit \in {"load vote", "load audit", "max vote", "max audit"} \X {"failed"}
  BY <1>1 DEF Early
<1>2. CASE exit \in {"setting", "ensure", "open", "create", "choose"} \X {"post"}
  BY <1>2 DEF Early
<1>3. CASE \/ exit \in {"delete vote blocks"} \X {"delete audit blocks"}
           \/ exit \in {"delete audit blocks"} \X {AfterBlocks}
  BY <1>3 DEF AfterBlocks, Early
<1>4. CASE exit \in {"delete votes", "delete users"} \X {"restore"}
  BY <1>4 DEF Early
<1>5. CASE exit \in {"post", "restore"} \X {"done"}
  BY <1>5 DEF Early
<1>6. QED
  BY <1>1, <1>2, <1>3, <1>4, <1>5 DEF OnError

LEMMA LoadChainOwn ==
    ASSUME ValidationInv, ServerOK, NEW l \in Ledgers, NEW pc, NEW next,
           \/ l = VoteLedger /\ pc = "load vote" /\ next = "load audit"
           \/ l = AuditLedger /\ pc = "load audit" /\ next = "max vote",
           LoadChain(l, pc, next)
    PROVE  OwnStep
<1>1. BootGenesis \in Blocks
  BY GenesisType DEF BootGenesis, Timestamps
<1>2. \A m \in Ledgers : TablesAfterBoot[m] \in Seq(Blocks) /\ TablesAfterBoot[m] # <<>>
  <2>1. blocks \in [Ledgers -> Seq(Blocks)]
    BY DEF ServerOK, TypeInv, TypeOK, TablesOK
  <2>2. ASSUME NEW m \in Ledgers
        PROVE  TablesAfterBoot[m] \in Seq(Blocks) /\ TablesAfterBoot[m] # <<>>
    <3>1. TablesAfterBoot[m] = IF blocks[m] = <<>> THEN <<BootGenesis>> ELSE blocks[m]
      BY DEF TablesAfterBoot
    <3>2. <<BootGenesis>> \in Seq(Blocks) /\ <<BootGenesis>> # <<>>
      BY <1>1, OneElement
    <3>3. QED
      BY <2>1, <3>1, <3>2
  <2>3. QED
    BY <2>2
<1>3. PICK s \in LoadOrders(TablesAfterBoot[l]) : tool_chain' = [tool_chain EXCEPT ![l] = s]
  BY DEF LoadChain
<1>4. s \in Seq(Blocks) /\ s # <<>>
  BY <1>2, LoadOrdersType
<1>5. tool_chain' \in [Ledgers -> Seq(Blocks)] /\ tool_chain'[l] # <<>>
      /\ \A m \in Ledgers : m # l => tool_chain'[m] = tool_chain[m]
  BY <1>3, <1>4 DEF ValidationInv, ToolMemory
<1>6. TablesOK'
  BY <1>2 DEF LoadChain, ServerOK, TypeInv, TypeOK, TablesOK
<1>7. ToolOK' /\ tool'.pc = next /\ next # "vote"
  BY DEF LoadChain, At, ValidationInv, ToolOK, Early
<1>8. ToolMemory'
  BY <1>5, <1>7 DEF LoadChain, At, ValidationInv, ToolMemory, Ledgers, VoteLedger, AuditLedger
<1>9. QED
  BY <1>6, <1>7, <1>8 DEF OwnStep, LoadChain, ServerOK, TypeInv, TypeOK, LifecycleOK

LEMMA DeleteBlocksOwn ==
    ASSUME ValidationInv, ServerOK, NEW l \in Ledgers, NEW pc, NEW next,
           \/ l = VoteLedger /\ pc = "delete vote blocks" /\ next = "delete audit blocks"
           \/ l = AuditLedger /\ pc = "delete audit blocks" /\ next = AfterBlocks,
           DeleteBlocksAfter(l, pc, next)
    PROVE  OwnStep
<1> DEFINE kept == {i \in DOMAIN blocks[l] :
                       tool.max[l] # NULL /\ blocks[l][i].index <= tool.max[l]}
<1>1. blocks \in [Ledgers -> Seq(Blocks)] /\ kept \in SUBSET DOMAIN blocks[l]
  BY DEF ServerOK, TypeInv, TypeOK, TablesOK
<1>2. blocks' = [blocks EXCEPT ![l] = RowsAt(blocks[l], kept)]
  BY <1>1 DEF DeleteBlocksAfter
<1> HIDE DEF kept
<1>3. RowsAt(blocks[l], kept) \in Seq(Blocks)
  BY <1>1, RowsAtType
<1>4. blocks' \in [Ledgers -> Seq(Blocks)]
  BY <1>1, <1>2, <1>3
<1>5. TablesOK'
  BY <1>4 DEF DeleteBlocksAfter, ServerOK, TypeInv, TypeOK, TablesOK
<1>6. next \in {"delete audit blocks", "delete votes", "restore"}
  BY DEF AfterBlocks
<1>7. ToolOK' /\ tool'.pc = next
  BY <1>6 DEF DeleteBlocksAfter, Goto, ValidationInv, ToolOK, Early
<1>8. ToolMemory'
  BY <1>6, <1>7 DEF DeleteBlocksAfter, At, ValidationInv, ToolMemory
<1>9. QED
  BY <1>5, <1>7, <1>8 DEF OwnStep, DeleteBlocksAfter, ServerOK, TypeInv, TypeOK, LifecycleOK

LEMMA CreateOwn ==
    ASSUME ValidationInv, ServerOK, CreateValidationUser
    PROVE  OwnStep
<1>1. PICK u \in ValidationUsers \ DOMAIN users :
          LET created == tool.created \cup {u}
          IN  /\ users' = WithFresh(users, {u})
              /\ \/ /\ tool' = [tool EXCEPT !.created = created, !.users = InsertedUsers(created),
                                    !.pc = IF created = ValidationUsers THEN "choose" ELSE "create"]
                    /\ UNCHANGED faults
                 \/ /\ faults < MaxFaults /\ faults' = faults + 1
                    /\ tool' = [tool EXCEPT !.created = created, !.pc = "post"]
  BY DEF CreateValidationUser
<1>2. u \in Users
  BY ValidationAssumption
<1>3. TablesOK'
  BY <1>1, <1>2 DEF CreateValidationUser, WithFresh, ServerOK, TypeInv, TypeOK, TablesOK
<1>4. ToolOK' /\ tool'.pc \in {"choose", "create", "post"}
  <2> DEFINE created == tool.created \cup {u}
             next == IF created = ValidationUsers THEN "choose" ELSE "create"
  <2>1. /\ next \in {"choose", "create"}
        /\ next = "create" => InsertedUsers(created) = {}
    BY DEF InsertedUsers
  <2>2. \/ tool' = [tool EXCEPT !.created = created, !.users = InsertedUsers(created),
                               !.pc = next]
        \/ tool' = [tool EXCEPT !.created = created, !.pc = "post"]
    BY <1>1
  <2>3. ToolOK
    BY DEF ValidationInv
  <2>4. created \subseteq ValidationUsers /\ InsertedUsers(created) \subseteq ValidationUsers
    BY <2>3 DEF ToolOK, InsertedUsers
  <2> HIDE DEF next, created
  <2>5. CASE tool' = [tool EXCEPT !.created = created, !.users = InsertedUsers(created),
                                  !.pc = next]
    BY <2>1, <2>3, <2>4, <2>5 DEF ToolOK, Early
  <2>6. CASE tool' = [tool EXCEPT !.created = created, !.pc = "post"]
    BY <2>3, <2>4, <2>6 DEF ToolOK, Early
  <2>7. QED
    BY <2>2, <2>5, <2>6
<1>5. ToolMemory'
  BY <1>4 DEF CreateValidationUser, At, ValidationInv, ToolMemory
<1>6. faults' \in 0..MaxFaults
  BY <1>1, DatabaseAssumption DEF ServerOK, TypeInv, TypeOK, LifecycleOK
<1>7. QED
  BY <1>3, <1>4, <1>5, <1>6 DEF OwnStep, CreateValidationUser

LEMMA ToolFailsOwn ==
    ASSUME ValidationInv, ServerOK, ToolFails
    PROVE  OwnStep
<1>1. PICK exit \in OnError :
          /\ tool.pc = exit[1]
          /\ tool' = [tool EXCEPT !.pc = exit[2], !.spoilt = @ \/ exit[1] \in Costly]
  BY DEF ToolFails
<1>2. ToolOK' /\ tool'.pc = exit[2]
  BY <1>1, OnErrorExits DEF ValidationInv, ToolOK
<1>3. ToolMemory'
  BY <1>1, <1>2, OnErrorExits DEF ToolFails, ValidationInv, ToolMemory
<1>4. TablesOK'
  BY DEF ToolFails, ServerOK, TypeInv, TypeOK, TablesOK, db
<1>5. faults' \in 0..MaxFaults
  BY DatabaseAssumption DEF ToolFails, ServerOK, TypeInv, TypeOK, LifecycleOK
<1>6. QED
  BY <1>2, <1>3, <1>4, <1>5 DEF OwnStep, ToolFails

LEMMA RestoreOwn ==
    ASSUME ValidationInv, ServerOK, RestoreElectionSetting
    PROVE  OwnStep
<1>1. ToolOK' /\ tool'.pc = "done"
  BY DEF RestoreElectionSetting, Goto, ValidationInv, ToolOK, Early
<1>2. ToolMemory'
  BY <1>1 DEF RestoreElectionSetting, At, ValidationInv, ToolMemory
<1>3. TablesOK' \/ ServerGone'
  <2>1. CASE tool.previous = NULL
    <3>1. DOMAIN settings' = {}
      BY <2>1 DEF RestoreElectionSetting
    <3>2. QED
      BY <1>1, <3>1 DEF ServerGone
  <2>2. CASE tool.previous # NULL
    BY <2>2 DEF RestoreElectionSetting, ValidationInv, ToolOK, ServerOK, TypeInv, TypeOK,
       TablesOK
  <2>3. QED
    BY <2>1, <2>2
<1>4. QED
  BY <1>1, <1>2, <1>3
     DEF OwnStep, RestoreElectionSetting, ServerOK, TypeInv, TypeOK, LifecycleOK

LEMMA OtherOwn ==
    ASSUME ValidationInv, ServerOK,
           \/ ReadMax(VoteLedger, "max vote", "max audit")
           \/ ReadMax(AuditLedger, "max audit", "setting")
           \/ ReadSetting \/ EnsureElectionOpen \/ ChooseCandidate \/ RunScenarios
           \/ PostMax \/ DeleteValidationUsers
    PROVE  OwnStep
<1>1. faults' = faults /\ faults \in 0..MaxFaults /\ tool_chain' = tool_chain
      /\ tool_queue' = tool_queue /\ tool_queue = <<>>
      /\ tool.pc \notin {"load vote", "load audit", "failed"}
  BY DEF ReadMax, ReadSetting, EnsureElectionOpen, ChooseCandidate, RunScenarios, PostMax,
     DeleteValidationUsers, At, ServerOK, TypeInv, TypeOK, LifecycleOK
<1>2. TablesOK'
  <2>1. TablesOK
    BY DEF ServerOK, TypeInv, TypeOK
  <2>2. CASE UNCHANGED db
    BY <2>1, <2>2 DEF TablesOK, db
  <2>3. CASE EnsureElectionOpen
    <3>1. settings' = settings \/ \E open \in BOOLEAN : settings' = [is_open |-> open]
      BY <2>3, Zenon DEF EnsureElectionOpen
    <3>2. settings' \in [is_open : BOOLEAN]
      <4>1. settings \in [is_open : BOOLEAN]
        BY <2>1 DEF TablesOK
      <4>2. \A open \in BOOLEAN : [is_open |-> open] \in [is_open : BOOLEAN]
        OBVIOUS
      <4>3. QED
        BY <3>1, <4>1, <4>2
    <3>3. UNCHANGED <<users, votes, blocks, audit_logs>>
      BY <2>3 DEF EnsureElectionOpen
    <3>4. QED
      BY <2>1, <3>2, <3>3 DEF TablesOK
  <2>4. CASE DeleteValidationUsers
    <3>1. \/ users' = users
          \/ users' = [u \in DOMAIN users \ tool.users |-> users[u]]
      BY <2>4 DEF DeleteValidationUsers
    <3>2. /\ DOMAIN users' \subseteq Users
          /\ users' \in [DOMAIN users' -> [sudah_vote : BOOLEAN,
                                          public_key : KeyPairs \cup {NULL}]]
      BY <2>1, <3>1 DEF TablesOK
    <3>3. votes' \subseteq votes /\ UNCHANGED <<settings, blocks, audit_logs>>
      BY <2>4 DEF DeleteValidationUsers
    <3>4. QED
      BY <2>1, <3>2, <3>3 DEF TablesOK
  <2>5. QED
    BY <2>2, <2>3, <2>4 DEF ReadMax, ReadSetting, ChooseCandidate, RunScenarios, PostMax
<1>3. settings.is_open \in BOOLEAN
  BY DEF ServerOK, TypeInv, TypeOK, TablesOK
<1>4. ToolOK' /\ tool'.pc \notin {"load vote", "load audit", "failed"}
  BY <1>3 DEF ReadMax, ReadSetting, EnsureElectionOpen, ChooseCandidate, RunScenarios, PostMax,
     DeleteValidationUsers, Goto, At, ValidationInv, ToolOK, Early
<1>5. ToolMemory'
  BY <1>1, <1>4 DEF ValidationInv, ToolMemory
<1>6. QED
  BY <1>1, <1>2, <1>4, <1>5 DEF OwnStep

(***************************************************************************)
(* Every step keeps the invariant.                                         *)
(***************************************************************************)
LEMMA OnlyElement ==
    ASSUME NEW S, NEW e \in S
    PROVE  <<e>> \in Seq(S) /\ Len(<<e>>) = 1 /\ \A i \in 1..Len(<<e>>) : <<e>>[i] = e
<1>1. <<e>> \in Seq(S) /\ Len(<<e>>) = 1 /\ <<e>>[1] = e
  OBVIOUS
<1>2. \A i \in 1..Len(<<e>>) : i = 1
  BY <1>1
<1>3. QED
  BY <1>1, <1>2

LEMMA OwnStepKeeps ==
    ASSUME ValidationInv, ServerOK, OwnStep, OwnOnly
    PROVE  ValidationInv'
<1>1. UNCHANGED <<chain, queue, req, reply, up, crashes, tool_queue>>
  BY DEF OwnOnly, OwnStep, memory, lifecycle
<1>2. Separate'
  BY <1>1 DEF ValidationInv, Separate, OwnCall, Sent
<1>3. HandlersInv'
  BY <1>1 DEF ServerOK, HandlersInv, OneEach, OwnStatement, Waits, Awaited, Admitted
<1>4. TablesOK' => TypeInv'
  BY <1>1 DEF OwnStep, ServerOK, TypeInv, TypeOK, MemoryOK, RequestsOK, LifecycleOK, QueueOK,
     Underway, ChainsLoaded
<1>5. QED
  BY <1>1, <1>2, <1>3, <1>4 DEF OwnStep, ValidationInv, ServerOK

LEMMA OwnStepsKeep ==
    ASSUME ValidationInv, ServerOK, OwnOnly,
           \/ Prepare \/ ReadSetting \/ EnsureElectionOpen \/ CreateValidationUser
           \/ ChooseCandidate \/ RunScenarios \/ CleanUp \/ ToolFails
    PROVE  OwnStep /\ ValidationInv'
<1>1. VoteLedger \in Ledgers /\ AuditLedger \in Ledgers
  BY DEF Ledgers
<1>2. OwnStep
  <2>1. CASE Prepare
    BY <1>1, <2>1, LoadChainOwn, OtherOwn DEF Prepare
  <2>2. CASE CleanUp
    <3>1. DeleteBlocksAfter(VoteLedger, "delete vote blocks", "delete audit blocks") => OwnStep
      BY <1>1, DeleteBlocksOwn
    <3>2. DeleteBlocksAfter(AuditLedger, "delete audit blocks", AfterBlocks) => OwnStep
      BY <1>1, DeleteBlocksOwn
    <3>3. PostMax \/ DeleteValidationUsers \/ RestoreElectionSetting => OwnStep
      BY RestoreOwn, OtherOwn
    <3>4. QED
      BY <2>2, <3>1, <3>2, <3>3 DEF CleanUp
  <2>3. QED
    BY <2>1, <2>2, CreateOwn, ToolFailsOwn, OtherOwn
<1>3. QED
  BY <1>2, OwnStepKeeps

LEMMA FirstCandidateType ==
    ASSUME Candidates # {}
    PROVE  FirstCandidate \in Candidates
<1>1. \E c \in Candidates : \A d \in Candidates : c <= d
  BY ValidationAssumption, FirstPosition
<1>2. QED
  BY <1>1 DEF FirstCandidate

\* The next vote is one more request, which the server does not see.
LEMMA NextVoteKeeps ==
    ASSUME "castVote" \in Operations, ValidationInv, CastNextVote
    PROVE  ValidationInv'
<1>1. PICK r \in ValidationVotes, u \in tool.users :
          /\ req[r] = NULL
          /\ req' = [req EXCEPT ![r] = Input("castVote", u, FirstCandidate, NULL)]
          /\ tool_queue' = <<Query(r, "SELECT settings", NULL)>>
  BY DEF CastNextVote
<1> DEFINE input == Input("castVote", u, FirstCandidate, NULL)
           q == Query(r, "SELECT settings", NULL)
<1>2. /\ UNCHANGED <<db, chain, queue, reply, faults, up, crashes, tool_chain, tool>>
      /\ tool.pc = "vote"
  BY DEF CastNextVote, At, memory, lifecycle
<1>3. ServerOK /\ r \in Requests /\ u \in ValidationUsers /\ u \in Users /\ Candidates # {}
  BY <1>2, ValidationAssumption DEF ValidationInv, ServerGone, ToolOK
<1>4. input \in Inputs /\ input # NULL /\ input.op = "castVote" /\ input.user = u
      /\ input.after = Answered
  <2>1. "castVote" \in Handlers /\ FirstCandidate \in CandidateIds
    BY <1>3, FirstCandidateType DEF Handlers, CandidateIds
  <2>2. QED
    BY <1>3, <2>1, InputType, NullAssumption
<1> HIDE DEF input
<1>5. /\ req' = [req EXCEPT ![r] = input]
      /\ req \in [Requests -> Inputs \cup {NULL}]
  BY <1>1, <1>3 DEF input, ServerOK, TypeInv, TypeOK, RequestsOK
<1>6. req'[r] = input /\ \A s \in Requests : s # r => req'[s] = req[s]
  BY <1>3, <1>5
<1>7. \A i \in 1..Len(queue) :
          queue[i].req \in Requests /\ req'[queue[i].req] = req[queue[i].req]
  BY <1>6 DEF ValidationInv, Separate, Clients
<1>8. TypeInv'
  <2>1. RequestsOK'
    BY <1>2, <1>3, <1>4, <1>5 DEF ServerOK, TypeInv, TypeOK, RequestsOK
  <2>2. QueueOK'
    BY <1>2, <1>3, <1>7 DEF ServerOK, TypeInv, QueueOK, Underway
  <2>3. TablesOK' /\ MemoryOK' /\ LifecycleOK' /\ ChainsLoaded'
    BY <1>2, <1>3 DEF db, ServerOK, TypeInv, TypeOK, TablesOK, MemoryOK, LifecycleOK, ChainsLoaded
  <2>4. QED
    BY <2>1, <2>2, <2>3 DEF TypeInv, TypeOK
<1>9. HandlersInv'
  <2>1. \A i \in 1..Len(queue') : OwnStatement(queue[i])' /\ Waits(i)'
    BY <1>2, <1>3, <1>7 DEF ServerOK, HandlersInv, OwnStatement, Waits, Awaited
  <2>2. OneEach'
    BY <1>2, <1>3 DEF ServerOK, HandlersInv, OneEach, Awaited
  <2>3. \A s \in Requests : Admitted(s)'
    BY <1>2, <1>3, <1>4, <1>6 DEF ServerOK, HandlersInv, Admitted, Answered
  <2>4. QED
    BY <2>1, <2>2, <2>3 DEF HandlersInv
<1>10. q \in Queries /\ q.req = r /\ q.stmt = "SELECT settings"
  BY <1>3, QueryType DEF Query, Statements
<1>11. tool_queue' = <<q>>
  BY <1>1
<1> HIDE DEF q
<1>12. tool_queue' \in Seq(Queries) /\ \A i \in 1..Len(tool_queue') : tool_queue'[i] = q
  <2>1. /\ <<q>> \in Seq(Queries)
        /\ \A i \in 1..Len(<<q>>) : <<q>>[i] = q
    BY <1>10, OnlyElement
  <2>2. QED
    BY <1>11, <2>1
<1>13. ToolOK' /\ ToolMemory'
  BY <1>2, <1>12 DEF ValidationInv, ToolOK, ToolMemory
<1>14. Separate'
  <2>1. q.stmt \in CastStatements
    BY <1>10 DEF CastStatements, Checks
  <2>2. \A i \in 1..Len(tool_queue') : OwnCall(tool_queue[i])'
    BY <1>4, <1>6, <1>10, <1>12, <2>1 DEF OwnCall, Sent
  <2>3. r \notin Clients /\ ValidationVotes \subseteq Requests /\ Clients \subseteq Requests
    BY ValidationAssumption DEF Clients
  <2>4. QED
    BY <1>2, <1>3, <1>4, <1>6, <2>2, <2>3 DEF ValidationInv, Separate
<1>15. QED
  BY <1>2, <1>3, <1>8, <1>9, <1>13, <1>14 DEF ValidationInv, ServerOK

\* What is behind the head of a queue, followed by what is issued.
LEMMA TailThen ==
    ASSUME NEW s \in Seq(Queries), s # <<>>, NEW qs \in Seq(Queries)
    PROVE  /\ Tail(s) \o qs \in Seq(Queries)
           /\ \A i \in 1..Len(Tail(s) \o qs) :
                 \/ \E j \in 1..Len(s) : (Tail(s) \o qs)[i] = s[j]
                 \/ \E j \in 1..Len(qs) : (Tail(s) \o qs)[i] = qs[j]
<1> DEFINE rest == Tail(s)
<1>1. /\ rest \in Seq(Queries) /\ Len(rest) = Len(s) - 1
      /\ \A i \in 1..Len(rest) : rest[i] = s[i + 1]
  BY HeadTailProperties
<1>2. Len(s) \in Nat /\ Len(qs) \in Nat
  OBVIOUS
<1> HIDE DEF rest
<1>3. /\ rest \o qs \in Seq(Queries)
      /\ Len(rest \o qs) = Len(rest) + Len(qs)
      /\ \A i \in 1..Len(rest) + Len(qs) :
            (rest \o qs)[i] = IF i <= Len(rest) THEN rest[i] ELSE qs[i - Len(rest)]
  BY <1>1, ConcatProperties
<1>4. ASSUME NEW i \in 1..Len(rest \o qs)
      PROVE  \/ \E j \in 1..Len(s) : (rest \o qs)[i] = s[j]
             \/ \E j \in 1..Len(qs) : (rest \o qs)[i] = qs[j]
  <2>1. CASE i <= Len(rest)
    <3>1. i + 1 \in 1..Len(s) /\ (rest \o qs)[i] = s[i + 1]
      BY <1>1, <1>2, <1>3, <2>1
    <3>2. QED
      BY <3>1
  <2>2. CASE i > Len(rest)
    <3>1. i - Len(rest) \in 1..Len(qs) /\ (rest \o qs)[i] = qs[i - Len(rest)]
      BY <1>1, <1>2, <1>3, <2>2
    <3>2. QED
      BY <3>1
  <2>3. i \in Nat /\ Len(rest) \in Int
    BY <1>1, <1>2
  <2>4. QED
    BY <2>1, <2>2, <2>3
<1>5. QED
  BY <1>3, <1>4 DEF rest

\* The head of the tool's queue.
LEMMA ToolHead ==
    ASSUME ValidationInv, ServerOK, tool_queue # <<>>
    PROVE  /\ OwnCall(Head(tool_queue)) /\ Head(tool_queue) \in Queries
           /\ Head(tool_queue).req \in Requests
           /\ req[Head(tool_queue).req] \in Inputs
           /\ req[Head(tool_queue).req].op = "castVote"
           /\ req[Head(tool_queue).req].user \in ValidationUsers
           /\ tool.pc = "vote"
<1>1. tool_queue \in Seq(Queries) /\ tool.pc = "vote"
  BY DEF ValidationInv, ToolMemory
<1>2. 1 \in 1..Len(tool_queue) /\ Head(tool_queue) = tool_queue[1]
  BY <1>1, EmptySeq
<1>3. OwnCall(Head(tool_queue)) /\ Head(tool_queue) \in Queries
  BY <1>1, <1>2, ElementOfSeq DEF ValidationInv, Separate
<1>4. Head(tool_queue).req \in Requests /\ req[Head(tool_queue).req] # NULL
  BY <1>3, ValidationAssumption DEF OwnCall, Sent
<1>5. req[Head(tool_queue).req] \in Inputs
  BY <1>4 DEF ServerOK, TypeInv, TypeOK, RequestsOK
<1>6. QED
  BY <1>1, <1>3, <1>4, <1>5 DEF ValidationInv, Separate, OwnCall, Sent

\* What a step of the tool's castVote has in common with the server's.
ToolVoteTurn ==
    /\ tool_queue # <<>> /\ ToolTurn(Head(tool_queue).req)
    /\ req' = req
    /\ \/ Perform(Head(tool_queue)) /\ ~Rejected(Head(tool_queue))
       \/ UNCHANGED db
    /\ faults' \in 0..MaxFaults

LEMMA ToolVotesTurn ==
    ASSUME ValidationInv, ToolVotes
    PROVE  ServerOK /\ ToolVoteTurn
<1>1. PICK r \in ValidationVotes : Tool!Callback(r)
  BY DEF ToolVotes
<1>2. CASE ServerGone
  <2>1. tool_queue = <<>>
    BY <1>2 DEF ServerGone, ValidationInv, ToolMemory
  <2>2. ToolTurn(r)
    BY <1>1, <2>1, ToolTurns
  <2>3. QED
    BY <2>1, <2>2 DEF ToolTurn, ToolRuns
<1>3. CASE ServerOK
  <2>1. ToolTurn(r)
    BY <1>1, <1>3, ToolHead, ToolTurns
  <2>2. PICK stmt : ToolRuns(r, stmt)
    BY <2>1 DEF ToolTurn
  <2>3. tool_queue # <<>> /\ Head(tool_queue).req = r /\ req' = req
    BY <2>2 DEF ToolRuns
  <2>4. faults' \in 0..MaxFaults
    BY <1>3, <2>2, DatabaseAssumption DEF ToolRuns, ServerOK, TypeInv, TypeOK, LifecycleOK
  <2>5. QED
    BY <1>3, <2>1, <2>2, <2>3, <2>4 DEF ToolVoteTurn, ToolRuns
<1>4. QED
  BY <1>2, <1>3 DEF ValidationInv

\* The block that the tool's castVote adds to a chain.
LEMMA ToolBlockType ==
    ASSUME ValidationInv, ServerOK, tool_queue # <<>>, NEW r, r = Head(tool_queue).req,
           NEW l \in Ledgers, NEW data, NEW key,
           \/ l = VoteLedger /\ data = VoteData(r) /\ key = SigningKey(r)
           \/ l = AuditLedger /\ data = AuditData(r) /\ key = SystemKey
    PROVE  /\ tool_chain[l] \in Seq(Blocks) /\ tool_chain[l] # <<>>
           /\ r \in Timestamps /\ data \in Data /\ key \in KeyPairs
           /\ NewBlock(tool_chain[l], r, data, key) \in Blocks
<1>1. tool_chain[l] \in Seq(Blocks) /\ tool_chain[l] # <<>>
  BY ToolHead DEF ValidationInv, ToolMemory, Ledgers
<1>2. /\ r \in Requests /\ req[r] \in Inputs /\ req[r].user \in Users
  BY ToolHead, ValidationAssumption
<1>3. r \in Timestamps
  BY <1>2 DEF Timestamps
<1>4. VoteData(r) \in Data /\ AuditData(r) \in Data
  BY <1>2 DEF VoteData, AuditData, Data, Inputs
<1>5. SigningKey(r) \in KeyPairs /\ SystemKey \in KeyPairs
  BY <1>2 DEF SigningKey, GeneratedKey, Inputs, KeyPairs, SystemKey
<1>6. data \in Data /\ key \in KeyPairs
  BY <1>4, <1>5
<1>7. QED
  BY <1>1, <1>3, <1>6, NewBlockType

LEMMA ToolVoteKeeps ==
    ASSUME ValidationInv, ServerOK, ToolVoteTurn, UNCHANGED <<memory, lifecycle, tool>>
    PROVE  ValidationInv'
<1> DEFINE q == Head(tool_queue)
           r == q.req
<1>1. /\ OwnCall(q) /\ q \in Queries /\ r \in Requests /\ r \in ValidationVotes
      /\ req[r] \in Inputs /\ tool.pc = "vote" /\ Sent(r, "castVote")
      /\ tool_queue \in Seq(Queries) /\ tool_queue # <<>>
  BY ToolHead DEF ToolVoteTurn, ValidationInv, ToolMemory, OwnCall
<1>2. /\ UNCHANGED <<chain, queue, up, crashes, tool, req>>
      /\ faults' \in 0..MaxFaults
  BY DEF memory, lifecycle, ToolVoteTurn
<1>3. TablesOK'
  <2>1. TablesOK
    BY DEF ServerOK, TypeInv, TypeOK
  <2>2. CASE UNCHANGED db
    BY <2>1, <2>2 DEF TablesOK, db
  <2>3. CASE Perform(q) /\ ~Rejected(q)
    <3> HIDE DEF q
    <3>1. QED
      BY <1>1, <2>1, <2>3, PerformType
  <2>4. QED
    BY <2>2, <2>3 DEF ToolVoteTurn
<1> HIDE DEF r
<1>4. /\ reply' \in [Requests -> Replies \cup {NULL}]
      /\ \A s \in Requests : reply'[s] = reply[s] \/ (s = r /\ reply'[s] # NULL)
  <2>1. reply \in [Requests -> Replies \cup {NULL}]
    BY DEF ServerOK, TypeInv, TypeOK, RequestsOK
  <2>2. reply' = reply \/ \E message \in Replies : reply' = [reply EXCEPT ![r] = message]
    BY DEF ToolVoteTurn, ToolTurn, ToolAnswers, ToolProceeds, ToolAdds, r
  <2>3. NULL \notin Replies
    BY NullAssumption
  <2>4. QED
    BY <1>1, <2>1, <2>2, <2>3
<1>5. \E qs \in Seq(Queries) :
          /\ tool_queue' = Tail(tool_queue) \o qs
          /\ \A j \in 1..Len(qs) : qs[j].req = r /\ qs[j].stmt \in CastStatements
  <2>1. \A n \in Queries : n.req = r /\ n.stmt \in CastStatements =>
            /\ <<n>> \in Seq(Queries)
            /\ \A j \in 1..Len(<<n>>) : <<n>>[j].req = r /\ <<n>>[j].stmt \in CastStatements
    BY OnlyElement
  <2>2. CASE ToolAnswers(r)
    <3>1. <<>> \in Seq(Queries) /\ 1..Len(<<>>) = {}
      BY EmptySeq
    <3>2. QED
      BY <2>2, <3>1 DEF ToolAnswers, ToolIssues
  <2>3. CASE ToolProceeds(r)
    <3>1. \A stmt \in Checks :
              /\ Query(r, stmt, NULL) \in Queries /\ Query(r, stmt, NULL).req = r
              /\ Query(r, stmt, NULL).stmt \in CastStatements
      <4>1. \A stmt \in Checks : stmt \in Statements
        BY DEF Checks, Statements
      <4>2. QED
        BY <1>1, <4>1, QueryType DEF Query, CastStatements
    <3>2. /\ Query(r, "INSERT audit_logs", q.block) \in Queries
          /\ Query(r, "INSERT audit_logs", q.block).req = r
          /\ Query(r, "INSERT audit_logs", q.block).stmt \in CastStatements
      <4>1. "INSERT audit_logs" \in Statements /\ "INSERT audit_logs" \in CastStatements
        BY DEF Statements, CastStatements, Checks
      <4>2. q.block \in Blocks \cup {NULL}
        BY <1>1 DEF Queries
      <4>3. QED
        BY <1>1, <4>1, <4>2, QueryType DEF Query
    <3>3. QED
      BY <2>1, <2>3, <3>1, <3>2 DEF ToolProceeds, ToolIssues
  <2>4. CASE ToolAdds(r)
    <3>1. PICK l \in Ledgers, b \in Blocks :
              \/ ToolIssues(<<Query(r, InsertBlockStmt(l), b)>>)
              \/ ToolIssues(<<Query(r, "UPDATE keys", NULL), Query(r, InsertBlockStmt(l), b)>>)
      BY <1>1, <2>4, ToolBlockType DEF ToolAdds, r
    <3> DEFINE insert == Query(r, InsertBlockStmt(l), b)
               update == Query(r, "UPDATE keys", NULL)
    <3>2. /\ insert \in Queries /\ insert.req = r /\ insert.stmt \in CastStatements
      BY <1>1, QueryType DEF Query, CastStatements
    <3>3. /\ update \in Queries /\ update.req = r /\ update.stmt \in CastStatements
      <4>1. "UPDATE keys" \in Statements /\ "UPDATE keys" \in CastStatements
        BY DEF Statements, CastStatements, Checks
      <4>2. QED
        BY <1>1, <4>1, QueryType DEF Query
    <3>4. ToolIssues(<<insert>>) \/ ToolIssues(<<update, insert>>)
      BY <3>1
    <3> HIDE DEF insert, update
    <3>5. /\ <<update, insert>> \in Seq(Queries)
          /\ \A j \in 1..Len(<<update, insert>>) :
                /\ <<update, insert>>[j].req = r
                /\ <<update, insert>>[j].stmt \in CastStatements
      <4>1. /\ <<update, insert>> \in Seq(Queries) /\ Len(<<update, insert>>) = 2
            /\ <<update, insert>>[1] = update /\ <<update, insert>>[2] = insert
        BY <3>2, <3>3
      <4>2. \A j \in 1..Len(<<update, insert>>) : j = 1 \/ j = 2
        BY <4>1
      <4>3. QED
        BY <3>2, <3>3, <4>1, <4>2
    <3>6. QED
      BY <2>1, <3>2, <3>4, <3>5 DEF ToolIssues
  <2>5. QED
    BY <2>2, <2>3, <2>4 DEF ToolVoteTurn, ToolTurn, r
<1>6. /\ tool_queue' \in Seq(Queries)
      /\ \A i \in 1..Len(tool_queue') : OwnCall(tool_queue[i])'
  <2>1. PICK qs \in Seq(Queries) :
            /\ tool_queue' = Tail(tool_queue) \o qs
            /\ \A j \in 1..Len(qs) : qs[j].req = r /\ qs[j].stmt \in CastStatements
    BY <1>5
  <2>2. /\ tool_queue' \in Seq(Queries)
        /\ \A i \in 1..Len(tool_queue') :
              \/ \E j \in 1..Len(tool_queue) : tool_queue'[i] = tool_queue[j]
              \/ \E j \in 1..Len(qs) : tool_queue'[i] = qs[j]
    BY <1>1, <2>1, TailThen
  <2>3. \A j \in 1..Len(tool_queue) : OwnCall(tool_queue[j])
    BY DEF ValidationInv, Separate
  <2>4. QED
    BY <1>1, <1>2, <2>1, <2>2, <2>3 DEF OwnCall, Sent
<1>7. /\ tool_chain' \in [Ledgers -> Seq(Blocks)]
      /\ \A l \in Ledgers : tool_chain[l] # <<>> => tool_chain'[l] # <<>>
  <2>1. tool_chain \in [Ledgers -> Seq(Blocks)]
    BY DEF ValidationInv, ToolMemory
  <2>2. CASE tool_chain' = tool_chain
    BY <2>1, <2>2
  <2>3. CASE ToolAdds(r)
    <3>1. PICK l \in Ledgers, b \in Blocks : tool_chain' = [tool_chain EXCEPT ![l] = Append(@, b)]
      BY <1>1, <2>3, ToolBlockType DEF ToolAdds, r
    <3>2. Append(tool_chain[l], b) \in Seq(Blocks) /\ Append(tool_chain[l], b) # <<>>
      BY <2>1, AppendProperties
    <3>3. QED
      BY <2>1, <3>1, <3>2
  <2>4. QED
    BY <2>2, <2>3 DEF ToolVoteTurn, ToolTurn, ToolAnswers, ToolProceeds, r
<1>8. TypeInv'
  BY <1>2, <1>3, <1>4 DEF ServerOK, TypeInv, TypeOK, MemoryOK, RequestsOK, LifecycleOK, QueueOK,
     Underway, ChainsLoaded
<1>9. HandlersInv'
  <2>1. \A i \in 1..Len(queue) : queue[i].req \in Requests /\ queue[i].req # r
    BY <1>1 DEF ValidationInv, Separate, Clients
  <2>2. \A i \in 1..Len(queue') : OwnStatement(queue[i])' /\ Waits(i)'
    BY <1>2, <1>4, <2>1 DEF ServerOK, HandlersInv, OwnStatement, Waits, Awaited
  <2>3. OneEach'
    BY <1>2 DEF ServerOK, HandlersInv, OneEach, Awaited
  <2>4. \A s \in Requests : Admitted(s)'
    <3>1. \A s \in Requests : req[s] # NULL => req[s].after \subseteq Requests
      BY DEF ServerOK, TypeInv, TypeOK, RequestsOK, Inputs
    <3>2. req[r] # NULL
      BY <1>1 DEF Sent
    <3>3. QED
      BY <1>2, <1>4, <3>1, <3>2 DEF ServerOK, HandlersInv, Admitted
  <2>5. QED
    BY <2>2, <2>3, <2>4 DEF HandlersInv
<1>10. ToolOK' /\ ToolMemory'
  BY <1>1, <1>2, <1>6, <1>7 DEF ValidationInv, ToolOK, ToolMemory, Ledgers
<1>11. Separate'
  BY <1>2, <1>6 DEF ValidationInv, Separate
<1>12. QED
  BY <1>2, <1>8, <1>9, <1>10, <1>11 DEF ValidationInv, ServerOK

\* What a callback of the server issues is its request's own.
LEMMA ServeQueue ==
    ASSUME TypeInv, HandlersInv, NEW r \in Requests, Serve(r)
    PROVE  /\ req' = req
           /\ \A i \in 1..Len(queue') :
                 \/ \E k \in 1..Len(queue) : queue'[i] = queue[k]
                 \/ queue'[i].req = r
<1>1. PICK stmt : Succeeds(r, stmt) \/ Fails(r, stmt)
  BY CallbackStatement DEF Serve
<1>2. /\ queue # <<>> /\ req' = req /\ Turn(r) /\ queue \in Seq(Queries)
  <2>1. Turn(r)
    BY CallbackTurn DEF Serve
  <2>2. QED
    BY <1>1, <2>1, StatementType DEF TypeInv, TypeOK, MemoryOK
<1>3. PICK qs \in Seq(Queries) : Issue(qs) /\ \A j \in 1..Len(qs) : qs[j].req = r
  <2>1. CASE AnswersClient(r)
    <3>1. <<>> \in Seq(Queries) /\ 1..Len(<<>>) = {}
      BY EmptySeq
    <3>2. QED
      BY <2>1, <3>1 DEF AnswersClient
  <2>2. CASE GoesOn(r)
    <3>1. PICK qs : IssuesOwn(r, qs)
      BY <2>2 DEF GoesOn
    <3>2. QED
      BY <3>1 DEF IssuesOwn
  <2>3. QED
    BY <1>2, <2>1, <2>2 DEF Turn
<1>4. \A i \in 1..Len(queue') :
          \/ \E k \in 1..Len(queue) : queue'[i] = queue[k]
          \/ \E j \in 1..Len(qs) : queue'[i] = qs[j]
  BY <1>2, <1>3, IssueElements
<1>5. QED
  BY <1>2, <1>3, <1>4

\* What reaches the server reaches its queue.
LEMMA ArriveQueue ==
    ASSUME TypeInv, NEW r \in Requests, Arrive(r)
    PROVE  /\ req[r] = NULL /\ UNCHANGED <<db, reply, faults, lifecycle>>
           /\ \A s \in Requests : s # r => req'[s] = req[s]
           /\ \A i \in 1..Len(queue') :
                 (i \in 1..Len(queue) /\ queue'[i] = queue[i]) \/ queue'[i].req = r
<1>1. PICK input \in Inputs, q \in Queries :
          Arrives(r, input, <<q>>) /\ FirstStatement(r, input, q)
  BY ArriveShape
<1>2. /\ UNCHANGED <<db, reply, faults, lifecycle>> /\ req[r] = NULL
      /\ req' = [req EXCEPT ![r] = input] /\ queue' = queue \o <<q>>
  BY <1>1 DEF Arrives
<1>3. /\ queue \in Seq(Queries) /\ req \in [Requests -> Inputs \cup {NULL}]
  BY DEF TypeInv, TypeOK, MemoryOK, RequestsOK
<1>4. \A s \in Requests : s # r => req'[s] = req[s]
  BY <1>2, <1>3
<1>5. \A i \in 1..Len(queue') : (i \in 1..Len(queue) /\ queue'[i] = queue[i]) \/ queue'[i] = q
  BY <1>2, <1>3, ArrivesElements
<1>6. QED
  BY <1>1, <1>2, <1>4, <1>5 DEF FirstStatement

LEMMA ServerStepKeeps ==
    ASSUME ValidationInv, ServerStep
    PROVE  ServerOK /\ ValidationInv'
<1>1. PICK r \in Clients : (Arrive(r) /\ req'[r].user \notin ValidationUsers) \/ Serve(r)
  BY DEF ServerStep
<1>2. ServerOK
  BY DEF ServerStep, ValidationInv, ServerGone
<1>3. UNCHANGED <<tool_chain, tool_queue, tool>>
  BY DEF ServerStep, toolVars
<1>4. r \in Requests /\ r \notin ValidationVotes /\ ValidationVotes \subseteq Requests
      /\ Clients \subseteq Requests
  BY ValidationAssumption DEF Clients
<1>5. ServerOK'
  <2>1. CASE Arrive(r)
    BY <1>2, <1>4, <2>1, ArriveType, ArriveHandlers, ArriveQueue DEF ServerOK, lifecycle
  <2>2. CASE Serve(r)
    BY <1>2, <1>4, <2>2, ServeType, ServeHandlers DEF ServerOK, Serve, lifecycle
  <2>3. QED
    BY <1>1, <2>1, <2>2
<1>6. ToolOK' /\ ToolMemory'
  BY <1>3 DEF ValidationInv, ToolOK, ToolMemory
<1>7. /\ \A s \in Requests : s # r => req'[s] = req[s]
      /\ req'[r] # NULL => req'[r].user \notin ValidationUsers
      /\ \A i \in 1..Len(queue') :
            (\E k \in 1..Len(queue) : queue'[i] = queue[k]) \/ queue'[i].req = r
  <2>1. CASE Arrive(r) /\ req'[r].user \notin ValidationUsers
    BY <1>2, <1>4, <2>1, ArriveQueue DEF ServerOK
  <2>2. CASE Serve(r)
    BY <1>1, <1>2, <1>4, <2>2, ServeQueue DEF ServerOK, ValidationInv, Separate
  <2>3. QED
    BY <1>1, <2>1, <2>2
<1>8. Separate'
  BY <1>1, <1>3, <1>4, <1>7 DEF ValidationInv, Separate, OwnCall, Sent, Clients
<1>9. QED
  BY <1>2, <1>5, <1>6, <1>8 DEF ValidationInv

\* Once the tool has deleted the settings row nothing is left to happen.
LEMMA NothingAfter ==
    ASSUME ValidationInv, ServerGone
    PROVE  ~ValidationNext
<1> SUFFICES ASSUME ValidationNext PROVE FALSE
  OBVIOUS
<1>1. tool.pc = "done" /\ tool_queue = <<>> /\ ~ServerStep
  BY DEF ServerGone, ServerStep, ValidationInv, ToolMemory
<1>2. ~ToolVotes
  BY <1>1, ToolVotesTurn DEF ToolVoteTurn
<1>3. ~ToolFails
  BY <1>1, OnErrorExits DEF ToolFails
<1>4. ~Prepare /\ ~ReadSetting /\ ~EnsureElectionOpen /\ ~CreateValidationUser
  BY <1>1 DEF Prepare, LoadChain, ReadMax, ReadSetting, EnsureElectionOpen, CreateValidationUser,
     At
<1>5. ~ChooseCandidate /\ ~RunScenarios /\ ~CastNextVote
  BY <1>1 DEF ChooseCandidate, RunScenarios, CastNextVote, At
<1>6. ~CleanUp
  BY <1>1 DEF CleanUp, PostMax, DeleteBlocksAfter, DeleteValidationUsers,
     RestoreElectionSetting, At
<1>7. QED
  BY <1>1, <1>2, <1>3, <1>4, <1>5, <1>6 DEF ValidationNext, ToolStep

LEMMA StartValidation == ValidationInit => ValidationInv
<1> SUFFICES ASSUME ValidationInit PROVE ValidationInv
  OBVIOUS
<1>1. TypeInv /\ HandlersInv /\ up
  <2>1. InitWith(Users \ ValidationUsers) /\ Users \ ValidationUsers \in SUBSET Users
    BY DEF ValidationInit
  <2>2. up
    BY <2>1 DEF InitWith
  <2>3. QED
    BY <2>1, <2>2, StartType, StartHandlers
<1>2. /\ 1..Len(<<>>) = {} /\ <<>> \in Seq(Queries) /\ <<>> \in Seq(Blocks)
  BY EmptySeq
<1>3. /\ tool_queue = <<>> /\ queue = <<>> /\ req = [r \in Requests |-> NULL]
      /\ tool_chain = [l \in Ledgers |-> <<>>]
  BY DEF ValidationInit, InitWith, ToolInit
<1>4. ToolOK /\ tool.pc = "load vote"
  BY DEF ValidationInit, ToolInit, ToolOK
<1>5. ToolMemory
  BY <1>2, <1>3, <1>4 DEF ToolMemory
<1>6. Separate
  BY <1>2, <1>3, ValidationAssumption DEF Separate, Clients
<1>7. QED
  BY <1>1, <1>4, <1>5, <1>6 DEF ValidationInv, ServerOK

LEMMA NextValidation ==
    ASSUME "castVote" \in Operations, ValidationInv, [ValidationNext]_validationVars
    PROVE  ValidationInv'
<1>1. CASE UNCHANGED validationVars
  <2>1. /\ UNCHANGED <<users, votes, settings, blocks, audit_logs, chain, queue, req, reply>>
        /\ UNCHANGED <<faults, up, crashes, tool_chain, tool_queue, tool>>
    BY <1>1 DEF validationVars, vars, shared, memory, db, toolVars
  <2>2. ToolOK' /\ ToolMemory' /\ Separate' /\ (ServerGone => ServerGone')
    BY <2>1 DEF ValidationInv, ToolOK, ToolMemory, Separate, OwnCall, Sent, ServerGone
  <2>3. ServerOK => ServerOK'
    <3>1. TypeInv => TypeInv'
      BY <2>1 DEF TypeInv, TypeOK, TablesOK, MemoryOK, RequestsOK, LifecycleOK, QueueOK,
         Underway, ChainsLoaded
    <3>2. HandlersInv => HandlersInv'
      BY <2>1 DEF HandlersInv, OneEach, OwnStatement, Waits, Awaited, Admitted
    <3>3. QED
      BY <2>1, <3>1, <3>2 DEF ServerOK
  <2>4. QED
    BY <2>2, <2>3 DEF ValidationInv
<1>2. CASE ValidationNext
  <2>1. ServerOK
    BY <1>2, NothingAfter DEF ValidationInv
  <2>2. CASE ServerStep
    BY <2>2, ServerStepKeeps
  <2>3. CASE CastNextVote
    BY <2>3, NextVoteKeeps
  <2>4. CASE ToolVotes
    BY <2>4, ToolVotesTurn, ToolVoteKeeps DEF ToolVotes
  <2>5. QED
    BY <1>2, <2>1, <2>2, <2>3, <2>4, OwnStepsKeep DEF ValidationNext, ToolStep
<1>3. QED
  BY <1>1, <1>2

(***************************************************************************)
(* A voter's vote and flag outlive the tool, which deletes rows of its own *)
(* users only.                                                             *)
(***************************************************************************)
Voters == Users \ ValidationUsers

\* What has been achieved before the server's castVote issues a statement.
VoterStages ==
    \A i \in 1..Len(queue) :
        Sent(queue[i].req, "castVote")
            => Staged(queue[i], StoredVotes, MarkedVotes, MarkedVotes)

VotersInv ==
    /\ Voters \subseteq DOMAIN users
    /\ VotesOwn
    /\ VoterStages
    /\ \A r \in Clients : Done(r, "castVote") => r \in MarkedVotes

\* No vote and no flag of a voter is taken back.
VotersKept ==
    /\ Voters \subseteq DOMAIN users'
    /\ \A u \in Voters : users[u].sudah_vote => users'[u].sudah_vote
    /\ \A v \in votes : v.user \in Voters => v \in votes'

\* The request of a vote of the server's.
LEMMA ClientVote ==
    ASSUME ValidationInv, ServerOK, VotesOwn, NEW r \in Clients, r \in StoredVotes
    PROVE  /\ req[r] # NULL /\ req[r].user \in Voters
           /\ \E v \in votes : v.req = r /\ v.user = req[r].user
<1>1. PICK v \in votes : v.req = r
  BY DEF StoredVotes, Stored
<1>2. v.user \in Users
  BY DEF ServerOK, TypeInv, TypeOK, TablesOK
<1>3. QED
  BY <1>1, <1>2 DEF VotesOwn, Sent, ValidationInv, Separate, Voters

LEMMA VotersAdvance ==
    ASSUME ValidationInv, ServerOK, VotesOwn, VotersKept, NEW r \in Clients,
           req[r] # NULL => req'[r] = req[r]
    PROVE  /\ r \in StoredVotes => r \in StoredVotes'
           /\ r \in MarkedVotes => r \in MarkedVotes'
<1>1. ASSUME r \in StoredVotes PROVE r \in StoredVotes' /\ req'[r] = req[r]
                                     /\ req[r].user \in Voters
  BY <1>1, ClientVote DEF StoredVotes, Stored, VotersKept
<1>2. QED
  BY <1>1 DEF MarkedVotes, VotersKept

\* A statement that deletes nothing, of either process.
LEMMA PerformKeepsVoters ==
    ASSUME TablesOK, VotesOwn, Voters \subseteq DOMAIN users, req' = req,
           NEW q, RemovesNothing(q), Perform(q),
           q.stmt = "INSERT votes" => Sent(q.req, "castVote")
    PROVE  VotersKept /\ VotesOwn'
<1>1. DOMAIN users' = DOMAIN users
  BY PerformVotes DEF RemovesNothing
<1>2. \A u \in Voters : users[u].sudah_vote => users'[u].sudah_vote
  <2>1. \A u \in Voters : FlagEffect(q, u)
    BY <1>1, PerformFlags DEF Sent
  <2>2. QED
    BY <2>1 DEF FlagEffect, WritesFlag, RemovesNothing
<1> DEFINE w == [req |-> q.req, user |-> req[q.req].user, candidate |-> req[q.req].candidate]
<1>3. w.req = q.req /\ w.user = req[q.req].user /\ w.candidate = req[q.req].candidate
  OBVIOUS
<1>4. q.stmt # "INSERT votes" => votes' = votes
  BY PerformVotes DEF RemovesNothing
<1>5. q.stmt = "INSERT votes" => votes' = votes \cup {w}
  BY PerformVotes
<1> HIDE DEF w
<1>6. votes \subseteq votes'
  BY <1>4, <1>5
<1>7. VotesOwn'
  <2>1. CASE q.stmt # "INSERT votes"
    BY <1>4, <2>1 DEF VotesOwn, Sent
  <2>2. CASE q.stmt = "INSERT votes"
    BY <1>3, <1>5, <2>2 DEF VotesOwn, Sent
  <2>3. QED
    BY <2>1, <2>2
<1>8. QED
  BY <1>1, <1>2, <1>6, <1>7 DEF VotersKept

\* A step that the server takes no part in.
LEMMA VotersStay ==
    ASSUME ValidationInv, ServerOK, VotersInv, VotersKept, VotesOwn',
           queue' = queue, \A r \in Clients : req'[r] = req[r] /\ reply'[r] = reply[r]
    PROVE  VotersInv'
<1>1. \A r \in Clients : /\ r \in StoredVotes => r \in StoredVotes'
                         /\ r \in MarkedVotes => r \in MarkedVotes'
  BY VotersAdvance DEF VotersInv
<1>2. VoterStages'
  <2>1. ASSUME NEW i \in 1..Len(queue), Sent(queue[i].req, "castVote")'
        PROVE  Staged(queue[i], StoredVotes', MarkedVotes', MarkedVotes')
    <3>1. queue[i].req \in Clients /\ queue'[i] = queue[i]
      BY DEF ValidationInv, Separate
    <3>2. Staged(queue[i], StoredVotes, MarkedVotes, MarkedVotes)
      BY <2>1, <3>1 DEF VotersInv, VoterStages, Sent
    <3>3. QED
      BY <1>1, <3>1, <3>2 DEF Staged
  <2>2. QED
    BY <2>1 DEF VoterStages
<1>3. \A r \in Clients : Done(r, "castVote")' => r \in MarkedVotes'
  BY <1>1 DEF VotersInv, Done, Sent
<1>4. QED
  BY <1>2, <1>3 DEF VotersInv, VotersKept

\* The tables after a step of the tool's own.
LEMMA OwnKeepsVoters ==
    ASSUME ValidationInv, ServerOK, VotersInv, req' = req,
           \/ Prepare \/ ReadSetting \/ EnsureElectionOpen \/ CreateValidationUser
           \/ ChooseCandidate \/ RunScenarios \/ CleanUp \/ ToolFails
    PROVE  VotersKept /\ VotesOwn'
<1>1. Voters \subseteq DOMAIN users /\ VotesOwn /\ tool.users \subseteq ValidationUsers
  BY DEF VotersInv, ValidationInv, ToolOK
<1>2. CASE votes' = votes /\ users' = users
  BY <1>1, <1>2 DEF VotersKept, VotesOwn, Sent
<1>3. CASE CreateValidationUser
  <2>1. PICK u \in ValidationUsers \ DOMAIN users : users' = WithFresh(users, {u})
    BY <1>3 DEF CreateValidationUser
  <2>2. \A v \in Voters : v \in DOMAIN users' /\ users'[v] = users[v]
    BY <1>1, <2>1 DEF WithFresh, Voters
  <2>3. votes' = votes
    BY <1>3 DEF CreateValidationUser
  <2>4. QED
    BY <1>1, <2>2, <2>3 DEF VotersKept, VotesOwn, Sent
<1>4. CASE DeleteValidationUsers
  <2>1. \A v \in Voters : v \in DOMAIN users' /\ users'[v] = users[v]
    BY <1>1, <1>4 DEF DeleteValidationUsers, Voters
  <2>2. votes' \subseteq votes /\ \A v \in votes : v.user \in Voters => v \in votes'
    BY <1>1, <1>4 DEF DeleteValidationUsers, OwnVotes, Voters
  <2>3. QED
    BY <1>1, <2>1, <2>2 DEF VotersKept, VotesOwn, Sent
<1>5. QED
  BY <1>2, <1>3, <1>4
     DEF Prepare, LoadChain, ReadMax, ReadSetting, EnsureElectionOpen, ChooseCandidate,
     RunScenarios, CleanUp, PostMax, DeleteBlocksAfter, RestoreElectionSetting, ToolFails, db

LEMMA NextVoteVoters ==
    ASSUME ValidationInv, ServerOK, VotersInv, CastNextVote
    PROVE  VotersInv'
<1>1. PICK r \in ValidationVotes :
          /\ req[r] = NULL
          /\ \E input : req' = [req EXCEPT ![r] = input]
  BY DEF CastNextVote
<1>2. UNCHANGED <<users, votes, queue, reply>>
  BY DEF CastNextVote, memory, db
<1>3. req \in [Requests -> Inputs \cup {NULL}] /\ r \in Requests
  BY <1>1, ValidationAssumption DEF ServerOK, TypeInv, TypeOK, RequestsOK
<1>4. \A s \in Requests : s # r => req'[s] = req[s]
  BY <1>1, <1>3
<1>5. \A s \in Clients : req'[s] = req[s]
  BY <1>1, <1>4 DEF Clients
<1>6. VotesOwn'
  <2>1. \A v \in votes : v.req \in Requests /\ v.req # r
    BY <1>1 DEF VotersInv, VotesOwn, Sent, ServerOK, TypeInv, TypeOK, TablesOK
  <2>2. QED
    BY <1>2, <1>4, <2>1 DEF VotersInv, VotesOwn, Sent
<1>7. VotersKept
  BY <1>2 DEF VotersInv, VotersKept
<1>8. QED
  BY <1>2, <1>5, <1>6, <1>7, VotersStay

LEMMA ToolVotesVoters ==
    ASSUME ValidationInv, ServerOK, VotersInv, ToolVotes
    PROVE  VotersInv'
<1> DEFINE q == Head(tool_queue)
<1>1. ToolVoteTurn /\ tool_queue # <<>>
  BY ToolVotesTurn DEF ToolVoteTurn
<1>2. /\ OwnCall(q) /\ q \in Queries /\ q.req \in ValidationVotes /\ Sent(q.req, "castVote")
      /\ queue' = queue /\ req' = req
  BY <1>1, ToolHead DEF OwnCall, ToolVotes, memory, ToolVoteTurn
<1>3. RemovesNothing(q)
  BY <1>2 DEF OwnCall, RemovesNothing, CastStatements, Checks, InsertBlockStmt
<1>4. VotersKept /\ VotesOwn'
  <2>1. TablesOK /\ VotesOwn /\ Voters \subseteq DOMAIN users
    BY DEF ServerOK, TypeInv, TypeOK, VotersInv
  <2>2. CASE UNCHANGED db
    BY <1>2, <2>1, <2>2 DEF db, VotersKept, VotesOwn, Sent
  <2>3. CASE Perform(q)
    <3> HIDE DEF q
    <3>1. QED
      BY <1>2, <1>3, <2>1, <2>3, PerformKeepsVoters
  <2>4. QED
    BY <1>1, <2>2, <2>3 DEF ToolVoteTurn
<1>5. \A s \in Clients : reply'[s] = reply[s]
  <2>1. reply \in [Requests -> Replies \cup {NULL}]
    BY DEF ServerOK, TypeInv, TypeOK, RequestsOK
  <2>2. reply' = reply \/ \E message \in Replies : reply' = [reply EXCEPT ![q.req] = message]
    BY <1>1 DEF ToolVoteTurn, ToolTurn, ToolAnswers, ToolProceeds, ToolAdds
  <2>3. \A s \in Clients : s \in Requests /\ s # q.req
    BY <1>2 DEF Clients
  <2>4. QED
    BY <2>1, <2>2, <2>3
<1>6. QED
  BY <1>2, <1>4, <1>5, VotersStay

\* What the server's castVote achieves, beside the tool.
LEMMA VotersAchieve ==
    ASSUME NothingUndone, ValidationInv, ServerOK, VotersInv, queue # <<>>,
           Perform(Head(queue)), req' = req, Sent(Head(queue).req, "castVote")
    PROVE  /\ Head(queue).stmt = "INSERT votes" => Head(queue).req \in StoredVotes'
           /\ Head(queue).stmt = "SET sudah_vote" => Head(queue).req \in MarkedVotes'
           /\ Head(queue).stmt = InsertBlockStmt(VoteLedger) => Head(queue).req \in MarkedVotes'
<1> DEFINE q == Head(queue)
           r == q.req
<1>1. TypeInv /\ HandlersInv
  BY DEF ServerOK
<1>2. /\ q.req \in Requests /\ RemovesNothing(q) /\ Own(req[q.req], q)
      /\ 1 \in 1..Len(queue) /\ q = queue[1]
  BY <1>1, HeadUndoesNothing, HeadUnderway, HeadOwn DEF OwnStatement
<1>3. /\ q.req \in Clients /\ req[q.req].op = "castVote" /\ req[q.req].user \in Voters
      /\ Staged(q, StoredVotes, MarkedVotes, MarkedVotes)
  <2>1. q.req \in Clients /\ req[q.req] # NULL /\ req[q.req].op = "castVote"
    BY <1>2 DEF ValidationInv, Separate, Sent
  <2>2. req[q.req].user \in Users
    BY <1>1, <1>2, <2>1 DEF HandlersInv, Admitted
  <2>3. QED
    BY <1>2, <2>1, <2>2 DEF ValidationInv, Separate, Voters, VotersInv, VoterStages
<1> HIDE DEF q
<1>4. TablesOK /\ VotersKept
  <2>1. TablesOK /\ VotesOwn /\ Voters \subseteq DOMAIN users /\ Perform(q)
    BY <1>1 DEF TypeInv, TypeOK, VotersInv, q
  <2>2. Sent(q.req, "castVote")
    BY DEF q
  <2>3. QED
    BY <1>2, <2>1, <2>2, PerformKeepsVoters
<1>5. /\ r \in StoredVotes => r \in StoredVotes'
      /\ r \in MarkedVotes => r \in MarkedVotes'
  BY <1>3, <1>4, VotersAdvance DEF VotersInv
<1> HIDE DEF r
<1>6. ASSUME q.stmt = "INSERT votes" PROVE r \in StoredVotes'
  <2> DEFINE v == [req |-> q.req, user |-> req[q.req].user, candidate |-> req[q.req].candidate]
  <2>1. v.req = r
    BY DEF r
  <2>2. votes' = votes \cup {v}
    BY <1>6, PerformVotes DEF q
  <2> HIDE DEF v
  <2>3. QED
    BY <1>2, <2>1, <2>2 DEF StoredVotes, Stored, r
<1>7. ASSUME q.stmt = "SET sudah_vote" PROVE r \in MarkedVotes'
  <2>1. r \in StoredVotes'
    BY <1>3, <1>5, <1>7 DEF Staged, r
  <2>2. FlagEffect(q, req[r].user)
    <3>1. req[r].user \in DOMAIN users' /\ q.stmt # "INSERT votes" /\ Perform(q)
      BY <1>3, <1>4, <1>7 DEF VotersKept, r, q
    <3>2. QED
      BY <1>4, <3>1, PerformFlags
  <2>3. WritesFlag(q, req[r].user)
    BY <1>3, <1>7 DEF WritesFlag, Scope, r
  <2>4. users'[req[r].user].sudah_vote
    BY <1>7, <2>2, <2>3 DEF FlagEffect
  <2>5. QED
    BY <2>1, <2>4 DEF MarkedVotes
<1>8. ASSUME q.stmt = InsertBlockStmt(VoteLedger) PROVE r \in MarkedVotes'
  BY <1>3, <1>5, <1>8 DEF Staged, r
<1>9. QED
  BY <1>6, <1>7, <1>8 DEF q, r

LEMMA IssuedVoterStages ==
    ASSUME NothingUndone, ValidationInv, ServerOK, VotersInv, VotersKept, queue # <<>>,
           req' = req, NEW r, r = Head(queue).req, Sent(r, "castVote"),
           NEW qs, IssuesOwn(r, qs),
           Perform(Head(queue)) \/ Head(queue).stmt = InsertBlockStmt(AuditLedger),
           NEW j \in 1..Len(qs)
    PROVE  Staged(qs[j], StoredVotes', MarkedVotes', MarkedVotes')
<1> DEFINE q == Head(queue)
<1>1. /\ q.stmt = "INSERT votes" /\ Perform(q) => r \in StoredVotes'
      /\ q.stmt = "SET sudah_vote" /\ Perform(q) => r \in MarkedVotes'
      /\ q.stmt = InsertBlockStmt(VoteLedger) /\ Perform(q) => r \in MarkedVotes'
  BY VotersAchieve
<1>2. /\ Own(req[r], q) /\ req[r].op = "castVote" /\ RemovesNothing(q)
      /\ 1 \in 1..Len(queue) /\ q = queue[1]
  BY HeadOwn, HeadUndoesNothing DEF Sent, OwnStatement, ServerOK
<1>3. /\ r \in Clients /\ Staged(q, StoredVotes, MarkedVotes, MarkedVotes)
      /\ r \in MarkedVotes => r \in MarkedVotes'
  <2>1. r \in Clients /\ Staged(q, StoredVotes, MarkedVotes, MarkedVotes)
    BY <1>2 DEF ValidationInv, Separate, VotersInv, VoterStages
  <2>2. QED
    BY <2>1, VotersAdvance DEF VotersInv
<1>4. /\ qs[j].req = r /\ Follows(q.stmt, qs[j].stmt)
      /\ Own(req[r], qs[j])
  BY DEF IssuesOwn, OwnStatement
<1>5. q.stmt \notin {"DELETE users", "SET is_open", "CLEAR is_open", "CLEAR sudah_vote",
                     "DELETE blockchain"}
  BY <1>2 DEF RemovesNothing, Own, MayIssue
<1>6. q.req = r
  OBVIOUS
<1>7. Perform(q) \/ q.stmt = InsertBlockStmt(AuditLedger)
  OBVIOUS
<1> HIDE DEF q
<1>8. CASE q.stmt = InsertBlockStmt(AuditLedger)
  <2>1. r \in MarkedVotes' /\ qs[j].stmt = "INSERT audit_logs"
    BY <1>3, <1>4, <1>6, <1>8 DEF Staged, Follows, InsertBlockStmt, VoteLedger, AuditLedger
  <2>2. QED
    BY <1>4, <2>1 DEF Staged, InsertBlockStmt, VoteLedger, AuditLedger
<1>9. CASE Perform(q) /\ q.stmt # InsertBlockStmt(AuditLedger)
  <2>1. /\ qs[j].stmt = "SET sudah_vote" => q.stmt = "INSERT votes"
        /\ qs[j].stmt = InsertBlockStmt(VoteLedger) => q.stmt = "SET sudah_vote"
        /\ qs[j].stmt = InsertBlockStmt(AuditLedger) => q.stmt = InsertBlockStmt(VoteLedger)
        /\ qs[j].stmt # "INSERT audit_logs"
    BY <1>4, <1>5, <1>9 DEF Follows, InsertBlockStmt, VoteLedger, AuditLedger
  <2>2. QED
    BY <1>1, <1>4, <1>9, <2>1 DEF Staged
<1>10. QED
  BY <1>7, <1>8, <1>9

LEMMA ServeVoters ==
    ASSUME NothingUndone, ValidationInv, ServerOK, VotersInv, NEW r \in Clients, Serve(r)
    PROVE  VotersInv'
<1>1. TypeInv /\ HandlersInv /\ r \in Requests
  BY DEF ServerOK, Clients
<1>2. PICK stmt : Succeeds(r, stmt) \/ Fails(r, stmt)
  BY CallbackStatement DEF Serve
<1>3. /\ queue # <<>> /\ r = Head(queue).req /\ req' = req /\ Moves /\ Turn(r)
      /\ queue \in Seq(Queries) /\ 1 \in 1..Len(queue) /\ Head(queue) = queue[1]
  <2>1. Turn(r)
    BY <1>1, CallbackTurn DEF Serve
  <2>2. QED
    BY <1>1, <1>2, <2>1, StatementType, HeadOwn DEF Succeeds, Fails, Moves
<1>4. VotersKept /\ VotesOwn'
  <2>1. VotesOwn'
    BY <1>1, <1>3, MoveVotesOwn DEF VotersInv
  <2>2. TablesGrow
    BY <1>1, <1>3, MovesGrow
  <2>3. QED
    BY <2>1, <2>2 DEF TablesGrow, VotersKept, VotersInv
<1>5. \A x \in Clients : /\ x \in StoredVotes => x \in StoredVotes'
                         /\ x \in MarkedVotes => x \in MarkedVotes'
  BY <1>3, <1>4, VotersAdvance DEF VotersInv
<1>6. \E qs \in Seq(Queries) :
          /\ Issue(qs)
          /\ \A j \in 1..Len(qs) :
                /\ qs[j].req = r
                /\ Sent(r, "castVote") => Staged(qs[j], StoredVotes', MarkedVotes', MarkedVotes')
  <2>1. CASE AnswersClient(r)
    <3>1. <<>> \in Seq(Queries) /\ 1..Len(<<>>) = {}
      BY EmptySeq
    <3>2. QED
      BY <2>1, <3>1 DEF AnswersClient
  <2>2. CASE GoesOn(r)
    <3>1. PICK qs : /\ IssuesOwn(r, qs)
                    /\ \/ Perform(Head(queue))
                       \/ Head(queue).stmt = InsertBlockStmt(AuditLedger)
      BY <2>2 DEF GoesOn, Succeeds
    <3>2. \A j \in 1..Len(qs) :
              Sent(r, "castVote") => Staged(qs[j], StoredVotes', MarkedVotes', MarkedVotes')
      BY <1>3, <1>4, <3>1, IssuedVoterStages
    <3>3. QED
      BY <3>1, <3>2 DEF IssuesOwn
  <2>3. QED
    BY <1>3, <2>1, <2>2 DEF Turn
<1>7. PICK qs \in Seq(Queries) :
          /\ Issue(qs)
          /\ \A j \in 1..Len(qs) :
                /\ qs[j].req = r
                /\ Sent(r, "castVote") => Staged(qs[j], StoredVotes', MarkedVotes', MarkedVotes')
  BY <1>6
<1>8. ASSUME NEW i \in 1..Len(queue'), Sent(queue[i].req, "castVote")'
      PROVE  Staged(queue'[i], StoredVotes', MarkedVotes', MarkedVotes')
  <2>1. \/ \E k \in 1..Len(queue) : queue'[i] = queue[k]
        \/ \E j \in 1..Len(qs) : queue'[i] = qs[j]
    BY <1>3, <1>7, IssueElements
  <2>2. Sent(queue'[i].req, "castVote")
    BY <1>3, <1>8 DEF Sent
  <2>3. CASE \E k \in 1..Len(queue) : queue'[i] = queue[k]
    <3>1. /\ Staged(queue'[i], StoredVotes, MarkedVotes, MarkedVotes)
          /\ queue'[i].req \in Clients
      BY <2>2, <2>3 DEF VotersInv, VoterStages, ValidationInv, Separate
    <3>2. QED
      BY <1>5, <3>1 DEF Staged
  <2>4. CASE \E j \in 1..Len(qs) : queue'[i] = qs[j]
    BY <1>7, <2>2, <2>4
  <2>5. QED
    BY <2>1, <2>3, <2>4
<1>9. \A x \in Clients : Done(x, "castVote")' => x \in MarkedVotes
  <2>1. CASE GoesOn(r)
    BY <1>3, <2>1 DEF GoesOn, Done, Sent, VotersInv
  <2>2. CASE AnswersClient(r)
    <3>1. PICK message \in Replies :
              /\ message = "ok" => Head(queue).stmt = "INSERT audit_logs"
              /\ reply' = [reply EXCEPT ![r] = message]
      BY <2>2 DEF AnswersClient
    <3>2. /\ reply'[r] = message
          /\ \A x \in Requests : x # r => reply'[x] = reply[x]
      BY <1>1, <3>1 DEF TypeInv, TypeOK, RequestsOK
    <3>3. message = "ok" /\ Sent(r, "castVote") => r \in MarkedVotes
      BY <1>3, <3>1 DEF VotersInv, VoterStages, Staged
    <3>4. QED
      BY <1>3, <3>1, <3>2, <3>3 DEF Done, Sent, VotersInv, Clients
  <2>3. QED
    BY <1>3, <2>1, <2>2 DEF Turn
<1>10. VoterStages'
  BY <1>8 DEF VoterStages
<1>11. \A x \in Clients : Done(x, "castVote")' => x \in MarkedVotes'
  BY <1>5, <1>9
<1>12. QED
  BY <1>4, <1>10, <1>11 DEF VotersInv, VotersKept

LEMMA ArriveVoters ==
    ASSUME ValidationInv, ServerOK, VotersInv, NEW r \in Clients, Arrive(r)
    PROVE  VotersInv'
<1>1. TypeInv /\ HandlersInv /\ r \in Requests
  BY DEF ServerOK, Clients
<1>2. PICK input \in Inputs, q \in Queries :
          Arrives(r, input, <<q>>) /\ FirstStatement(r, input, q)
  BY <1>1, ArriveShape
<1>3. /\ UNCHANGED <<users, votes, reply>> /\ req[r] = NULL
      /\ req' = [req EXCEPT ![r] = input] /\ queue' = queue \o <<q>>
  BY <1>2 DEF Arrives, db
<1>4. /\ queue \in Seq(Queries) /\ req \in [Requests -> Inputs \cup {NULL}]
      /\ VotesOwn /\ VotersKept
  BY <1>1, <1>3 DEF TypeInv, TypeOK, MemoryOK, RequestsOK, VotersInv, VotersKept
<1>5. req'[r] = input /\ \A s \in Requests : s # r => req'[s] = req[s]
  BY <1>1, <1>3, <1>4
<1>6. \A x \in Clients : /\ x \in StoredVotes => x \in StoredVotes'
                         /\ x \in MarkedVotes => x \in MarkedVotes'
  <2>1. \A x \in Clients : req[x] # NULL => req'[x] = req[x]
    BY <1>3, <1>5 DEF Clients
  <2>2. QED
    BY <1>4, <2>1, VotersAdvance
<1>7. VotesOwn'
  <2>1. \A v \in votes : v.req \in Requests /\ v.req # r
    BY <1>1, <1>3, <1>4 DEF VotesOwn, Sent, TypeInv, TypeOK, TablesOK
  <2>2. QED
    BY <1>3, <1>4, <1>5, <2>1 DEF VotesOwn, Sent
<1>8. \A i \in 1..Len(queue') :
          \/ /\ i \in 1..Len(queue) /\ queue'[i] = queue[i]
             /\ queue[i].req \in Clients /\ queue[i].req # r
          \/ queue'[i] = q
  <2>1. \A i \in 1..Len(queue) : queue[i].req \in Clients /\ queue[i].req # r
    BY <1>1, <1>3, NullAssumption
       DEF TypeInv, QueueOK, Underway, Queries, ValidationInv, Separate
  <2>2. QED
    BY <1>3, <1>4, <2>1, ArrivesElements
<1>9. q.req = r /\ (input.op = "castVote" => q.stmt = "SELECT settings")
  BY <1>2 DEF FirstStatement
<1>10. VoterStages'
  <2>1. ASSUME NEW i \in 1..Len(queue'), Sent(queue[i].req, "castVote")'
        PROVE  Staged(queue'[i], StoredVotes', MarkedVotes', MarkedVotes')
    <3>1. CASE /\ i \in 1..Len(queue) /\ queue'[i] = queue[i]
               /\ queue[i].req \in Clients /\ queue[i].req # r
      <4>1. Sent(queue[i].req, "castVote")
        BY <1>5, <2>1, <3>1 DEF Sent, Clients
      <4>2. Staged(queue[i], StoredVotes, MarkedVotes, MarkedVotes)
        BY <3>1, <4>1 DEF VotersInv, VoterStages
      <4>3. QED
        BY <1>6, <3>1, <4>2 DEF Staged
    <3>2. CASE queue'[i] = q
      <4>1. q.stmt = "SELECT settings"
        BY <1>5, <1>9, <2>1, <3>2 DEF Sent
      <4>2. QED
        BY <3>2, <4>1 DEF Staged, InsertBlockStmt, VoteLedger, AuditLedger
    <3>3. QED
      BY <1>8, <3>1, <3>2
  <2>2. QED
    BY <2>1 DEF VoterStages
<1>11. \A x \in Clients : Done(x, "castVote")' => x \in MarkedVotes'
  <2>1. reply[r] # "ok"
    BY <1>1, <1>3, NullAssumption DEF HandlersInv, Admitted, Replies
  <2>2. \A x \in Clients : Done(x, "castVote")' => Done(x, "castVote")
    BY <1>3, <1>5, <2>1 DEF Done, Sent, Clients
  <2>3. QED
    BY <1>6, <2>2 DEF VotersInv
<1>12. QED
  BY <1>4, <1>7, <1>10, <1>11 DEF VotersInv, VotersKept

LEMMA StartVoters == ValidationInit => VotersInv
<1> SUFFICES ASSUME ValidationInit PROVE VotersInv
  OBVIOUS
<1>1. /\ queue = <<>> /\ req = [r \in Requests |-> NULL] /\ votes = {}
      /\ DOMAIN users = Voters
  BY DEF ValidationInit, InitWith, Voters
<1>2. 1..Len(<<>>) = {}
  BY EmptySeq
<1>3. QED
  BY <1>1, <1>2 DEF VotersInv, VotesOwn, VoterStages, Done, Sent, Clients

LEMMA NextVoters ==
    ASSUME NothingUndone, ValidationInv, VotersInv, [ValidationNext]_validationVars
    PROVE  VotersInv'
<1>1. CASE UNCHANGED validationVars
  BY <1>1 DEF validationVars, vars, shared, memory, db, VotersInv, VotesOwn, VoterStages,
     Staged, StoredVotes, MarkedVotes, Stored, Done, Sent
<1>2. CASE ValidationNext
  <2>1. ServerOK
    BY <1>2, NothingAfter DEF ValidationInv
  <2>2. CASE ServerStep
    BY <2>1, <2>2, ServeVoters, ArriveVoters DEF ServerStep
  <2>3. CASE CastNextVote
    BY <2>1, <2>3, NextVoteVoters
  <2>4. CASE ToolVotes
    BY <2>1, <2>4, ToolVotesVoters
  <2>5. CASE /\ \/ Prepare \/ ReadSetting \/ EnsureElectionOpen \/ CreateValidationUser
                \/ ChooseCandidate \/ RunScenarios \/ CleanUp \/ ToolFails
             /\ OwnOnly
    <3>1. UNCHANGED <<queue, req, reply>>
      BY <2>5 DEF OwnOnly, memory
    <3>2. VotersKept /\ VotesOwn'
      BY <2>1, <2>5, <3>1, OwnKeepsVoters
    <3>3. QED
      BY <2>1, <3>1, <3>2, VotersStay
  <2>6. QED
    BY <1>2, <2>2, <2>3, <2>4, <2>5 DEF ValidationNext, ToolStep
<1>3. QED
  BY <1>1, <1>2

\* While the server's administrator takes no vote back, whatever overlaps and
\* fails: a voter who was told that the vote is in keeps the vote and the flag
\* through a run of the integrity validation tool, also one whose clean-up
\* does not find what it looks for.
THEOREM ToolSparesVoters ==
    NothingUndone /\ "castVote" \in Operations /\ ValidationSpec => []VotersKeepTheirVotes
<1>1. VotersInv => VotersKeepTheirVotes
  BY DEF VotersInv, VotersKeepTheirVotes, MarkedVotes, StoredVotes
<1>2. NothingUndone /\ "castVote" \in Operations /\ ValidationInv /\ VotersInv
          /\ [ValidationNext]_validationVars
      => ValidationInv' /\ VotersInv'
  BY NextValidation, NextVoters
<1>3. NothingUndone => NothingUndone'
  BY DEF NothingUndone
<1>4. "castVote" \in Operations => ("castVote" \in Operations)'
  OBVIOUS
<1>5. QED
  BY <1>1, <1>2, <1>3, <1>4, StartValidation, StartVoters, PTL DEF ValidationSpec

(***************************************************************************)
(* The report is about the tool's copy of the vote ledger, which is whole  *)
(* when the tables were whole as the tool loaded it.                       *)
(***************************************************************************)
\* All blocks but the first record votes for candidates there are.
VoteRows(s) ==
    \A i \in 1..Len(s) :
        i # 1 => \E u \in Users, c \in Candidates : s[i].data = <<"vote", u, c>>

\* The outcome of the scenarios on a chain.
Right(report, s) ==
    /\ report.original
    /\ report.recovery
    /\ report.tampered <=> Len(s) > 1 /\ s[2].data[3] \notin 10..19

\* Another candidate is one, unless the candidate is a number from 10 to 19.
LEMMA OtherCandidate ==
    ASSUME NEW u, NEW c \in Nat
    PROVE  Tampered(<<"vote", u, c>>) = <<"vote", u, c>> <=> c \in 10..19
<1>1. (c % 10) + 10 = c <=> c \in 10..19
  OBVIOUS
<1>2. Tampered(<<"vote", u, c>>) = <<"vote", u, (c % 10) + 10>>
  BY DEF Tampered
<1> DEFINE other == (c % 10) + 10
<1> HIDE DEF other
<1>3. <<"vote", u, other>> = <<"vote", u, c>> <=> other = c
  OBVIOUS
<1>4. QED
  BY <1>1, <1>2, <1>3 DEF other

\* The copy of a chain has all that the chain has.
LEMMA CloneIsSame ==
    ASSUME NEW s \in Seq(Blocks)
    PROVE  CloneChain(s) = s
<1> DEFINE Copy(b) == [Block(b.index, b.timestamp, b.data, b.previousHash, b.signature,
                             b.publicKey)
                         EXCEPT !.hash = b.hash, !.merkleRoot = b.merkleRoot]
<1>1. ASSUME NEW b \in Blocks PROVE Copy(b) = b
  <2> DEFINE Whole(root, hash) ==
               [index |-> b.index, timestamp |-> b.timestamp, data |-> b.data,
                previousHash |-> b.previousHash, signature |-> b.signature,
                publicKey |-> b.publicKey, merkleRoot |-> root, hash |-> hash]
             root  == MerkleRoot(b.data)
             hash  == CalculateHash(Whole(root, <<>>))
             block == Block(b.index, b.timestamp, b.data, b.previousHash, b.signature, b.publicKey)
  <2>1. b = Whole(b.merkleRoot, b.hash)
    BY DEF Blocks
  <2>2. block = [Whole(root, <<>>) EXCEPT !.hash = hash]
    BY Zenon DEF Block
  <2> HIDE DEF root, hash, block
  <2>3. \A r, g, h : [Whole(r, g) EXCEPT !.hash = h] = Whole(r, h)
    OBVIOUS
  <2>4. \A r, g, q : [Whole(r, g) EXCEPT !.merkleRoot = q] = Whole(q, g)
    OBVIOUS
  <2>5. Copy(b) = [[block EXCEPT !.hash = b.hash] EXCEPT !.merkleRoot = b.merkleRoot]
    BY DEF block
  <2> HIDE DEF Whole, Copy
  <2>6. block = Whole(root, hash)
    BY <2>2, <2>3
  <2>7. [block EXCEPT !.hash = b.hash] = Whole(root, b.hash)
    BY <2>3, <2>6
  <2>8. [Whole(root, b.hash) EXCEPT !.merkleRoot = b.merkleRoot] = Whole(b.merkleRoot, b.hash)
    BY <2>4
  <2>9. Copy(b) = [Whole(root, b.hash) EXCEPT !.merkleRoot = b.merkleRoot]
    BY <2>5, <2>7
  <2>10. QED
    BY <2>1, <2>8, <2>9
<1>2. s = [i \in 1..Len(s) |-> s[i]] /\ DOMAIN s = 1..Len(s)
  OBVIOUS
<1>3. \A i \in 1..Len(s) : Copy(s[i]) = s[i]
  BY <1>1, ElementOfSeq
<1>4. CloneChain(s) = [i \in DOMAIN s |-> Copy(s[i])]
  BY DEF CloneChain
<1> HIDE DEF Copy
<1>5. QED
  BY <1>2, <1>3, <1>4

\* A chain with the data of one block replaced.
LEMMA Replaced ==
    ASSUME NEW S, NEW s \in Seq(S), Len(s) > 1, NEW data, NEW b \in S,
           b = [s[2] EXCEPT !.data = data]
    PROVE  /\ HackBlock(s, 1, data) \in Seq(S)
           /\ Len(HackBlock(s, 1, data)) = Len(s)
           /\ \A i \in 1..Len(s) : HackBlock(s, 1, data)[i] = IF i = 2 THEN b ELSE s[i]
<1>1. 2 \in 1..Len(s)
  OBVIOUS
<1>2. HackBlock(s, 1, data) = [s EXCEPT ![2] = b]
  BY DEF HackBlock
<1>3. /\ [s EXCEPT ![2] = b] \in Seq(S) /\ Len([s EXCEPT ![2] = b]) = Len(s)
      /\ \A i \in 1..Len(s) : [s EXCEPT ![2] = b][i] = IF i = 2 THEN b ELSE s[i]
  BY <1>1, ExceptSeq
<1>4. QED
  BY <1>2, <1>3

\* The tampered copy passes only if nothing has changed, the restored one is
\* the chain.
LEMMA TamperedCopy ==
    ASSUME NEW s \in Seq(Blocks), Len(s) > 1, Chained(s), Signed(s), NEW data
    PROVE  /\ IsChainValid(HackBlock(s, 1, data)) <=> data = s[2].data
           /\ HackBlock(HackBlock(s, 1, data), 1, s[2].data) = s
<1> DEFINE b == [s[2] EXCEPT !.data = data]
           S == Blocks \cup {b}
           hacked == HackBlock(s, 1, data)
           restored == HackBlock(hacked, 1, s[2].data)
<1>1. 2 \in 1..Len(s) /\ s[2] \in Blocks /\ 2 # 1
  BY ElementOfSeq
<1>2. s \in Seq(S) /\ b \in S /\ s[2] \in S
  BY <1>1
<1>3. b.data = data /\ b.merkleRoot = s[2].merkleRoot /\ [b EXCEPT !.data = s[2].data] = s[2]
      /\ (data = s[2].data => b = s[2])
  BY <1>1 DEF Blocks
<1>4. Minted(s[2])
  BY <1>1 DEF Signed
<1> HIDE DEF b, S
<1>5. /\ hacked \in Seq(S) /\ Len(hacked) = Len(s)
      /\ \A i \in 1..Len(s) : hacked[i] = IF i = 2 THEN b ELSE s[i]
  BY <1>2, Replaced DEF b
<1>6. hacked[2] = b /\ Len(hacked) > 1 /\ s[2] = [hacked[2] EXCEPT !.data = s[2].data]
  BY <1>1, <1>3, <1>5
<1> HIDE DEF hacked
<1>7. /\ restored \in Seq(S) /\ Len(restored) = Len(hacked)
      /\ \A i \in 1..Len(hacked) : restored[i] = IF i = 2 THEN s[2] ELSE hacked[i]
  BY <1>2, <1>5, <1>6, Replaced
<1> HIDE DEF restored
<1>8. restored = s
  BY <1>2, <1>5, <1>7, SeqEqual
<1>9. ASSUME IsChainValid(hacked) PROVE data = s[2].data
  <2>1. 2 \in 2..Len(hacked)
    BY <1>6
  <2>2. ValidLink(hacked[2 - 1], hacked[2])
    BY <1>9, <2>1 DEF IsChainValid
  <2>3. MerkleRoot(data) = s[2].merkleRoot
    BY <1>3, <1>6, <2>2 DEF ValidLink, VerifyMerkleRoot
  <2>4. MerkleRoot(s[2].data) = s[2].merkleRoot
    BY <1>4 DEF Minted, Sound
  <2>5. QED
    BY <2>3, <2>4, RootCovers
<1>10. ASSUME data = s[2].data PROVE IsChainValid(hacked)
  <2>1. hacked = s
    BY <1>2, <1>3, <1>5, <1>10, SeqEqual
  <2>2. QED
    BY <2>1, ValidChain
<1>11. QED
  BY <1>8, <1>9, <1>10 DEF hacked, restored

LEMMA ScenariosRight ==
    ASSUME NEW s \in Seq(Blocks), Recoverable(s), VoteRows(s)
    PROVE  Right(Scenarios(s), s)
<1> DEFINE target == IF Len(s) > 1 THEN 1 ELSE 0
           data   == s[target + 1].data
           hacked == HackBlock(s, target, IF target = 0 THEN NULL ELSE Tampered(data))
<1>1. /\ Scenarios(s).original <=> IsChainValid(s)
      /\ Scenarios(s).tampered <=> ~IsChainValid(hacked)
      /\ Scenarios(s).recovery <=> IsChainValid(HackBlock(hacked, target, data))
  BY CloneIsSame DEF Scenarios
<1>2. IsChainValid(s) /\ Chained(s) /\ Signed(s)
  BY ValidChain DEF Recoverable
<1>3. CASE Len(s) > 1
  <2>1. target = 1 /\ data = s[2].data /\ hacked = HackBlock(s, 1, Tampered(s[2].data))
    BY <1>3
  <2>2. PICK u \in Users, c \in Candidates : s[2].data = <<"vote", u, c>>
    BY <1>3 DEF VoteRows
  <2>3. c \in Nat /\ s[2].data[3] = c
    BY <2>2, ValidationAssumption
  <2>4. IsChainValid(hacked) <=> s[2].data[3] \in 10..19
    BY <1>2, <1>3, <2>1, <2>2, <2>3, TamperedCopy, OtherCandidate
  <2>5. HackBlock(hacked, target, data) = s
    BY <1>2, <1>3, <2>1, TamperedCopy
  <2> HIDE DEF hacked, target, data
  <2>6. QED
    BY <1>1, <1>2, <1>3, <2>4, <2>5 DEF Right
<1>4. CASE ~(Len(s) > 1)
  <2>1. target = 0 /\ hacked = s /\ HackBlock(hacked, target, data) = s
    BY <1>4 DEF HackBlock
  <2> HIDE DEF hacked, target, data
  <2>2. QED
    BY <1>1, <1>2, <1>4, <2>1 DEF Right
<1>5. QED
  BY <1>3, <1>4

(***************************************************************************)
(* The tables until the tool loads them: each table a valid chain, the     *)
(* votes of the vote ledger for candidates there are.                      *)
(***************************************************************************)
\* castVote stores no vote for a candidate that has no row.
Chosen(q) ==
    q.stmt \in {"SET sudah_vote", InsertBlockStmt(VoteLedger)} /\ Sent(q.req, "castVote")
        => req[q.req].candidate \in Candidates

TablesWhole ==
    /\ TablesInv
    /\ \A i \in 1..Len(queue) : Chosen(queue[i])
    /\ VoteRows(blocks[VoteLedger])

\* What the tool's pc is when the report has been written.
Reported == {"post", "delete vote blocks", "delete audit blocks", "delete votes",
             "delete users", "restore", "done"}

\* A vote ledger as the report takes it to be.
Faithful(s) == Recoverable(s) /\ VoteRows(s)

ReportInv ==
    /\ \A r \in ValidationVotes : req[r] # NULL => req[r].candidate \in Candidates
    /\ faults = 0 =>
          /\ tool.pc # "failed"
          /\ tool.pc = "load vote" => TablesWhole
          /\ tool.pc # "load vote" => Faithful(tool_chain[VoteLedger])
          /\ tool.pc \in Reported => Right(tool.report, tool_chain[VoteLedger])

LEMMA VoteAppended ==
    ASSUME NEW s \in Seq(Blocks), VoteRows(s), NEW b \in Blocks,
           \E u \in Users, c \in Candidates : b.data = <<"vote", u, c>>
    PROVE  VoteRows(Append(s, b))
<1> DEFINE new == Append(s, b)
<1>1. \A i \in 1..Len(new) : (i \in 1..Len(s) /\ new[i] = s[i]) \/ new[i] = b
  BY AppendedRow
<1> HIDE DEF new
<1>2. VoteRows(new)
  BY <1>1 DEF VoteRows
<1>3. QED
  BY <1>2 DEF new

\* What castVote goes on with has its candidate checked.
LEMMA IssuedChosen ==
    ASSUME NobodyResets, TypeInv, HandlersInv, queue # <<>>, req' = req,
           NEW r, r = Head(queue).req, Chosen(Head(queue)), NEW qs, IssuesOwn(r, qs),
           \/ Succeeds(r, Head(queue).stmt)
           \/ Head(queue).stmt = InsertBlockStmt(AuditLedger),
           NEW j \in 1..Len(qs)
    PROVE  Chosen(qs[j])'
<1> DEFINE q == Head(queue)
<1>1. qs[j].req = r /\ Follows(q.stmt, qs[j].stmt) /\ q.stmt # "DELETE blockchain"
  BY NoReset DEF IssuesOwn
<1>2. /\ Succeeds(r, q.stmt) /\ q.stmt = "INSERT votes" => req[r].candidate \in Candidates
      /\ q.stmt = "SET sudah_vote" /\ Sent(r, "castVote") => req[r].candidate \in Candidates
  BY DEF Succeeds, Rejected, Chosen
<1>3. Succeeds(r, q.stmt) \/ q.stmt = InsertBlockStmt(AuditLedger)
  OBVIOUS
<1> HIDE DEF q
<1>4. /\ qs[j].stmt = "SET sudah_vote" => q.stmt = "INSERT votes"
      /\ qs[j].stmt = InsertBlockStmt(VoteLedger) => q.stmt = "SET sudah_vote"
  BY <1>1 DEF Follows, InsertBlockStmt, VoteLedger, AuditLedger
<1>5. q.stmt \in {"INSERT votes", "SET sudah_vote"} => Succeeds(r, q.stmt)
  BY <1>3 DEF InsertBlockStmt, AuditLedger, VoteLedger
<1>6. QED
  BY <1>1, <1>2, <1>4, <1>5 DEF Chosen, Sent

\* A block that the server stores on the vote ledger is a vote.
LEMMA StoredVote ==
    ASSUME NobodyResets, TypeInv, HandlersInv, queue # <<>>, Chosen(Head(queue)),
           Head(queue).stmt = InsertBlockStmt(VoteLedger)
    PROVE  /\ Head(queue).block \in Blocks
           /\ \E u \in Users, c \in Candidates : Head(queue).block.data = <<"vote", u, c>>
<1> DEFINE q == Head(queue)
<1>1. /\ q.req \in Requests /\ req[q.req] # NULL /\ q \in Queries
  BY HeadUnderway, NullAssumption DEF Underway
<1>2. Own(req[q.req], q) /\ q.stmt = InsertBlockStmt(VoteLedger)
  BY HeadOwn DEF OwnStatement
<1> HIDE DEF q
<1>3. req[q.req].op = "castVote"
  BY <1>1, <1>2, NoReset DEF Own, MayIssue
<1>4. /\ q.block.data = <<"vote", req[q.req].user, req[q.req].candidate>>
      /\ req[q.req].user \in Users
  BY <1>1, <1>2, <1>3 DEF Own, OwnBlock, HandlersInv, Admitted
<1>5. req[q.req].candidate \in Candidates
  BY <1>1, <1>2, <1>3 DEF Chosen, Sent, q
<1>6. q.block \in Blocks
  <2>1. q.stmt \notin Statements
    BY <1>2 DEF Statements, InsertBlockStmt, VoteLedger
  <2>2. QED
    BY <1>1, <2>1 DEF Queries
<1>7. QED
  BY <1>4, <1>5, <1>6 DEF q

LEMMA ServeWhole ==
    ASSUME NobodyResets, TypeInv, HandlersInv, TablesWhole, NEW r \in Requests, Serve(r),
           faults = 0
    PROVE  TablesWhole'
<1>1. PICK stmt : Succeeds(r, stmt) \/ Fails(r, stmt)
  BY CallbackStatement DEF Serve
<1>2. /\ queue # <<>> /\ r = Head(queue).req /\ req' = req /\ Turn(r)
      /\ queue \in Seq(Queries) /\ 1 \in 1..Len(queue) /\ Head(queue) = queue[1]
      /\ UNCHANGED db \/ Perform(Head(queue))
  <2>1. Turn(r)
    BY CallbackTurn DEF Serve
  <2>2. QED
    BY <1>1, <2>1, StatementType, HeadOwn DEF Succeeds, Fails
<1>3. Chosen(Head(queue))
  BY <1>2 DEF TablesWhole
<1>4. TablesInv'
  BY ServeTables DEF TablesWhole
<1>5. \E qs \in Seq(Queries) : Issue(qs) /\ \A j \in 1..Len(qs) : Chosen(qs[j])'
  <2>1. CASE AnswersClient(r)
    <3>1. <<>> \in Seq(Queries) /\ 1..Len(<<>>) = {}
      BY EmptySeq
    <3>2. QED
      BY <2>1, <3>1 DEF AnswersClient
  <2>2. CASE GoesOn(r)
    <3>1. PICK qs : /\ IssuesOwn(r, qs)
                    /\ \/ Succeeds(r, Head(queue).stmt)
                       \/ Head(queue).stmt = InsertBlockStmt(AuditLedger)
      BY <2>2 DEF GoesOn
    <3>2. \A j \in 1..Len(qs) : Chosen(qs[j])'
      BY <1>2, <1>3, <3>1, IssuedChosen
    <3>3. QED
      BY <3>1, <3>2 DEF IssuesOwn
  <2>3. QED
    BY <1>2, <2>1, <2>2 DEF Turn
<1>6. PICK qs \in Seq(Queries) : Issue(qs) /\ \A j \in 1..Len(qs) : Chosen(qs[j])'
  BY <1>5
<1>7. ASSUME NEW i \in 1..Len(queue') PROVE Chosen(queue[i])'
  <2>1. \/ \E k \in 1..Len(queue) : queue'[i] = queue[k]
        \/ \E j \in 1..Len(qs) : queue'[i] = qs[j]
    BY <1>2, <1>6, IssueElements
  <2>2. \A k \in 1..Len(queue) : Chosen(queue[k])
    BY DEF TablesWhole
  <2>3. QED
    BY <1>2, <1>6, <2>1, <2>2 DEF Chosen, Sent
<1>8. VoteRows(blocks'[VoteLedger])
  <2>1. VoteLedger \in Ledgers /\ VoteRows(blocks[VoteLedger])
        /\ blocks[VoteLedger] \in Seq(Blocks)
    BY DEF Ledgers, TablesWhole, TypeInv, TypeOK, TablesOK
  <2>2. CASE blocks' = blocks
    BY <2>1, <2>2
  <2>3. CASE Perform(Head(queue))
    <3>1. \/ /\ Head(queue).stmt = InsertBlockStmt(VoteLedger)
             /\ blocks'[VoteLedger] = Append(blocks[VoteLedger], Head(queue).block)
          \/ blocks'[VoteLedger] = blocks[VoteLedger]
      BY <1>2, <2>1, <2>3, NoReset, TableWrites
    <3>2. QED
      BY <1>2, <1>3, <2>1, <3>1, StoredVote, VoteAppended
  <2>4. QED
    BY <1>2, <2>2, <2>3 DEF db
<1>9. QED
  BY <1>4, <1>7, <1>8 DEF TablesWhole

LEMMA ArriveWhole ==
    ASSUME TypeInv, HandlersInv, TablesWhole, NEW r \in Requests, Arrive(r)
    PROVE  TablesWhole'
<1>1. PICK input \in Inputs, q \in Queries :
          Arrives(r, input, <<q>>) /\ FirstStatement(r, input, q)
  BY ArriveShape
<1>2. /\ UNCHANGED <<blocks, reply>> /\ req[r] = NULL
      /\ req' = [req EXCEPT ![r] = input] /\ queue' = queue \o <<q>>
  BY <1>1 DEF Arrives, db
<1>3. /\ queue \in Seq(Queries) /\ req \in [Requests -> Inputs \cup {NULL}]
  BY DEF TypeInv, TypeOK, MemoryOK, RequestsOK
<1>4. req'[r] = input /\ \A s \in Requests : s # r => req'[s] = req[s]
  BY <1>2, <1>3
<1>5. \A i \in 1..Len(queue) : queue[i].req \in Requests /\ queue[i].req # r
  BY <1>2, <1>3, NullAssumption, ElementOfSeq DEF TypeInv, QueueOK, Underway, Queries
<1>6. \A i \in 1..Len(queue') : (i \in 1..Len(queue) /\ queue'[i] = queue[i]) \/ queue'[i] = q
  BY <1>2, <1>3, ArrivesElements
<1>7. q.req = r /\ (input.op = "castVote" => q.stmt = "SELECT settings")
  BY <1>1 DEF FirstStatement
<1>8. Chosen(q)'
  BY <1>4, <1>7 DEF Chosen, Sent, InsertBlockStmt, VoteLedger, AuditLedger
<1>9. \A i \in 1..Len(queue') : Chosen(queue[i])'
  <2>1. \A k \in 1..Len(queue) : Chosen(queue[k])
    BY DEF TablesWhole
  <2>2. QED
    BY <1>4, <1>5, <1>6, <1>8, <2>1 DEF Chosen, Sent
<1>10. TablesInv'
  BY ArriveTables DEF TablesWhole
<1>11. QED
  BY <1>2, <1>9, <1>10 DEF TablesWhole

(***************************************************************************)
(* The chain that is loaded and prolonged, and the report on it.           *)
(***************************************************************************)
\* A step of the tool's that leaves the chain and the report alone.
LEMMA NothingNewToReport ==
    ASSUME ReportInv, req' = req, tool_chain'[VoteLedger] = tool_chain[VoteLedger],
           faults' = 0 =>
              /\ faults = 0
              /\ tool'.report = tool.report
              /\ tool'.pc # "failed" /\ tool'.pc # "load vote" /\ tool.pc # "load vote"
              /\ tool'.pc \in Reported => tool.pc \in Reported
    PROVE  ReportInv'
BY DEF ReportInv

LEMMA LoadReport ==
    ASSUME ValidationInv, ServerOK, ReportInv, LoadChain(VoteLedger, "load vote", "load audit"),
           OwnOnly
    PROVE  ReportInv'
<1>1. /\ req' = req /\ faults' = faults /\ tool.pc = "load vote"
      /\ tool'.pc = "load audit"
  <2>1. tool'.pc = "load audit" /\ tool.pc = "load vote"
    BY DEF LoadChain, At, ValidationInv, ToolOK
  <2>2. QED
    BY <2>1 DEF LoadChain, OwnOnly
<1>2. ASSUME faults = 0 PROVE Faithful(tool_chain'[VoteLedger])
  <2>1. Recoverable(blocks[VoteLedger]) /\ VoteRows(blocks[VoteLedger])
    BY <1>1, <1>2 DEF ReportInv, TablesWhole, TablesInv, LedgerInv, Ledgers
  <2>2. TablesAfterBoot[VoteLedger] = blocks[VoteLedger] /\ blocks[VoteLedger] \in Seq(Blocks)
    BY <2>1 DEF TablesAfterBoot, Recoverable, ServerOK, TypeInv, TypeOK, TablesOK, Ledgers
  <2>3. PICK s \in LoadOrders(blocks[VoteLedger]) :
            tool_chain' = [tool_chain EXCEPT ![VoteLedger] = s]
    BY <2>2 DEF LoadChain
  <2>4. s = blocks[VoteLedger]
    BY <2>1, <2>2, LoadsInOrder DEF Recoverable
  <2>5. tool_chain'[VoteLedger] = s
    BY <2>3 DEF ValidationInv, ToolMemory, Ledgers
  <2>6. QED
    BY <2>1, <2>4, <2>5 DEF Faithful
<1>3. QED
  BY <1>1, <1>2 DEF ReportInv, Reported

LEMMA RunReport ==
    ASSUME ValidationInv, ReportInv, RunScenarios, OwnOnly
    PROVE  ReportInv'
<1>1. /\ req' = req /\ faults' = faults /\ tool.pc = "vote" /\ tool_chain' = tool_chain
      /\ tool'.pc = "post" /\ tool'.report = Scenarios(tool_chain[VoteLedger])
  <2>1. tool.pc = "vote" /\ tool'.pc = "post"
        /\ tool'.report = Scenarios(tool_chain[VoteLedger])
    BY DEF RunScenarios, At, ValidationInv, ToolOK
  <2>2. QED
    BY <2>1 DEF RunScenarios, OwnOnly
<1>2. ASSUME faults = 0 PROVE /\ Faithful(tool_chain[VoteLedger])
                              /\ Right(tool'.report, tool_chain[VoteLedger])
  <2>1. Faithful(tool_chain[VoteLedger])
    BY <1>1, <1>2 DEF ReportInv
  <2>2. tool_chain[VoteLedger] \in Seq(Blocks)
    BY DEF ValidationInv, ToolMemory, Ledgers
  <2>3. QED
    BY <1>1, <2>1, <2>2, ScenariosRight DEF Faithful
<1>3. QED
  BY <1>1, <1>2 DEF ReportInv

\* A vote of the tool's prolongs its chain by a vote, or leaves it.
LEMMA ToolVotesReport ==
    ASSUME ValidationInv, ReportInv, ToolVotes
    PROVE  ReportInv'
<1> DEFINE q == Head(tool_queue)
           r == q.req
           s == tool_chain[VoteLedger]
<1>1. /\ ServerOK /\ ToolVoteTurn /\ tool' = tool /\ req' = req /\ tool_queue # <<>>
  BY ToolVotesTurn DEF ToolVotes, ToolVoteTurn
<1>2. /\ OwnCall(q) /\ r \in Requests /\ req[r] \in Inputs /\ tool.pc = "vote"
      /\ req[r].user \in Users
  BY <1>1, ToolHead, ValidationAssumption
<1>3. req[r].candidate \in Candidates
  BY <1>2 DEF OwnCall, Sent, ReportInv
<1>4. faults' = 0 => faults = 0
  <2>1. faults \in 0..MaxFaults
    BY <1>1 DEF ServerOK, TypeInv, TypeOK, LifecycleOK
  <2>2. PICK stmt : ToolRuns(r, stmt)
    BY <1>1 DEF ToolVoteTurn, ToolTurn
  <2>3. faults' = faults \/ faults' = faults + 1
    BY <2>2 DEF ToolRuns
  <2>4. QED
    BY <2>1, <2>3
<1> HIDE DEF r, q
<1>5. ASSUME Faithful(s) PROVE Faithful(tool_chain'[VoteLedger])
  <2>1. s \in Seq(Blocks) /\ tool_chain \in [Ledgers -> Seq(Blocks)]
    BY DEF ValidationInv, ToolMemory, Ledgers
  <2>2. CASE tool_chain' = tool_chain
    BY <1>5, <2>2
  <2>3. CASE ToolAdds(r)
    <3> DEFINE Added(l, data, key) ==
              /\ \/ l = VoteLedger /\ data = VoteData(r) /\ key = SigningKey(r)
                 \/ l = AuditLedger /\ data = AuditData(r) /\ key = SystemKey
              /\ tool_chain' = [tool_chain EXCEPT
                                   ![l] = Append(@, NewBlock(tool_chain[l], r, data, key))]
    <3>1. PICK l \in Ledgers : \E data, key : Added(l, data, key)
      BY <2>3 DEF ToolAdds
    <3>2. PICK data, key : Added(l, data, key)
      BY <3>1
    <3> DEFINE b == NewBlock(tool_chain[l], r, data, key)
    <3>3. b \in Blocks /\ data \in Data /\ key \in KeyPairs
      BY <1>1, <3>2, ToolBlockType DEF r, q
    <3>4. NewOn(tool_chain[l], b)
      BY <3>3, NewBlockOn
    <3>5. b.data = data
      BY DEF NewBlock, Link, Block
    <3>6. tool_chain'[l] = Append(tool_chain[l], b)
          /\ \A m \in Ledgers : m # l => tool_chain'[m] = tool_chain[m]
      BY <2>1, <3>2
    <3> HIDE DEF b
    <3>7. CASE l = VoteLedger
      <4>1. \E u \in Users, c \in Candidates : b.data = <<"vote", u, c>>
        BY <1>2, <1>3, <3>2, <3>5, <3>7 DEF VoteData, VoteLedger, AuditLedger, r, q
      <4>2. Chained(Append(s, b)) /\ Signed(Append(s, b)) /\ VoteRows(Append(s, b))
        BY <1>5, <2>1, <3>3, <3>4, <3>7, <4>1, ChainedAppend, SignedAppend, VoteAppended
           DEF Faithful, Recoverable, NewOn
      <4>3. Append(s, b) # <<>>
        BY <2>1, <3>3, AppendProperties
      <4>4. QED
        BY <3>6, <3>7, <4>2, <4>3 DEF Faithful, Recoverable
    <3>8. CASE l # VoteLedger
      BY <1>5, <3>6, <3>8 DEF Ledgers
    <3>9. QED
      BY <3>7, <3>8
  <2>4. QED
    BY <1>1, <2>2, <2>3 DEF ToolVoteTurn, ToolTurn, ToolAnswers, ToolProceeds, r, q
<1>6. QED
  BY <1>1, <1>2, <1>4, <1>5 DEF ReportInv, Reported

LEMMA NextVoteReport ==
    ASSUME ValidationInv, ReportInv, CastNextVote
    PROVE  ReportInv'
<1>1. PICK r \in ValidationVotes, u \in tool.users :
          req' = [req EXCEPT ![r] = Input("castVote", u, FirstCandidate, NULL)]
  BY DEF CastNextVote
<1> DEFINE input == Input("castVote", u, FirstCandidate, NULL)
<1>2. /\ UNCHANGED <<faults, tool_chain, tool>> /\ tool.pc = "vote"
  BY DEF CastNextVote, At
<1>3. input.candidate \in Candidates
  <2>1. Candidates # {}
    BY <1>2 DEF ValidationInv, ToolOK
  <2>2. QED
    BY <2>1, FirstCandidateType DEF Input
<1> HIDE DEF input
<1>4. \A x \in ValidationVotes : req'[x] = req[x] \/ req'[x] = input
  <2>1. req' = [req EXCEPT ![r] = input]
    BY <1>1 DEF input
  <2>2. QED
    BY <2>1
<1>5. QED
  BY <1>2, <1>3, <1>4 DEF ReportInv

LEMMA OneMoreFault ==
    ASSUME ServerOK, faults' = faults + 1
    PROVE  faults' # 0
<1>1. faults \in 0..MaxFaults
  BY DEF ServerOK, TypeInv, TypeOK, LifecycleOK
<1>2. QED
  BY <1>1

\* Everything else the tool does of its own.
LEMMA OtherReport ==
    ASSUME Candidates # {}, ValidationInv, ServerOK, ReportInv, OwnOnly,
           \/ LoadChain(AuditLedger, "load audit", "max vote")
           \/ ReadMax(VoteLedger, "max vote", "max audit")
           \/ ReadMax(AuditLedger, "max audit", "setting")
           \/ ReadSetting \/ EnsureElectionOpen \/ CreateValidationUser \/ ChooseCandidate
           \/ CleanUp \/ ToolFails
    PROVE  ReportInv'
<1>1. req' = req /\ ~(faults' = faults + 1 /\ faults' = 0)
  BY OneMoreFault DEF OwnOnly
<1>2. DOMAIN tool = {"pc", "max", "previous", "created", "users", "report", "spoilt",
                     "before", "after"}
  BY DEF ValidationInv, ToolOK
<1>3. CASE LoadChain(AuditLedger, "load audit", "max vote")
  <2>1. tool_chain'[VoteLedger] = tool_chain[VoteLedger]
    BY <1>3 DEF LoadChain, ValidationInv, ToolMemory, Ledgers, VoteLedger, AuditLedger
  <2>2. /\ faults' = faults /\ tool'.report = tool.report /\ tool'.pc = "max vote"
        /\ tool.pc = "load audit"
    BY <1>2, <1>3 DEF LoadChain, At
  <2>3. QED
    BY <1>1, <2>1, <2>2, NothingNewToReport DEF Reported
<1>4. CASE \/ ReadMax(VoteLedger, "max vote", "max audit")
           \/ ReadMax(AuditLedger, "max audit", "setting")
           \/ ReadSetting \/ EnsureElectionOpen \/ ChooseCandidate
  <2>1. /\ faults' = faults /\ tool_chain' = tool_chain /\ tool'.report = tool.report
        /\ tool.pc # "load vote"
        /\ \/ tool'.pc = "max audit" \/ tool'.pc = "setting" \/ tool'.pc = "ensure"
           \/ tool'.pc = "open" \/ tool'.pc = "create" \/ tool'.pc = "vote"
    BY <1>2, <1>4 DEF ReadMax, ReadSetting, EnsureElectionOpen, ChooseCandidate, Goto, At
  <2>2. QED
    BY <1>1, <2>1, NothingNewToReport DEF Reported
<1>5. CASE CreateValidationUser
  <2>1. /\ tool_chain' = tool_chain /\ tool'.report = tool.report /\ tool.pc # "load vote"
        /\ \/ faults' = faults /\ (tool'.pc = "choose" \/ tool'.pc = "create")
           \/ faults' = faults + 1
    BY <1>2, <1>5 DEF CreateValidationUser, At
  <2>2. QED
    BY <1>1, <2>1, NothingNewToReport DEF Reported
<1>6. CASE CleanUp
  <2>1. /\ faults' = faults /\ tool_chain' = tool_chain /\ tool'.report = tool.report
        /\ tool.pc \in Reported
        /\ \/ tool'.pc = "delete vote blocks" \/ tool'.pc = "delete audit blocks"
           \/ tool'.pc = "delete votes" \/ tool'.pc = "delete users" \/ tool'.pc = "restore"
           \/ tool'.pc = "done"
    BY <1>2, <1>6 DEF CleanUp, PostMax, DeleteBlocksAfter, DeleteValidationUsers,
       RestoreElectionSetting, Goto, At, Reported, AfterBlocks
  <2>2. tool.pc # "load vote"
    BY <2>1 DEF Reported
  <2>3. QED
    BY <1>1, <2>1, <2>2, NothingNewToReport
<1>7. CASE ToolFails
  <2>1. faults' = faults + 1
    BY <1>7 DEF ToolFails
  <2>2. QED
    BY <1>1, <2>1 DEF ReportInv
<1>8. QED
  BY <1>3, <1>4, <1>5, <1>6, <1>7

LEMMA ServerReport ==
    ASSUME NobodyResets, ValidationInv, ReportInv, ServerStep
    PROVE  ReportInv'
<1>1. PICK r \in Clients : Arrive(r) \/ Serve(r)
  BY DEF ServerStep
<1>2. ServerOK /\ r \in Requests /\ r \notin ValidationVotes /\ ValidationVotes \subseteq Requests
  BY ServerStepKeeps, ValidationAssumption DEF Clients
<1>3. TypeInv /\ HandlersInv /\ UNCHANGED <<tool_chain, tool>>
  BY <1>2 DEF ServerOK, ServerStep, toolVars
<1>4. \A s \in ValidationVotes : req'[s] = req[s]
  BY <1>1, <1>2, <1>3, ArriveQueue, ServeQueue DEF ServerOK, ValidationInv, Separate
<1>5. faults' = 0 => faults = 0
  <2>1. CASE Serve(r)
    BY <1>2, <1>3, <2>1, ServeLucky
  <2>2. CASE Arrive(r)
    <3>1. PICK input \in Inputs, q \in Queries : Arrives(r, input, <<q>>)
      BY <1>2, <1>3, <2>2, ArriveShape
    <3>2. QED
      BY <3>1 DEF Arrives
  <2>3. QED
    BY <1>1, <2>1, <2>2
<1>6. faults' = 0 /\ TablesWhole => TablesWhole'
  BY <1>1, <1>2, <1>3, <1>5, ServeWhole, ArriveWhole
<1>7. QED
  BY <1>3, <1>4, <1>5, <1>6 DEF ReportInv

LEMMA StartReport == ValidationInit => ReportInv
<1> SUFFICES ASSUME ValidationInit PROVE ReportInv
  OBVIOUS
<1>1. InitWith(Users \ ValidationUsers) /\ Users \ ValidationUsers \in SUBSET Users
  BY DEF ValidationInit
<1>2. TablesInv
  BY <1>1, StartTables
<1>3. queue = <<>> /\ req = [r \in Requests |-> NULL] /\ blocks[VoteLedger] = <<BootGenesis>>
  BY <1>1 DEF InitWith, Ledgers
<1>4. VoteRows(<<BootGenesis>>)
  <2>1. \A i \in 1..Len(<<BootGenesis>>) : i = 1
    OBVIOUS
  <2>2. QED
    BY <2>1 DEF VoteRows
<1>5. 1..Len(<<>>) = {}
  BY EmptySeq
<1>6. tool.pc = "load vote"
  BY DEF ValidationInit, ToolInit
<1>7. QED
  BY <1>2, <1>3, <1>4, <1>5, <1>6, ValidationAssumption DEF ReportInv, TablesWhole, Reported

LEMMA NextReport ==
    ASSUME NobodyResets, Candidates # {}, ValidationInv, ReportInv,
           [ValidationNext]_validationVars
    PROVE  ReportInv'
<1>1. CASE UNCHANGED validationVars
  BY <1>1 DEF validationVars, vars, shared, memory, db, lifecycle, toolVars, ReportInv,
     TablesWhole, TablesInv, LedgerInv, Chosen, Sent
<1>2. CASE ValidationNext
  <2>1. ServerOK
    BY <1>2, NothingAfter DEF ValidationInv
  <2>2. CASE ServerStep
    BY <2>2, ServerReport
  <2>3. CASE CastNextVote
    BY <2>3, NextVoteReport
  <2>4. CASE ToolVotes
    BY <2>4, ToolVotesReport
  <2>5. CASE /\ \/ Prepare \/ ReadSetting \/ EnsureElectionOpen \/ CreateValidationUser
                \/ ChooseCandidate \/ RunScenarios \/ CleanUp \/ ToolFails
             /\ OwnOnly
    BY <2>1, <2>5, LoadReport, RunReport, OtherReport DEF Prepare
  <2>6. QED
    BY <1>2, <2>2, <2>3, <2>4, <2>5 DEF ValidationNext, ToolStep
<1>3. QED
  BY <1>1, <1>2

\* With a candidate to vote for, beside a server that is not asked to reset, and
\* while no statement fails: the report of a finished run is right, whatever the
\* server does meanwhile.  The chain passes, the tampered copy fails unless there
\* was nothing to tamper with or the tampering changed nothing, and the restored
\* copy passes.
THEOREM ReportsAreRight ==
    NobodyResets /\ "castVote" \in Operations /\ Candidates # {} /\ ValidationSpec
        => []ReportIsRight
<1>1. ReportInv => ReportIsRight
  BY DEF ReportInv, ReportIsRight, Finished, Reported, Right
<1>2. NobodyResets /\ "castVote" \in Operations /\ Candidates # {}
          /\ ValidationInv /\ ReportInv /\ [ValidationNext]_validationVars
      => ValidationInv' /\ ReportInv'
  BY NextValidation, NextReport
<1>3. NobodyResets => NobodyResets'
  BY DEF NobodyResets
<1>4. "castVote" \in Operations /\ Candidates # {}
          => ("castVote" \in Operations /\ Candidates # {})'
  OBVIOUS
<1>5. QED
  BY <1>1, <1>2, <1>3, <1>4, StartValidation, StartReport, PTL DEF ValidationSpec

(***************************************************************************)
(* What the clean-up leaves, when the server is at rest while the tool     *)
(* runs: the tables the tool found, statement by statement of the way back.*)
(***************************************************************************)
\* No key update is the last statement of its request.
KeysBefore ==
    \A i \in 1..Len(queue) : queue[i].stmt = "UPDATE keys" =>
        \E j \in 1..Len(queue) : /\ i < j /\ queue[j].req = queue[i].req
                                 /\ queue[j].stmt = InsertBlockStmt(VoteLedger)

\* The tables as the tool will find them.
BeforeTool ==
    /\ KeysBefore
    /\ \A l \in Ledgers : blocks[l] # <<>>
    /\ \A v \in votes : v.user \notin ValidationUsers
    /\ DOMAIN users \cap ValidationUsers = {}
    /\ \A r \in ValidationVotes : req[r] = NULL
    /\ tool.users = {} /\ tool.created = {}

Undisturbed == Alone /\ ~tool.spoilt /\ \A l \in Ledgers : InOrder(tool.before.blocks[l])

\* A table that begins with the rows there were, and numbers the others on.
Prolongs(new, old) ==
    /\ Len(old) <= Len(new)
    /\ \A i \in 1..Len(old) : new[i] = old[i]
    /\ \A i \in 1..Len(new) : i > Len(old) => new[i].index >= Len(old)

\* The program points at which a ledger is as it was, and those at which its
\* highest index and its chain have been read.
UsersGone  == {"restore", "done"}
VotesGone  == {"delete users"} \cup UsersGone
AuditGone  == {"delete votes"} \cup VotesGone
VotingGone == {"delete audit blocks"} \cup AuditGone
Whole(l) == IF l = VoteLedger THEN {"load audit", "max vote"} \cup VotingGone
                              ELSE {"load audit", "max vote", "max audit"} \cup AuditGone
Unread(l) == IF l = VoteLedger THEN {"load audit", "max vote"}
                               ELSE {"load audit", "max vote", "max audit"}
Unloaded(l) == IF l = VoteLedger THEN {} ELSE {"load audit"}

BlocksKept(l) ==
    LET old == tool.before.blocks[l]
    IN  /\ old # <<>>
        /\ Prolongs(blocks[l], old)
        /\ tool.pc \in Whole(l) => blocks[l] = old
        /\ tool.pc \notin Unread(l) => tool.max[l] = Len(old) - 1
        /\ tool.pc \notin Unloaded(l) => Len(old) <= Len(tool_chain[l])
        /\ \A i \in 1..Len(tool_queue) : tool_queue[i].stmt = InsertBlockStmt(l)
              => tool_queue[i].block.index >= Len(old)

\* A user the tool has just created.
NewRow == [sudah_vote |-> FALSE, public_key |-> NULL]

\* The tool knows all the users it has created or none; those it does not know
\* of do not vote.
UsersKept ==
    LET old == tool.before.users
    IN  /\ DOMAIN old \cap ValidationUsers = {}
        /\ old = [u \in DOMAIN old |-> users[u]]
        /\ tool.users = {} \/ tool.users = tool.created
        /\ tool.pc \notin UsersGone =>
              /\ DOMAIN users = DOMAIN old \cup tool.created
              /\ tool.users = {} => \A u \in tool.created : users[u] = NewRow
        /\ tool.pc \in UsersGone => users = WithFresh(old, LeftBehind)

VotesKept ==
    LET old == tool.before.votes
    IN  /\ old \subseteq votes
        /\ \A v \in old : v.user \notin ValidationUsers
        /\ \A v \in votes : v \in old \/ v.user \in tool.users
        /\ tool.pc \in VotesGone => votes = old

SettingsKept ==
    LET old == tool.before.settings
    IN  /\ old \in [is_open : BOOLEAN]
        /\ tool.pc \in {"load audit", "max vote", "max audit", "setting", "done"}
              => settings = old
        /\ tool.pc \notin {"load audit", "max vote", "max audit", "setting"}
              => tool.previous = old.is_open

Snapshot ==
    LET old == tool.before
    IN  /\ old = [users |-> old.users, votes |-> old.votes, settings |-> old.settings,
                  blocks |-> old.blocks]
        /\ old.blocks \in [Ledgers -> Seq(Blocks)]

Reversible ==
    /\ Snapshot
    /\ queue = <<>>
    /\ \A l \in Ledgers : BlocksKept(l)
    /\ UsersKept /\ VotesKept /\ SettingsKept

CleanInv ==
    /\ DOMAIN tool.max = Ledgers
    /\ \A r \in ValidationVotes : req[r] # NULL => req[r].user \in tool.users
    /\ tool.pc = "load vote" => BeforeTool
    /\ \A r \in tool.after : r \in Clients /\ req[r] # NULL
    /\ tool.pc \notin {"load vote", "failed"} /\ Undisturbed => Reversible

(***************************************************************************)
(* Rows that are kept, numbered, and found again.                          *)
(***************************************************************************)
LEMMA ProlongsItself ==
    ASSUME NEW s \in Seq(Blocks)
    PROVE  Prolongs(s, s)
<1>1. Len(s) \in Nat /\ \A i \in 1..Len(s) : ~(i > Len(s))
  OBVIOUS
<1>2. QED
  BY <1>1 DEF Prolongs

LEMMA ProlongsMore ==
    ASSUME NEW old \in Seq(Blocks), NEW s \in Seq(Blocks), Prolongs(s, old),
           NEW b \in Blocks, b.index >= Len(old)
    PROVE  Prolongs(Append(s, b), old)
<1> DEFINE new == Append(s, b)
<1>1. /\ \A i \in 1..Len(s) : i \in 1..Len(new) /\ new[i] = s[i]
      /\ \A i \in 1..Len(new) : (i \in 1..Len(s) /\ new[i] = s[i]) \/ new[i] = b
  BY AppendedRow
<1>2. Len(new) = Len(s) + 1 /\ Len(s) \in Nat /\ Len(old) \in Nat
  BY AppendProperties
<1> HIDE DEF new
<1>3. Len(old) <= Len(s) /\ \A i \in 1..Len(old) : i \in 1..Len(s) /\ s[i] = old[i]
  BY <1>2 DEF Prolongs
<1>4. \A i \in 1..Len(new) : i > Len(old) => new[i].index >= Len(old)
  BY <1>1 DEF Prolongs
<1>5. Prolongs(new, old)
  BY <1>1, <1>2, <1>3, <1>4 DEF Prolongs
<1>6. QED
  BY <1>5 DEF new

\* The first n of the rows.
LEMMA FirstRows ==
    ASSUME NEW rows, NEW n \in Nat
    PROVE  RowsAt(rows, 1..n) = [k \in 1..n |-> rows[k]]
<1> DEFINE kept == 1..n
           pick(k) == CHOOSE i \in kept : Cardinality(Upto(kept, i)) = k
<1>1. ASSUME NEW i \in 1..n PROVE Cardinality(Upto(1..n, i)) = i
  <2>1. Upto(1..n, i) = 1..i
    BY DEF Upto
  <2>2. i \in Int /\ ~(1 > i) /\ i - 1 + 1 = i
    OBVIOUS
  <2>3. Cardinality(1..i) = i
    BY <2>2, FS_Interval
  <2>4. QED
    BY <2>1, <2>3
<1>2. Cardinality(1..n) = n
  <2>1. Cardinality(1..n) = IF 1 > n THEN 0 ELSE n - 1 + 1
    BY FS_Interval
  <2>2. QED
    BY <2>1
<1>3. \A k \in 1..n : pick(k) = k
  BY <1>1
<1>4. RowsAt(rows, kept) = [k \in 1..Cardinality(kept) |-> rows[pick(k)]]
  BY DEF RowsAt, Upto
<1>5. 1..Cardinality(kept) = 1..n
  BY <1>2
<1> HIDE DEF pick, kept
<1>6. RowsAt(rows, kept) = [k \in 1..n |-> rows[k]]
  BY <1>3, <1>4, <1>5
<1>7. QED
  BY <1>6 DEF kept

\* What DELETE ... WHERE block_index > max leaves.
NotBehind(rows, max) ==
    RowsAt(rows, {i \in DOMAIN rows : max # NULL /\ rows[i].index <= max})

\* Deleting what is numbered behind the last row there was.
LEMMA CutBack ==
    ASSUME NEW old \in Seq(Blocks), old # <<>>, InOrder(old),
           NEW rows \in Seq(Blocks), Prolongs(rows, old), NEW max, max = Len(old) - 1
    PROVE  NotBehind(rows, max) = old
<1>1. Len(old) \in Nat \ {0} /\ Len(rows) \in Nat /\ DOMAIN rows = 1..Len(rows)
      /\ DOMAIN old = 1..Len(old)
  BY EmptySeq
<1>2. max \in Nat /\ max # NULL
  BY <1>1, ValidationAssumption
<1>3. Len(old) <= Len(rows) /\ \A i \in 1..Len(old) : i \in 1..Len(rows) /\ rows[i] = old[i]
  BY <1>1 DEF Prolongs
<1>4. \A i \in 1..Len(rows) : rows[i].index \in Nat
  <2>1. \A i \in 1..Len(rows) : rows[i] \in Blocks
    BY ElementOfSeq
  <2>2. \A b \in Blocks : b.index \in Nat
    BY DEF Blocks
  <2>3. QED
    BY <2>1, <2>2
<1>5. ASSUME NEW i \in 1..Len(rows)
      PROVE  rows[i].index <= max <=> i \in 1..Len(old)
  <2>1. CASE i \in 1..Len(old)
    <3>1. rows[i].index = i - 1
      BY <1>1, <1>3, <2>1 DEF InOrder
    <3>2. QED
      BY <1>1, <2>1, <3>1
  <2>2. CASE i \notin 1..Len(old)
    <3>1. rows[i].index >= Len(old)
      BY <1>1, <2>2 DEF Prolongs
    <3>2. QED
      BY <1>1, <1>4, <2>2, <3>1
  <2>3. QED
    BY <2>1, <2>2
<1>6. {i \in DOMAIN rows : max # NULL /\ rows[i].index <= max} = 1..Len(old)
  BY <1>1, <1>2, <1>3, <1>5
<1>7. RowsAt(rows, 1..Len(old)) = [k \in 1..Len(old) |-> rows[k]]
  BY <1>1, FirstRows
<1>8. [k \in 1..Len(old) |-> rows[k]] = [k \in 1..Len(old) |-> old[k]]
  BY <1>3
<1>9. old = [k \in 1..Len(old) |-> old[k]]
  OBVIOUS
<1>10. QED
  BY <1>6, <1>7, <1>8, <1>9 DEF NotBehind

LEMMA HighestIndex ==
    ASSUME NEW l, NEW old \in Seq(Blocks), blocks[l] = old, old # <<>>, InOrder(old)
    PROVE  GetTableMaxIndex(l) = Len(old) - 1
<1> DEFINE indices == {old[i].index : i \in DOMAIN old}
<1>1. Len(old) \in Nat \ {0} /\ DOMAIN old = 1..Len(old)
  BY EmptySeq
<1>2. \A i \in 1..Len(old) : old[i].index = i - 1
  BY <1>1 DEF InOrder
<1>3. Len(old) - 1 \in indices
  <2>1. Len(old) \in DOMAIN old /\ old[Len(old)].index = Len(old) - 1
    BY <1>1, <1>2
  <2>2. QED
    BY <2>1
<1>4. \A m \in indices : m \in Nat /\ m <= Len(old) - 1
  BY <1>1, <1>2
<1>5. GetTableMaxIndex(l)
          = IF indices = {} THEN NULL ELSE CHOOSE m \in indices : \A i \in indices : i <= m
  BY DEF GetTableMaxIndex
<1> HIDE DEF indices
<1>6. \A m \in indices : (\A i \in indices : i <= m) => m = Len(old) - 1
  BY <1>1, <1>3, <1>4
<1>7. QED
  BY <1>3, <1>4, <1>5, <1>6

(***************************************************************************)
(* Until the tool loads: the server with voters of its own.                *)
(***************************************************************************)
LEMMA FlagCallback ==
    ASSUME NEW r, Callback(r), queue # <<>>, Head(queue).stmt = "SET sudah_vote"
    PROVE  FlagSet(r) \/ FlagNotSet(r)
<1> USE DEF Succeeds, Fails, Executes, InsertBlockStmt, VoteLedger, AuditLedger
<1>1. CASE CastVote(r)
  BY <1>1 DEF CastVote, CheckSettings, CheckSudahVote, CheckCandidate, CheckFails, VoteSaved,
     VoteNotSaved, KeysSaved, VoteBlockSaved, VoteBlockLost
<1>2. CASE UserAdmin(r)
  BY <1>2 DEF UserAdmin, UserDeleted, UserNotDeleted, VotesDeleted, VotesNotDeleted,
     FlagsCleared, FlagsNotCleared, BlocksDeleted, GenesisSaved, ResetChainFails
<1>3. CASE SettingsAdmin(r)
  BY <1>3 DEF SettingsAdmin, StatusRead, StatusNotRead, StatusUpdated, StatusNotUpdated
<1>4. CASE RecordAudit(r)
  BY <1>4 DEF RecordAudit, AuditBlockSaved, AuditBlockLost, AuditLogSaved, AuditLogLost
<1>5. QED
  BY <1>1, <1>2, <1>3, <1>4 DEF Callback

LEMMA ShiftedPair ==
    ASSUME NEW n \in Nat \ {0}, NEW p \in Nat
    PROVE  /\ \A k, m \in 1..n : k # 1 /\ k < m =>
                  m - 1 \in 1..n - 1 /\ m - 1 \in 1..n - 1 + p /\ m - 1 + 1 = m /\ k - 1 < m - 1
           /\ \A k, m \in 1..p : k < m =>
                  n - 1 + m \in 1..n - 1 + p /\ n - 1 + k < n - 1 + m
OBVIOUS

\* The shift of the queue keeps what is behind the head.
LEMMA KeysShift ==
    ASSUME queue \in Seq(Queries), queue # <<>>, KeysBefore, NEW qs \in Seq(Queries), Issue(qs),
           \A i \in 1..Len(qs) : qs[i].stmt = "UPDATE keys" =>
               \E j \in 1..Len(qs) : /\ i < j /\ qs[j].req = qs[i].req
                                     /\ qs[j].stmt = InsertBlockStmt(VoteLedger)
    PROVE  KeysBefore'
<1>1. /\ Len(queue) \in Nat \ {0} /\ Len(qs) \in Nat
      /\ Len(queue') = Len(queue) - 1 + Len(qs)
      /\ \A i \in 1..Len(queue) - 1 : queue'[i] = queue[i + 1]
      /\ \A j \in 1..Len(qs) : queue'[Len(queue) - 1 + j] = qs[j]
  BY IssueIndices
<1>2. ASSUME NEW i \in 1..Len(queue'), queue'[i].stmt = "UPDATE keys"
      PROVE  \E j \in 1..Len(queue') : /\ i < j /\ queue'[j].req = queue'[i].req
                                       /\ queue'[j].stmt = InsertBlockStmt(VoteLedger)
  <2>1. CASE \E k \in 1..Len(queue) : k # 1 /\ i = k - 1 /\ queue'[i] = queue[k]
    <3>1. PICK k \in 1..Len(queue) : k # 1 /\ i = k - 1 /\ queue'[i] = queue[k]
      BY <2>1
    <3>2. PICK m \in 1..Len(queue) : /\ k < m /\ queue[m].req = queue[k].req
                                     /\ queue[m].stmt = InsertBlockStmt(VoteLedger)
      BY <1>2, <3>1 DEF KeysBefore
    <3>3. m - 1 \in 1..Len(queue) - 1 /\ m - 1 \in 1..Len(queue') /\ m - 1 + 1 = m
          /\ i < m - 1
      BY <1>1, <3>1, <3>2, ShiftedPair
    <3>4. queue'[m - 1] = queue[m]
      BY <1>1, <3>3
    <3>5. QED
      BY <3>1, <3>2, <3>3, <3>4
  <2>2. CASE \E j \in 1..Len(qs) : i = Len(queue) - 1 + j /\ queue'[i] = qs[j]
    <3>1. PICK k \in 1..Len(qs) : i = Len(queue) - 1 + k /\ queue'[i] = qs[k]
      BY <2>2
    <3>2. PICK m \in 1..Len(qs) : /\ k < m /\ qs[m].req = qs[k].req
                                  /\ qs[m].stmt = InsertBlockStmt(VoteLedger)
      BY <1>2, <3>1
    <3>3. Len(queue) - 1 + m \in 1..Len(queue') /\ i < Len(queue) - 1 + m
      BY <1>1, <3>1, <3>2, ShiftedPair
    <3>4. queue'[Len(queue) - 1 + m] = qs[m]
      BY <1>1
    <3>5. QED
      BY <3>1, <3>2, <3>3, <3>4
  <2>3. QED
    BY <2>1, <2>2, IssueOrigin
<1>3. QED
  BY <1>2 DEF KeysBefore

LEMMA ServeKeys ==
    ASSUME TypeInv, HandlersInv, KeysBefore, NEW r \in Requests, Serve(r)
    PROVE  KeysBefore'
<1>1. PICK stmt : Succeeds(r, stmt) \/ Fails(r, stmt)
  BY CallbackStatement DEF Serve
<1>2. /\ queue # <<>> /\ r = Head(queue).req /\ Turn(r) /\ queue \in Seq(Queries)
  <2>1. Turn(r)
    BY CallbackTurn DEF Serve
  <2>2. QED
    BY <1>1, <2>1, StatementType DEF TypeInv, TypeOK, MemoryOK, Succeeds, Fails, Executes
<1>3. CASE FlagSet(r)
  <2> DEFINE b      == NextVoteBlock(r)
             insert == Query(r, InsertBlockStmt(VoteLedger), b)
             update == Query(r, "UPDATE keys", NULL)
  <2>1. Issue(<<update, insert>>) \/ Issue(<<insert>>)
    BY <1>3 DEF FlagSet
  <2>2. /\ insert \in Queries /\ update \in Queries
        /\ insert.req = r /\ insert.stmt = InsertBlockStmt(VoteLedger)
        /\ update.req = r /\ update.stmt = "UPDATE keys"
    <3>1. b \in Blocks
      BY <1>1, <1>3, NextVoteBlockType DEF FlagSet, Serve
    <3>2. QED
      BY <3>1, QueryType DEF Ledgers, Statements, Query
  <2> HIDE DEF insert, update
  <2>3. /\ <<update, insert>> \in Seq(Queries) /\ Len(<<update, insert>>) = 2
        /\ <<update, insert>>[1] = update /\ <<update, insert>>[2] = insert
        /\ <<insert>> \in Seq(Queries) /\ Len(<<insert>>) = 1 /\ <<insert>>[1] = insert
    <3>1. insert \in Queries /\ update \in Queries
      BY <2>2
    <3>2. QED
      BY <3>1
  <2>4. CASE Issue(<<update, insert>>)
    <3> DEFINE qs == <<update, insert>>
    <3>1. qs \in Seq(Queries) /\ Issue(qs) /\ Len(qs) = 2 /\ qs[1] = update /\ qs[2] = insert
      BY <2>3, <2>4
    <3> HIDE DEF qs
    <3>2. insert.stmt # "UPDATE keys"
      BY <2>2 DEF InsertBlockStmt
    <3>3. ASSUME NEW i \in 1..Len(qs), qs[i].stmt = "UPDATE keys"
          PROVE  \E j \in 1..Len(qs) : /\ i < j /\ qs[j].req = qs[i].req
                                       /\ qs[j].stmt = InsertBlockStmt(VoteLedger)
      <4>1. (i = 1 \/ i = 2) /\ 2 \in 1..Len(qs)
        BY <3>1
      <4>2. i = 1
        BY <3>1, <3>2, <3>3, <4>1
      <4>3. qs[1].req = r /\ qs[2].req = r /\ qs[2].stmt = InsertBlockStmt(VoteLedger)
        BY <2>2, <3>1
      <4>4. QED
        BY <4>1, <4>2, <4>3
    <3>4. QED
      BY <1>2, <3>1, <3>3, KeysShift
  <2>5. CASE Issue(<<insert>>)
    <3>1. \A i \in 1..Len(<<insert>>) : <<insert>>[i].stmt # "UPDATE keys"
      <4>1. \A i \in 1..Len(<<insert>>) : i = 1
        BY <2>3
      <4>2. QED
        BY <2>2, <2>3, <4>1 DEF InsertBlockStmt
    <3>2. QED
      BY <1>2, <2>3, <2>5, <3>1, KeysShift
  <2>6. QED
    BY <2>1, <2>4, <2>5
<1>4. CASE ~FlagSet(r)
  <2>1. PICK qs \in Seq(Queries) :
            Issue(qs) /\ \A j \in 1..Len(qs) : qs[j].stmt # "UPDATE keys"
    <3>1. CASE AnswersClient(r)
      <4>1. <<>> \in Seq(Queries) /\ 1..Len(<<>>) = {}
        BY EmptySeq
      <4>2. QED
        BY <3>1, <4>1 DEF AnswersClient
    <3>2. CASE GoesOn(r)
      <4>1. PICK qs : IssuesOwn(r, qs)
        BY <3>2 DEF GoesOn
      <4>2. CASE Head(queue).stmt = "SET sudah_vote"
        <5>1. FlagNotSet(r)
          BY <1>2, <1>4, <4>2, FlagCallback DEF Serve
        <5>2. Issue(<<>>)
          BY <5>1 DEF FlagNotSet, Answer
        <5>3. <<>> \in Seq(Queries) /\ 1..Len(<<>>) = {}
          BY EmptySeq
        <5>4. QED
          BY <5>2, <5>3
      <4>3. CASE Head(queue).stmt # "SET sudah_vote"
        <5>1. \A j \in 1..Len(qs) : qs[j].stmt # "UPDATE keys"
          BY <4>1, <4>3 DEF IssuesOwn, Follows, InsertBlockStmt
        <5>2. QED
          BY <4>1, <5>1 DEF IssuesOwn
      <4>4. QED
        BY <4>2, <4>3
    <3>3. QED
      BY <1>2, <3>1, <3>2 DEF Turn
  <2>2. QED
    BY <1>2, <2>1, KeysShift
<1>5. QED
  BY <1>3, <1>4

\* A statement of the server's, before the tool has users.
LEMMA StatementBefore ==
    ASSUME NobodyResets, ValidationInv, ServerOK, BeforeTool, queue # <<>>,
           Perform(Head(queue))
    PROVE  /\ \A l \in Ledgers : blocks'[l] # <<>>
           /\ \A v \in votes' : v.user \notin ValidationUsers
           /\ DOMAIN users' \cap ValidationUsers = {}
<1> DEFINE q == Head(queue)
<1>1. /\ TypeInv /\ HandlersInv /\ q \in Queries /\ q.req \in Requests /\ req[q.req] # NULL
      /\ q.stmt # "DELETE blockchain"
  BY HeadUnderway, NoReset DEF ServerOK, Underway
<1>2. req[q.req].user \notin ValidationUsers
  <2>1. q.req \in Clients
    BY <1>1, HeadOwn DEF ValidationInv, Separate
  <2>2. QED
    BY <1>1, <2>1 DEF ValidationInv, Separate
<1> HIDE DEF q
<1>3. Perform(q)
  BY DEF q
<1>4. ASSUME NEW l \in Ledgers PROVE blocks'[l] # <<>>
  <2>1. blocks[l] # <<>> /\ blocks[l] \in Seq(Blocks)
    BY <1>1 DEF BeforeTool, TypeInv, TypeOK, TablesOK
  <2>2. CASE q.stmt = InsertBlockStmt(l)
    <3>1. q.block \in Blocks
      <4>1. q.stmt \notin Statements
        BY <2>2 DEF Statements, InsertBlockStmt
      <4>2. QED
        BY <1>1, <4>1 DEF Queries
    <3>2. blocks'[l] = Append(blocks[l], q.block)
      BY <1>1, <1>3, <2>2, TableWrites
    <3>3. QED
      BY <2>1, <3>1, <3>2, AppendProperties
  <2>3. CASE q.stmt # InsertBlockStmt(l)
    BY <1>1, <1>3, <2>1, <2>3, TableWrites
  <2>4. QED
    BY <2>2, <2>3
<1>5. \A v \in votes' : v.user \notin ValidationUsers
  <2>1. \A v \in votes : v.user \notin ValidationUsers
    BY DEF BeforeTool
  <2> DEFINE w == [req |-> q.req, user |-> req[q.req].user, candidate |-> req[q.req].candidate]
  <2>2. w.user = req[q.req].user
    OBVIOUS
  <2>3. q.stmt = "INSERT votes" => votes' = votes \cup {w}
    BY <1>3, PerformVotes
  <2> HIDE DEF w
  <2>4. CASE q.stmt = "INSERT votes"
    BY <1>2, <2>1, <2>2, <2>3, <2>4
  <2>5. CASE q.stmt = "DELETE users"
    <3>1. DeleteUser(q)
      BY <1>3, <2>5 DEF Perform, Read, InsertVote, DeleteVotes, UpdateFlag, UpdateKeys,
         UpdateIsOpen, SaveBlock, DeleteBlocks, InsertAuditLog, InsertBlockStmt
    <3>2. QED
      BY <2>1, <3>1 DEF DeleteUser
  <2>6. CASE q.stmt \notin {"INSERT votes", "DELETE users"}
    <3>1. votes' \subseteq votes
      BY <1>3, <2>6, PerformVotes
    <3>2. QED
      BY <2>1, <3>1
  <2>7. QED
    BY <2>4, <2>5, <2>6
<1>6. DOMAIN users' \subseteq DOMAIN users
  <2>1. CASE q.stmt = "DELETE users"
    <3>1. DeleteUser(q)
      BY <1>3, <2>1 DEF Perform, Read, InsertVote, DeleteVotes, UpdateFlag, UpdateKeys,
         UpdateIsOpen, SaveBlock, DeleteBlocks, InsertAuditLog, InsertBlockStmt
    <3>2. QED
      BY <3>1 DEF DeleteUser
  <2>2. QED
    BY <1>3, <2>1, PerformVotes
<1>7. QED
  BY <1>4, <1>5, <1>6 DEF BeforeTool

LEMMA ServeBefore ==
    ASSUME NobodyResets, ValidationInv, ServerOK, BeforeTool, NEW r \in Clients, Serve(r),
           UNCHANGED tool
    PROVE  BeforeTool'
<1>1. TypeInv /\ HandlersInv /\ r \in Requests
  BY DEF ServerOK, Clients
<1>2. req' = req
  BY <1>1, ServeQueue
<1>3. PICK stmt : Succeeds(r, stmt) \/ Fails(r, stmt)
  BY CallbackStatement DEF Serve
<1>4. queue # <<>> /\ (Perform(Head(queue)) \/ UNCHANGED db)
  BY <1>3 DEF Succeeds, Fails, Executes
<1>5. KeysBefore'
  BY <1>1, ServeKeys DEF BeforeTool
<1>6. CASE Perform(Head(queue))
  BY <1>2, <1>4, <1>5, <1>6, StatementBefore DEF BeforeTool
<1>7. CASE UNCHANGED db
  BY <1>2, <1>5, <1>7 DEF BeforeTool, db
<1>8. QED
  BY <1>4, <1>6, <1>7

LEMMA ArriveBefore ==
    ASSUME ValidationInv, ServerOK, BeforeTool, NEW r \in Clients, Arrive(r), UNCHANGED tool
    PROVE  BeforeTool'
<1>1. TypeInv /\ r \in Requests /\ \A s \in ValidationVotes : s \in Requests /\ s # r
  BY ValidationAssumption DEF ServerOK, Clients
<1>2. PICK input \in Inputs, q \in Queries :
          Arrives(r, input, <<q>>) /\ FirstStatement(r, input, q)
  BY <1>1, ArriveShape
<1>3. /\ queue' = queue \o <<q>> /\ UNCHANGED db /\ queue \in Seq(Queries)
      /\ q.stmt # "UPDATE keys"
  BY <1>1, <1>2 DEF Arrives, FirstStatement, InsertBlockStmt, TypeInv, TypeOK, MemoryOK
<1>4. /\ Len(queue) \in Nat /\ Len(queue') = Len(queue) + 1
      /\ \A i \in 1..Len(queue) : queue'[i] = queue[i]
      /\ \A i \in 1..Len(queue') : i \in 1..Len(queue) \/ queue'[i] = q
  BY <1>3, ArrivesElements
<1>5. \A i \in 1..Len(queue) : i \in 1..Len(queue')
  BY <1>4
<1>6. KeysBefore'
  <2>1. ASSUME NEW i \in 1..Len(queue'), queue'[i].stmt = "UPDATE keys"
        PROVE  \E j \in 1..Len(queue') : /\ i < j /\ queue'[j].req = queue'[i].req
                                         /\ queue'[j].stmt = InsertBlockStmt(VoteLedger)
    <3>1. i \in 1..Len(queue) /\ queue[i].stmt = "UPDATE keys" /\ queue'[i] = queue[i]
      BY <1>3, <1>4, <2>1
    <3>2. PICK j \in 1..Len(queue) : /\ i < j /\ queue[j].req = queue[i].req
                                     /\ queue[j].stmt = InsertBlockStmt(VoteLedger)
      BY <3>1 DEF BeforeTool, KeysBefore
    <3>3. QED
      BY <1>4, <1>5, <3>1, <3>2
  <2>2. QED
    BY <2>1 DEF KeysBefore
<1>7. \A s \in ValidationVotes : req'[s] = req[s]
  BY <1>1, ArriveQueue
<1>8. QED
  BY <1>3, <1>6, <1>7 DEF BeforeTool, db

\* A server that has answered everybody has nothing in its queue.
LEMMA AtRest ==
    ASSUME ValidationInv, ServerOK, KeysBefore,
           {r \in Clients : req[r] # NULL} \subseteq Answered
    PROVE  queue = <<>>
<1> SUFFICES ASSUME queue # <<>> PROVE FALSE
  OBVIOUS
<1> DEFINE n == Len(queue)
           q == queue[n]
<1>1. queue \in Seq(Queries) /\ n \in 1..Len(queue) /\ n \in Nat
  BY EmptySeq DEF ServerOK, TypeInv, TypeOK, MemoryOK
<1>2. q.req \in Clients /\ req[q.req] # NULL /\ Waits(n)
  BY <1>1 DEF ValidationInv, Separate, ServerOK, TypeInv, QueueOK, Underway, HandlersInv
<1>3. reply[q.req] # NULL
  BY <1>2 DEF Answered
<1>4. q.stmt = "UPDATE keys"
  BY <1>2, <1>3 DEF Waits, Awaited
<1>5. PICK j \in 1..Len(queue) : n < j
  BY <1>1, <1>4 DEF KeysBefore
<1>6. QED
  BY <1>1, <1>5

LEMMA LoadLength ==
    ASSUME NEW rows \in Seq(Blocks), NEW s \in LoadOrders(rows)
    PROVE  Len(s) = Len(rows) /\ Len(rows) <= Len(s)
<1> DEFINE n == Len(rows)
<1>1. PICK p \in [1..n -> 1..n] : s = [i \in 1..n |-> rows[p[i]]]
  BY DEF LoadOrders
<1>2. n \in Nat
  OBVIOUS
<1> HIDE DEF n
<1>3. Len(s) = n /\ n <= Len(s)
  BY <1>1, <1>2
<1>4. QED
  BY <1>3 DEF n

LEMMA NoRows ==
    ASSUME NEW s, s = <<>>
    PROVE  1..Len(s) = {}
BY EmptySeq

\* A chain that is loaded from a table with blocks.
LEMMA Loaded ==
    ASSUME ValidationInv, ServerOK, NEW l \in Ledgers, blocks[l] # <<>>, NEW pc, NEW next,
           LoadChain(l, pc, next)
    PROVE  /\ blocks' = blocks /\ UNCHANGED <<users, votes, settings, tool_queue>>
           /\ Len(blocks[l]) <= Len(tool_chain'[l])
           /\ \A m \in Ledgers : m # l => tool_chain'[m] = tool_chain[m]
<1>1. blocks \in [Ledgers -> Seq(Blocks)] /\ tool_chain \in [Ledgers -> Seq(Blocks)]
  BY DEF ServerOK, TypeInv, TypeOK, TablesOK, ValidationInv, ToolMemory
<1>2. TablesAfterBoot[l] = blocks[l]
  BY DEF TablesAfterBoot
<1>3. blocks' = [blocks EXCEPT ![l] = blocks[l]]
  BY <1>2 DEF LoadChain
<1>4. PICK s \in LoadOrders(blocks[l]) : tool_chain' = [tool_chain EXCEPT ![l] = s]
  BY <1>2 DEF LoadChain
<1>5. Len(blocks[l]) <= Len(s)
  BY <1>1, LoadLength
<1>6. QED
  BY <1>1, <1>3, <1>4, <1>5 DEF LoadChain

\* The tool finds the tables of a server at rest.
LEMMA LoadVoteClean ==
    ASSUME ValidationInv, ServerOK, CleanInv, OwnOnly,
           LoadChain(VoteLedger, "load vote", "load audit")
    PROVE  CleanInv'
<1>1. /\ tool.pc = "load vote" /\ tool_queue = <<>> /\ BeforeTool
      /\ UNCHANGED <<queue, req, reply>>
  BY DEF LoadChain, At, CleanInv, OwnOnly, memory
<1>2. /\ tool'.pc = "load audit" /\ tool'.before = Tables /\ tool'.max = tool.max
      /\ tool'.users = tool.users /\ tool'.created = tool.created /\ tool'.after = Answered
  <2>1. tool' = [tool EXCEPT !.pc = "load audit", !.before = Tables, !.after = Answered]
    BY DEF LoadChain
  <2>2. DOMAIN tool = {"pc", "max", "previous", "created", "users", "report", "spoilt",
                     "before", "after"}
    BY DEF ValidationInv, ToolOK
  <2>3. QED
    BY <2>1, <2>2
<1>3. /\ UNCHANGED <<blocks, users, votes, settings, tool_queue>>
      /\ Len(blocks[VoteLedger]) <= Len(tool_chain'[VoteLedger])
  BY <1>1, Loaded DEF BeforeTool, Ledgers
<1>4. ASSUME NEW r \in Answered PROVE r \in Clients /\ req[r] # NULL
  BY <1>1, <1>4 DEF Answered, ServerOK, HandlersInv, Admitted, BeforeTool, Clients
<1>5. TablesOK
  BY DEF ServerOK, TypeInv, TypeOK
<1> DEFINE old == tool'.before
<1>6. /\ old.users = users /\ old.votes = votes /\ old.settings = settings /\ old.blocks = blocks
      /\ old = [users |-> users, votes |-> votes, settings |-> settings, blocks |-> blocks]
  <2>1. tool'.before = [users |-> users, votes |-> votes, settings |-> settings,
                        blocks |-> blocks]
    BY <1>2 DEF Tables
  <2> HIDE DEF old
  <2>2. old = [users |-> users, votes |-> votes, settings |-> settings, blocks |-> blocks]
    BY <2>1 DEF old
  <2>3. QED
    BY <2>2
<1> HIDE DEF old
<1>7. ASSUME Undisturbed' PROVE queue = <<>>
  <2>1. {r \in Clients : req[r] # NULL} \subseteq Answered
    BY <1>1, <1>2, <1>7 DEF Undisturbed, Alone
  <2>2. QED
    BY <1>1, <2>1, AtRest DEF BeforeTool
<1>8. Snapshot'
  BY <1>5, <1>6 DEF Snapshot, TablesOK, old
<1>9. ASSUME NEW l \in Ledgers PROVE BlocksKept(l)'
  <2>1. blocks[l] \in Seq(Blocks) /\ blocks[l] # <<>> /\ Prolongs(blocks[l], blocks[l])
    BY <1>1, <1>5, ProlongsItself DEF BeforeTool, TablesOK
  <2>2. "load audit" \in Whole(l) /\ "load audit" \in Unread(l)
        /\ ("load audit" \notin Unloaded(l) => l = VoteLedger)
    BY DEF Whole, Unread, Unloaded
  <2>3. 1..Len(tool_queue') = {}
    BY <1>1, <1>3, NoRows
  <2>4. tool'.before.blocks[l] = blocks[l] /\ blocks'[l] = blocks[l]
    BY <1>3, <1>6 DEF old
  <2>5. l = VoteLedger => Len(blocks[l]) <= Len(tool_chain'[l])
    BY <1>3, <2>1
  <2>6. QED
    BY <1>2, <2>1, <2>2, <2>3, <2>4, <2>5 DEF BlocksKept
<1>10. UsersKept'
  <2>1. users = [u \in DOMAIN users |-> users[u]]
    BY <1>5 DEF TablesOK
  <2>2. tool'.pc \notin UsersGone /\ tool'.users = {} /\ tool'.created = {}
    BY <1>1, <1>2 DEF UsersGone, BeforeTool
  <2>3. QED
    BY <1>1, <1>3, <1>6, <2>1, <2>2 DEF UsersKept, BeforeTool, old
<1>11. VotesKept'
  <2>1. tool'.pc \notin VotesGone
    BY <1>2 DEF VotesGone, UsersGone
  <2>2. QED
    BY <1>1, <1>3, <1>6, <2>1 DEF VotesKept, BeforeTool, old
<1>12. SettingsKept'
  BY <1>2, <1>3, <1>5, <1>6 DEF SettingsKept, TablesOK, old
<1>13. Undisturbed' => Reversible'
  BY <1>1, <1>7, <1>8, <1>9, <1>10, <1>11, <1>12 DEF Reversible
<1>14. QED
  BY <1>1, <1>2, <1>4, <1>13 DEF CleanInv

(***************************************************************************)
(* What a step leaves alone.                                               *)
(***************************************************************************)
\* The tables found, and what the tool has found out, remain in its variables.
SameRun ==
    /\ tool.pc \notin {"load vote", "failed"} /\ tool'.pc # "load vote"
    /\ tool'.before = tool.before /\ tool'.after = tool.after
    /\ tool.spoilt => tool'.spoilt

LEMMA CleanStays ==
    ASSUME CleanInv, SameRun, DOMAIN tool'.max = Ledgers, tool.users \subseteq tool'.users,
           req' = req, queue' = queue,
           Undisturbed /\ Reversible /\ ~tool'.spoilt /\ tool'.pc # "failed" =>
              /\ \A l \in Ledgers : BlocksKept(l)'
              /\ UsersKept' /\ VotesKept' /\ SettingsKept'
    PROVE  CleanInv'
<1>1. Undisturbed' => Undisturbed /\ ~tool'.spoilt
  BY DEF Undisturbed, Alone, SameRun
<1>2. Reversible => Snapshot' /\ queue' = <<>>
  BY DEF Reversible, Snapshot, SameRun
<1>3. tool'.pc # "failed" /\ Undisturbed' => Reversible'
  BY <1>1, <1>2 DEF CleanInv, SameRun, Reversible
<1>4. QED
  BY <1>3 DEF CleanInv, SameRun

LEMMA BlocksStay ==
    ASSUME SameRun, NEW l \in Ledgers, BlocksKept(l), blocks'[l] = blocks[l],
           tool_chain'[l] = tool_chain[l], tool_queue' = tool_queue,
           tool'.max[l] = tool.max[l],
           tool'.pc \in Whole(l) => tool.pc \in Whole(l),
           tool.pc \in Unread(l) => tool'.pc \in Unread(l),
           tool.pc \in Unloaded(l) => tool'.pc \in Unloaded(l)
    PROVE  BlocksKept(l)'
BY DEF BlocksKept, SameRun

LEMMA UsersStay ==
    ASSUME SameRun, UsersKept, users' = users, tool'.users = tool.users,
           tool'.created = tool.created,
           tool'.pc \in UsersGone <=> tool.pc \in UsersGone
    PROVE  UsersKept'
<1>1. LeftBehind' = LeftBehind
  BY DEF LeftBehind
<1>2. tool'.before.users = tool.before.users
  BY DEF SameRun
<1>3. tool.pc \in UsersGone => users' = WithFresh(tool'.before.users, LeftBehind')
  BY <1>1, <1>2 DEF UsersKept
<1>4. QED
  BY <1>2, <1>3 DEF UsersKept

\* Without the users the tool knows of: those there were, and those left behind.
LEMMA UsersLeft ==
    ASSUME ValidationInv, UsersKept, tool.pc \notin UsersGone
    PROVE  [u \in DOMAIN users \ tool.users |-> users[u]]
               = WithFresh(tool.before.users, LeftBehind)
<1> DEFINE old == tool.before.users
           rest == DOMAIN users \ tool.users
<1>1. /\ old = [u \in DOMAIN old |-> users[u]]
      /\ DOMAIN users = DOMAIN old \cup tool.created
  BY DEF UsersKept
<1>2. rest = DOMAIN old \cup LeftBehind /\ \A u \in LeftBehind : users[u] = NewRow
  <2>1. DOMAIN old \cap tool.created = {}
    BY DEF UsersKept, ValidationInv, ToolOK
  <2>2. CASE tool.users = {}
    BY <1>1, <2>2 DEF UsersKept, LeftBehind
  <2>3. CASE tool.users # {}
    BY <1>1, <2>1, <2>3 DEF UsersKept, LeftBehind
  <2>4. QED
    BY <2>2, <2>3
<1>3. \A u \in rest : users[u] = IF u \in LeftBehind THEN NewRow ELSE old[u]
  BY <1>1, <1>2
<1>4. WithFresh(old, LeftBehind)
          = [u \in DOMAIN old \cup LeftBehind |-> IF u \in LeftBehind THEN NewRow ELSE old[u]]
  BY DEF WithFresh, NewRow
<1> HIDE DEF old, rest
<1>5. [u \in rest |-> users[u]] = [u \in rest |-> IF u \in LeftBehind THEN NewRow ELSE old[u]]
  BY <1>3
<1>6. QED
  BY <1>2, <1>4, <1>5 DEF old, rest

LEMMA VotesStay ==
    ASSUME SameRun, VotesKept, votes' = votes, tool.users \subseteq tool'.users,
           tool'.pc \in VotesGone => tool.pc \in VotesGone
    PROVE  VotesKept'
BY DEF VotesKept, SameRun

Untouched == {"load audit", "max vote", "max audit", "setting"}

LEMMA SettingsStay ==
    ASSUME SameRun, SettingsKept, settings' = settings, tool'.previous = tool.previous,
           tool'.pc \in Untouched \cup {"done"} => tool.pc \in Untouched \cup {"done"},
           tool.pc \in Untouched => tool'.pc \in Untouched
    PROVE  SettingsKept'
BY DEF SettingsKept, SameRun, Untouched

(***************************************************************************)
(* The steps of the tool's own.                                            *)
(***************************************************************************)
\* The program points from the reading of the status to the clean-up, and those
\* at which the status read is yet to be restored.
Middle  == {"setting", "ensure", "open", "create", "choose", "vote", "post",
            "delete vote blocks"}
Running == (Middle \ {"setting"})
               \cup {"delete audit blocks", "delete votes", "delete users", "restore"}

LEMMA MiddlePoints ==
    ASSUME NEW pc \in Middle
    PROVE  /\ \A l \in Ledgers : pc \notin Whole(l) /\ pc \notin Unread(l) /\ pc \notin Unloaded(l)
           /\ pc \notin UsersGone /\ pc \notin VotesGone
           /\ pc # "load vote" /\ pc # "failed"
BY DEF Middle, Whole, Unread, Unloaded, AuditGone, VotingGone, VotesGone, UsersGone

LEMMA MiddleKept ==
    ASSUME SameRun, UNCHANGED <<blocks, tool_chain, tool_queue>>, tool'.max = tool.max,
           tool.pc \in Middle, tool'.pc \in Middle, Reversible
    PROVE  /\ \A l \in Ledgers : BlocksKept(l)'
           /\ UNCHANGED users /\ tool'.users = tool.users /\ tool'.created = tool.created
                 => UsersKept'
           /\ UNCHANGED votes /\ tool.users \subseteq tool'.users => VotesKept'
<1>1. ASSUME NEW l \in Ledgers PROVE BlocksKept(l)'
  BY MiddlePoints, BlocksStay DEF Reversible
<1>2. QED
  BY <1>1, MiddlePoints, UsersStay, VotesStay DEF Reversible

LEMMA SettingsRunning ==
    ASSUME SameRun, SettingsKept, tool'.previous = tool.previous,
           tool.pc \in Running, tool'.pc \in Running
    PROVE  SettingsKept'
<1>1. \A pc \in Running : pc \notin {"load audit", "max vote", "max audit", "setting", "done"}
  BY DEF Running, Middle
<1>2. QED
  BY <1>1 DEF SettingsKept, SameRun

\* The tables at the points before.
LEMMA EarlyKept ==
    ASSUME SameRun, UNCHANGED <<users, votes, settings>>, Reversible,
           tool'.users = tool.users, tool'.created = tool.created,
           tool'.previous = tool.previous,
           tool.pc \in Untouched, tool'.pc \in Untouched
    PROVE  UsersKept' /\ VotesKept' /\ SettingsKept'
<1>1. \A pc \in Untouched : pc \notin UsersGone /\ pc \notin VotesGone
  BY DEF Untouched, UsersGone, VotesGone
<1>2. QED
  BY <1>1, UsersStay, VotesStay, SettingsStay DEF Reversible

LEMMA LoadAuditClean ==
    ASSUME ValidationInv, ServerOK, CleanInv, OwnOnly,
           LoadChain(AuditLedger, "load audit", "max vote")
    PROVE  CleanInv'
<1>1. tool.pc = "load audit" /\ UNCHANGED <<queue, req>>
  BY DEF LoadChain, At, OwnOnly, memory
<1>2. /\ tool'.pc = "max vote" /\ tool'.max = tool.max /\ tool'.users = tool.users
      /\ tool'.created = tool.created
      /\ tool'.previous = tool.previous /\ SameRun
  BY <1>1 DEF LoadChain, ValidationInv, ToolOK, SameRun
<1>3. ASSUME Reversible
      PROVE  (\A l \in Ledgers : BlocksKept(l)') /\ UsersKept' /\ VotesKept' /\ SettingsKept'
  <2>1. AuditLedger \in Ledgers /\ \A l \in Ledgers : l # AuditLedger => l = VoteLedger
    BY DEF Ledgers
  <2>2. /\ tool.pc \in Whole(AuditLedger) /\ tool'.pc \in Whole(AuditLedger)
        /\ tool'.pc \in Unread(AuditLedger)
    BY <1>1, <1>2 DEF Whole, Unread, AuditLedger, VoteLedger, AuditGone, VotesGone, UsersGone
  <2>3. /\ tool.pc \in Whole(VoteLedger) /\ tool'.pc \in Unread(VoteLedger)
        /\ tool.pc \notin Unloaded(VoteLedger)
    BY <1>1, <1>2 DEF Whole, Unread, Unloaded, AuditGone, VotingGone, VotesGone, UsersGone
  <2>4. blocks[AuditLedger] # <<>> /\ blocks[AuditLedger] = tool.before.blocks[AuditLedger]
    BY <1>3, <2>1, <2>2 DEF Reversible, BlocksKept
  <2>5. /\ blocks' = blocks /\ UNCHANGED <<users, votes, settings, tool_queue>>
        /\ Len(blocks[AuditLedger]) <= Len(tool_chain'[AuditLedger])
        /\ \A m \in Ledgers : m # AuditLedger => tool_chain'[m] = tool_chain[m]
    BY <2>1, <2>4, Loaded
  <2>6. BlocksKept(AuditLedger)'
    BY <1>2, <1>3, <2>1, <2>2, <2>4, <2>5 DEF Reversible, BlocksKept, SameRun
  <2>7. VoteLedger \in Ledgers /\ VoteLedger # AuditLedger
    BY DEF Ledgers, VoteLedger, AuditLedger
  <2>8. BlocksKept(VoteLedger)'
    BY <1>2, <1>3, <2>3, <2>5, <2>7, BlocksStay DEF Reversible
  <2>9. tool.pc \in Untouched /\ tool'.pc \in Untouched
    BY <1>1, <1>2 DEF Untouched
  <2>10. QED
    BY <1>2, <1>3, <2>1, <2>5, <2>6, <2>8, <2>9, EarlyKept
<1>4. QED
  BY <1>1, <1>2, <1>3, CleanStays DEF CleanInv

LEMMA ReadMaxClean ==
    ASSUME ValidationInv, ServerOK, CleanInv, OwnOnly,
           \/ ReadMax(VoteLedger, "max vote", "max audit")
           \/ ReadMax(AuditLedger, "max audit", "setting")
    PROVE  CleanInv'
<1>1. PICK l \in Ledgers :
          /\ tool'.max = [tool.max EXCEPT ![l] = GetTableMaxIndex(l)]
          /\ \/ l = VoteLedger /\ tool.pc = "max vote" /\ tool'.pc = "max audit"
             \/ l = AuditLedger /\ tool.pc = "max audit" /\ tool'.pc = "setting"
          /\ tool'.users = tool.users /\ tool'.created = tool.created
          /\ tool'.previous = tool.previous
          /\ tool'.before = tool.before /\ tool'.after = tool.after /\ tool'.spoilt = tool.spoilt
  BY DEF ReadMax, At, Ledgers, ValidationInv, ToolOK
<1>2. SameRun /\ tool.pc \in Untouched /\ tool'.pc \in Untouched
  BY <1>1 DEF SameRun, Untouched
<1>3. UNCHANGED <<queue, req, blocks, users, votes, settings, tool_chain, tool_queue>>
  BY DEF ReadMax, OwnOnly, memory, db
<1>4. /\ tool.pc \in Whole(l) /\ tool.pc \notin Unloaded(l) /\ tool.pc \in Unread(l)
      /\ \A m \in Ledgers : m # l =>
            /\ tool'.pc \in Whole(m) => tool.pc \in Whole(m)
            /\ tool.pc \in Unread(m) => tool'.pc \in Unread(m)
            /\ tool.pc \notin Unloaded(m)
  BY <1>1 DEF Ledgers, VoteLedger, AuditLedger, Whole, Unread, Unloaded, AuditGone, VotingGone,
     VotesGone, UsersGone
<1>5. DOMAIN tool.max = Ledgers
  BY DEF CleanInv
<1>6. ASSUME Reversible, Undisturbed
      PROVE  (\A m \in Ledgers : BlocksKept(m)') /\ UsersKept' /\ VotesKept' /\ SettingsKept'
  <2> DEFINE old == tool.before.blocks[l]
  <2>1. old \in Seq(Blocks) /\ old # <<>> /\ blocks[l] = old /\ InOrder(old)
    BY <1>4, <1>6 DEF Reversible, Snapshot, BlocksKept, Undisturbed
  <2>2. GetTableMaxIndex(l) = Len(old) - 1
    BY <2>1, HighestIndex
  <2>3. tool'.max[l] = Len(old) - 1 /\ \A m \in Ledgers : m # l => tool'.max[m] = tool.max[m]
    BY <1>1, <1>5, <2>2
  <2>4. BlocksKept(l)'
    BY <1>2, <1>3, <1>4, <1>6, <2>1, <2>3 DEF Reversible, BlocksKept, SameRun
  <2>5. ASSUME NEW m \in Ledgers, m # l PROVE BlocksKept(m)'
    BY <1>2, <1>3, <1>4, <1>6, <2>3, <2>5, BlocksStay DEF Reversible
  <2>6. QED
    BY <1>1, <1>2, <1>3, <1>6, <2>4, <2>5, EarlyKept
<1>7. DOMAIN tool'.max = Ledgers
  BY <1>1, <1>5
<1>8. QED
  BY <1>1, <1>2, <1>3, <1>6, <1>7, CleanStays

LEMMA GotoFields ==
    ASSUME ValidationInv, NEW pc, Goto(pc)
    PROVE  /\ tool'.pc = pc /\ tool'.max = tool.max /\ tool'.previous = tool.previous
           /\ tool'.users = tool.users /\ tool'.created = tool.created
           /\ tool'.before = tool.before /\ tool'.after = tool.after
           /\ tool'.spoilt = tool.spoilt
BY DEF Goto, ValidationInv, ToolOK

\* From the reading of the status to the clean-up, users and votes aside.
LEMMA MiddleClean ==
    ASSUME ValidationInv, ServerOK, CleanInv, OwnOnly,
           ReadSetting \/ EnsureElectionOpen \/ ChooseCandidate \/ RunScenarios \/ PostMax
    PROVE  CleanInv'
<1>1. UNCHANGED <<queue, req, users, votes, blocks, tool_chain, tool_queue>>
  BY DEF ReadSetting, EnsureElectionOpen, ChooseCandidate, RunScenarios, PostMax, OwnOnly,
     memory, db
<1> DEFINE Rest == /\ tool'.max = tool.max /\ tool'.users = tool.users
                   /\ tool'.created = tool.created
                   /\ tool'.before = tool.before /\ tool'.after = tool.after
                   /\ tool'.spoilt = tool.spoilt
           Reads == /\ tool.pc = "setting" /\ tool'.pc = "ensure" /\ settings' = settings
                    /\ tool'.previous = settings.is_open
           Stays == /\ tool'.previous = tool.previous
                    /\ \/ tool.pc = "ensure" /\ tool'.pc = "create"
                       \/ tool.pc = "ensure" /\ tool'.pc = "open"
                       \/ tool.pc = "open" /\ tool'.pc = "create"
                       \/ tool.pc = "choose" /\ tool'.pc = "post"
                       \/ tool.pc = "choose" /\ tool'.pc = "vote"
                       \/ tool.pc = "vote" /\ tool'.pc = "post"
                       \/ tool.pc = "post" /\ tool'.pc = "delete vote blocks"
<1>2. Rest /\ (Reads \/ Stays)
  <2>1. CASE ReadSetting
    BY <2>1 DEF ReadSetting, At, db, ValidationInv, ToolOK
  <2>2. CASE EnsureElectionOpen
    <3>1. CASE At("ensure")
      <4>1. Goto("create") \/ Goto("open")
        BY <2>2, <3>1 DEF EnsureElectionOpen, At
      <4>2. QED
        BY <3>1, <4>1, GotoFields DEF At
    <3>2. CASE At("open") /\ Goto("create")
      BY <3>2, GotoFields DEF At
    <3>3. QED
      BY <2>2, <3>1, <3>2 DEF EnsureElectionOpen
  <2>3. CASE ChooseCandidate
    <3>1. Goto("post") \/ Goto("vote")
      BY <2>3 DEF ChooseCandidate
    <3>2. QED
      BY <2>3, <3>1, GotoFields DEF ChooseCandidate, At
  <2>4. CASE RunScenarios
    BY <2>4 DEF RunScenarios, At, ValidationInv, ToolOK
  <2>5. CASE PostMax
    BY <2>5, GotoFields DEF PostMax, At
  <2>6. QED
    BY <2>1, <2>2, <2>3, <2>4, <2>5
<1>3. tool.pc \in Middle /\ tool'.pc \in Middle
      /\ (Stays => tool.pc \in Running /\ tool'.pc \in Running)
  BY <1>2 DEF Middle, Running
<1>4. SameRun
  BY <1>2, <1>3, MiddlePoints DEF SameRun
<1>5. ASSUME Reversible
      PROVE  (\A l \in Ledgers : BlocksKept(l)') /\ UsersKept' /\ VotesKept' /\ SettingsKept'
  <2>1. (\A l \in Ledgers : BlocksKept(l)') /\ UsersKept' /\ VotesKept'
    BY <1>1, <1>2, <1>3, <1>4, <1>5, MiddleKept
  <2>2. CASE Stays
    <3>1. tool'.previous = tool.previous /\ SettingsKept
      BY <1>5, <2>2 DEF Reversible
    <3>2. tool.pc \in Running /\ tool'.pc \in Running
      BY <1>3, <2>2
    <3>3. QED
      BY <1>4, <2>1, <3>1, <3>2, SettingsRunning
  <2>3. CASE Reads
    <3>1. settings = tool.before.settings /\ tool.before.settings \in [is_open : BOOLEAN]
      BY <1>5, <2>3 DEF Reversible, SettingsKept
    <3>2. tool'.before = tool.before /\ tool'.previous = tool.before.settings.is_open
      BY <1>2, <2>3, <3>1
    <3>3. tool'.pc \notin {"load audit", "max vote", "max audit", "setting", "done"}
      BY <2>3
    <3>4. QED
      BY <2>1, <3>1, <3>2, <3>3 DEF SettingsKept
  <2>4. QED
    BY <1>2, <2>2, <2>3
<1>6. QED
  BY <1>1, <1>2, <1>4, <1>5, CleanStays DEF CleanInv

LEMMA CreateClean ==
    ASSUME ValidationInv, ServerOK, CleanInv, OwnOnly, CreateValidationUser
    PROVE  CleanInv'
<1>1. PICK u \in ValidationUsers \ DOMAIN users :
          LET created == tool.created \cup {u}
          IN  /\ users' = WithFresh(users, {u})
              /\ \/ /\ tool' = [tool EXCEPT !.created = created, !.users = InsertedUsers(created),
                                    !.pc = IF created = ValidationUsers THEN "choose" ELSE "create"]
                    /\ UNCHANGED faults
                 \/ /\ faults < MaxFaults /\ faults' = faults + 1
                    /\ tool' = [tool EXCEPT !.created = created, !.pc = "post"]
  BY DEF CreateValidationUser
<1>2. /\ UNCHANGED <<queue, req, votes, settings, blocks, tool_chain, tool_queue>>
      /\ tool.pc = "create" /\ tool.users = {}
  BY DEF CreateValidationUser, At, OwnOnly, memory, ValidationInv, ToolOK, Early
<1>3. /\ tool'.max = tool.max /\ tool'.previous = tool.previous /\ tool'.before = tool.before
      /\ tool'.after = tool.after /\ tool'.spoilt = tool.spoilt
      /\ tool'.created = tool.created \cup {u}
      /\ tool'.users = {} \/ tool'.users = tool'.created
      /\ tool'.pc \in {"choose", "create", "post"}
  <2> DEFINE created == tool.created \cup {u}
             next == IF created = ValidationUsers THEN "choose" ELSE "create"
             known == InsertedUsers(created)
  <2>1. next \in {"choose", "create"} /\ (known = {} \/ known = created)
    BY DEF InsertedUsers
  <2>2. \/ tool' = [tool EXCEPT !.created = created, !.users = known, !.pc = next]
        \/ tool' = [tool EXCEPT !.created = created, !.pc = "post"]
    BY <1>1
  <2> HIDE DEF next, known
  <2>3. DOMAIN tool = {"pc", "max", "previous", "created", "users", "report", "spoilt",
                       "before", "after"}
    BY DEF ValidationInv, ToolOK
  <2>4. CASE tool' = [tool EXCEPT !.created = created, !.users = known, !.pc = next]
    BY <2>1, <2>3, <2>4
  <2>5. CASE tool' = [tool EXCEPT !.created = created, !.pc = "post"]
    BY <1>2, <2>3, <2>5
  <2>6. QED
    BY <2>2, <2>4, <2>5
<1>4. /\ tool.pc \in Middle /\ tool'.pc \in Middle /\ tool.pc \in Running /\ tool'.pc \in Running
      /\ tool'.pc # "load vote"
  BY <1>2, <1>3 DEF Middle, Running
<1>5. SameRun /\ tool.users \subseteq tool'.users
  BY <1>2, <1>3, <1>4, MiddlePoints DEF SameRun
<1>6. ASSUME Reversible
      PROVE  (\A l \in Ledgers : BlocksKept(l)') /\ UsersKept' /\ VotesKept' /\ SettingsKept'
  <2>1. (\A l \in Ledgers : BlocksKept(l)') /\ VotesKept'
    BY <1>2, <1>3, <1>4, <1>5, <1>6, MiddleKept
  <2>2. SettingsKept'
    BY <1>3, <1>4, <1>5, <1>6, SettingsRunning DEF Reversible
  <2>3. UsersKept'
    <3> DEFINE old == tool.before.users
    <3>1. /\ DOMAIN old \cap ValidationUsers = {} /\ old = [v \in DOMAIN old |-> users[v]]
          /\ DOMAIN users = DOMAIN old \cup tool.created
          /\ \A v \in tool.created : users[v] = NewRow
      BY <1>2, <1>4, <1>6, MiddlePoints DEF Reversible, UsersKept
    <3>2. /\ DOMAIN users' = DOMAIN users \cup {u} /\ users'[u] = NewRow
          /\ \A v \in DOMAIN users : users'[v] = users[v]
      BY <1>1 DEF WithFresh, NewRow
    <3>3. [v \in DOMAIN old |-> users'[v]] = [v \in DOMAIN old |-> users[v]]
      BY <3>1, <3>2
    <3>4. \A v \in tool'.created : users'[v] = NewRow
      BY <1>3, <3>1, <3>2
    <3>5. DOMAIN users' = DOMAIN old \cup tool'.created
      BY <1>3, <3>1, <3>2
    <3>6. tool'.before.users = old /\ tool'.pc \notin UsersGone
      BY <1>3, <1>4, MiddlePoints
    <3>7. tool'.users = {} \/ tool'.users = tool'.created
      BY <1>3
    <3> HIDE DEF old
    <3>8. QED
      BY <3>1, <3>3, <3>4, <3>5, <3>6, <3>7 DEF UsersKept
  <2>4. QED
    BY <2>1, <2>2, <2>3
<1>7. QED
  BY <1>2, <1>3, <1>5, <1>6, CleanStays DEF CleanInv

\* A failure that the clean-up makes up for.
LEMMA FailsClean ==
    ASSUME ValidationInv, ServerOK, CleanInv, OwnOnly, ToolFails
    PROVE  CleanInv'
<1>1. PICK exit \in OnError :
          /\ tool.pc = exit[1]
          /\ tool' = [tool EXCEPT !.pc = exit[2], !.spoilt = @ \/ exit[1] \in Costly]
  BY DEF ToolFails
<1>2. /\ UNCHANGED <<queue, req, users, votes, settings, blocks, tool_chain, tool_queue>>
  BY DEF ToolFails, OwnOnly, memory, db
<1>3. /\ tool'.pc = exit[2] /\ tool'.max = tool.max /\ tool'.previous = tool.previous
      /\ tool'.users = tool.users /\ tool'.created = tool.created
      /\ tool'.before = tool.before /\ tool'.after = tool.after
      /\ tool'.spoilt = (tool.spoilt \/ exit[1] \in Costly)
  BY <1>1 DEF ValidationInv, ToolOK
<1>4. \/ tool.pc \in {"ensure", "open", "create", "choose"} /\ tool'.pc = "post"
      \/ tool.pc \in Costly
      \/ tool'.pc = "failed"
  <2>1. \/ exit[1] \in {"ensure", "open", "create", "choose"} /\ exit[2] = "post"
        \/ exit[1] \in Costly
        \/ exit[2] = "failed"
    BY DEF OnError, Costly
  <2>2. QED
    BY <1>1, <1>3, <2>1
<1>5. tool'.pc # "load vote" /\ tool.pc # "failed"
  <2>1. exit[1] # "failed"
    BY DEF OnError
  <2>2. QED
    BY <1>1, <1>3, <2>1, OnErrorExits
<1>6. CASE tool.pc = "load vote"
  <2>1. tool'.pc = "failed"
    BY <1>1, <1>3, <1>6, OnErrorExits
  <2>2. ~(tool.pc = "failed")
    BY <1>5
  <2>3. \A r \in tool'.after : r \in Clients /\ req[r] # NULL
    BY <1>3, <1>6 DEF CleanInv
  <2>4. QED
    BY <1>2, <1>3, <2>1, <2>3 DEF CleanInv
<1>7. CASE tool.pc # "load vote"
  <2>1. SameRun
    BY <1>3, <1>5, <1>7 DEF SameRun
  <2>2. ASSUME Reversible, ~tool'.spoilt, tool'.pc # "failed"
        PROVE  (\A l \in Ledgers : BlocksKept(l)') /\ UsersKept' /\ VotesKept' /\ SettingsKept'
    <3>1. tool.pc \in {"ensure", "open", "create", "choose"} /\ tool'.pc = "post"
      BY <1>1, <1>3, <1>4, <2>2
    <3>2. tool.pc \in Middle /\ tool'.pc \in Middle /\ tool.pc \in Running /\ tool'.pc \in Running
      BY <3>1 DEF Middle, Running
    <3>3. (\A l \in Ledgers : BlocksKept(l)') /\ UsersKept' /\ VotesKept'
      BY <1>2, <1>3, <2>1, <2>2, <3>2, MiddleKept
    <3>4. SettingsKept'
      BY <1>3, <2>1, <2>2, <3>2, SettingsRunning DEF Reversible
    <3>5. QED
      BY <3>3, <3>4
  <2>3. QED
    BY <1>2, <1>3, <2>1, <2>2, CleanStays DEF CleanInv
<1>8. QED
  BY <1>6, <1>7

(***************************************************************************)
(* The clean-up.                                                           *)
(***************************************************************************)
LEMMA DeleteBlocksClean ==
    ASSUME ValidationInv, ServerOK, CleanInv, OwnOnly,
           \/ DeleteBlocksAfter(VoteLedger, "delete vote blocks", "delete audit blocks")
           \/ DeleteBlocksAfter(AuditLedger, "delete audit blocks", AfterBlocks)
    PROVE  CleanInv'
<1>1. PICK l \in Ledgers :
          /\ blocks' = [blocks EXCEPT ![l] = NotBehind(@, tool.max[l])]
          /\ \/ /\ l = VoteLedger
                /\ tool.pc = "delete vote blocks" /\ Goto("delete audit blocks")
             \/ /\ l = AuditLedger
                /\ tool.pc = "delete audit blocks" /\ Goto(AfterBlocks)
  BY DEF DeleteBlocksAfter, At, Ledgers, NotBehind
<1>2. /\ \/ /\ l = VoteLedger
            /\ tool.pc = "delete vote blocks" /\ tool'.pc = "delete audit blocks"
         \/ /\ l = AuditLedger
            /\ tool.pc = "delete audit blocks" /\ tool'.pc = AfterBlocks
      /\ tool'.max = tool.max /\ tool'.previous = tool.previous /\ tool'.users = tool.users
      /\ tool'.created = tool.created
      /\ tool'.before = tool.before /\ tool'.after = tool.after /\ tool'.spoilt = tool.spoilt
  BY <1>1, GotoFields
<1>3. UNCHANGED <<queue, req, users, votes, settings, tool_chain, tool_queue>>
  BY DEF DeleteBlocksAfter, OwnOnly, memory
<1>4. /\ SameRun /\ tool.pc \in Running /\ tool'.pc \in Running
  BY <1>2 DEF SameRun, Running, Middle, AfterBlocks
<1>5. /\ tool.pc \notin UsersGone
      /\ \/ tool'.pc \notin UsersGone /\ tool'.pc \notin VotesGone
         \/ tool'.pc \in UsersGone /\ tool.users = {}
      /\ \A m \in Ledgers : /\ tool.pc \notin Unread(m) /\ tool'.pc \notin Unread(m)
                            /\ tool.pc \notin Unloaded(m) /\ tool'.pc \notin Unloaded(m)
                            /\ m # l /\ tool'.pc \in Whole(m) => tool.pc \in Whole(m)
  BY <1>2 DEF Ledgers, VoteLedger, AuditLedger, Whole, Unread, Unloaded, AuditGone, VotingGone,
     VotesGone, UsersGone, AfterBlocks
<1>6. blocks \in [Ledgers -> Seq(Blocks)]
  BY DEF ServerOK, TypeInv, TypeOK, TablesOK
<1>7. ASSUME Reversible, Undisturbed
      PROVE  (\A m \in Ledgers : BlocksKept(m)') /\ UsersKept' /\ VotesKept' /\ SettingsKept'
  <2> DEFINE old  == tool.before.blocks[l]
             rows == blocks[l]
             max  == tool.max[l]
             left == NotBehind(rows, max)
  <2>1. /\ old \in Seq(Blocks) /\ old # <<>> /\ InOrder(old) /\ rows \in Seq(Blocks)
        /\ Prolongs(rows, old) /\ max = Len(old) - 1
    BY <1>5, <1>6, <1>7 DEF Reversible, Snapshot, BlocksKept, Undisturbed
  <2>2. blocks'[l] = left /\ \A m \in Ledgers : m # l => blocks'[m] = blocks[m]
    BY <1>1, <1>6
  <2>3. left = old
    <3> HIDE DEF old, rows, max
    <3>1. QED
      BY <2>1, CutBack
  <2> HIDE DEF left
  <2>4. Prolongs(old, old)
    BY <2>1, ProlongsItself
  <2>5. BlocksKept(l)'
    BY <1>2, <1>3, <1>4, <1>5, <1>7, <2>2, <2>3, <2>4 DEF Reversible, BlocksKept, SameRun
  <2>6. ASSUME NEW m \in Ledgers, m # l PROVE BlocksKept(m)'
    BY <1>2, <1>3, <1>4, <1>5, <1>7, <2>2, <2>6, BlocksStay DEF Reversible
  <2>7. UsersKept' /\ VotesKept'
    <3>1. CASE tool'.pc \notin UsersGone /\ tool'.pc \notin VotesGone
      BY <1>2, <1>3, <1>4, <1>5, <1>7, <3>1, UsersStay, VotesStay DEF Reversible
    <3>2. CASE tool'.pc \in UsersGone /\ tool.users = {}
      <4>1. users = WithFresh(tool.before.users, LeftBehind)
        <5>1. [u \in DOMAIN users \ tool.users |-> users[u]]
                  = WithFresh(tool.before.users, LeftBehind)
          BY <1>5, <1>7, UsersLeft DEF Reversible
        <5>2. users = [u \in DOMAIN users |-> users[u]] /\ DOMAIN users \ tool.users = DOMAIN users
          BY <3>2 DEF ServerOK, TypeInv, TypeOK, TablesOK
        <5>3. QED
          BY <5>1, <5>2
      <4>2. UsersKept'
        BY <1>2, <1>3, <1>7, <3>2, <4>1 DEF Reversible, UsersKept, LeftBehind
      <4>3. VotesKept'
        BY <1>2, <1>3, <1>7, <3>2 DEF Reversible, VotesKept
      <4>4. QED
        BY <4>2, <4>3
    <3>3. QED
      BY <1>5, <3>1, <3>2
  <2>8. SettingsKept'
    BY <1>2, <1>4, <1>7, SettingsRunning DEF Reversible
  <2>9. QED
    BY <2>5, <2>6, <2>7, <2>8
<1>8. QED
  BY <1>2, <1>3, <1>4, <1>7, CleanStays DEF CleanInv

LEMMA DeleteUsersClean ==
    ASSUME ValidationInv, ServerOK, CleanInv, OwnOnly, DeleteValidationUsers
    PROVE  CleanInv'
<1> DEFINE First == /\ tool.pc = "delete votes" /\ tool'.pc = "delete users"
                    /\ votes' = votes \ OwnVotes /\ users' = users
           Second == /\ tool.pc = "delete users" /\ tool'.pc = "restore"
                     /\ users' = [u \in DOMAIN users \ tool.users |-> users[u]]
                     /\ votes' = {v \in votes : v.user \notin tool.users}
<1>1. /\ First \/ Second
      /\ tool'.max = tool.max /\ tool'.previous = tool.previous /\ tool'.users = tool.users
      /\ tool'.created = tool.created
      /\ tool'.before = tool.before /\ tool'.after = tool.after /\ tool'.spoilt = tool.spoilt
  BY GotoFields DEF DeleteValidationUsers, At
<1>2. UNCHANGED <<queue, req, blocks, settings, tool_chain, tool_queue>>
  BY DEF DeleteValidationUsers, OwnOnly, memory
<1>3. SameRun /\ tool.pc \in Running /\ tool'.pc \in Running
  BY <1>1 DEF SameRun, Running, Middle
<1>4. ASSUME NEW l \in Ledgers
      PROVE  /\ tool.pc \notin Unread(l) /\ tool.pc \notin Unloaded(l) /\ tool.pc \in Whole(l)
  BY <1>1 DEF Whole, Unread, Unloaded, AuditGone, VotingGone, VotesGone, UsersGone
<1>5. /\ tool.pc \notin UsersGone /\ tool'.pc \in VotesGone
      /\ tool'.pc \in UsersGone => Second
      /\ Second => tool.pc \in VotesGone /\ tool'.pc \in UsersGone
  BY <1>1 DEF VotesGone, UsersGone
<1>6. ASSUME Reversible
      PROVE  (\A l \in Ledgers : BlocksKept(l)') /\ UsersKept' /\ VotesKept' /\ SettingsKept'
  <2>1. tool.users \subseteq ValidationUsers
    BY DEF ValidationInv, ToolOK
  <2>2. \A l \in Ledgers : BlocksKept(l)'
    BY <1>1, <1>2, <1>3, <1>4, <1>6, BlocksStay DEF Reversible
  <2>3. SettingsKept'
    BY <1>1, <1>3, <1>6, SettingsRunning DEF Reversible
  <2>4. VotesKept'
    <3> DEFINE old == tool.before.votes
    <3>1. /\ old \subseteq votes /\ \A v \in old : v.user \notin ValidationUsers
          /\ \A v \in votes : v \in old \/ v.user \in tool.users
      BY <1>6 DEF Reversible, VotesKept
    <3>2. \A v \in votes : v \in votes' <=> v.user \notin tool.users
      BY <1>1 DEF OwnVotes
    <3>3. votes' \subseteq votes
      BY <1>1
    <3> HIDE DEF First, Second
    <3>4. votes' = old
      BY <2>1, <3>1, <3>2, <3>3
    <3>5. tool'.before.votes = old
      BY <1>1
    <3> HIDE DEF old
    <3>6. QED
      BY <3>1, <3>4, <3>5 DEF VotesKept
  <2>5. UsersKept'
    <3>1. CASE First
      <4>1. tool'.pc \notin UsersGone
        BY <3>1 DEF UsersGone
      <4>2. QED
        BY <1>1, <1>3, <1>5, <1>6, <3>1, <4>1, UsersStay DEF Reversible
    <3>2. CASE Second
      <4>1. users' = WithFresh(tool.before.users, LeftBehind)
        BY <1>5, <1>6, <3>2, UsersLeft DEF Reversible
      <4> DEFINE old == tool.before.users
      <4>2. DOMAIN old \cap ValidationUsers = {} /\ old = [v \in DOMAIN old |-> users[v]]
            /\ (tool.users = {} \/ tool.users = tool.created)
        BY <1>6 DEF Reversible, UsersKept
      <4>3. LeftBehind \subseteq ValidationUsers
        BY DEF LeftBehind, ValidationInv, ToolOK
      <4>4. \A v \in DOMAIN old : users'[v] = old[v]
        BY <4>1, <4>2, <4>3 DEF WithFresh
      <4>5. old = [v \in DOMAIN old |-> users'[v]]
        BY <4>2, <4>4
      <4>6. /\ tool'.before.users = old /\ tool'.pc \in UsersGone
            /\ tool'.users = tool.users /\ tool'.created = tool.created
        BY <1>1, <1>5, <3>2
      <4>7. users' = WithFresh(old, LeftBehind')
        BY <4>1, <4>6 DEF LeftBehind
      <4> HIDE DEF old, First, Second
      <4>8. QED
        BY <4>2, <4>5, <4>6, <4>7 DEF UsersKept
    <3>3. QED
      BY <1>1, <3>1, <3>2
  <2>6. QED
    BY <2>2, <2>3, <2>4, <2>5
<1>7. QED
  BY <1>1, <1>2, <1>3, <1>6, CleanStays DEF CleanInv

LEMMA RestoreClean ==
    ASSUME ValidationInv, ServerOK, CleanInv, OwnOnly, RestoreElectionSetting
    PROVE  CleanInv'
<1>1. /\ tool.pc = "restore" /\ tool'.pc = "done"
      /\ tool'.max = tool.max /\ tool'.previous = tool.previous /\ tool'.users = tool.users
      /\ tool'.created = tool.created
      /\ tool'.before = tool.before /\ tool'.after = tool.after /\ tool'.spoilt = tool.spoilt
      /\ settings' = IF tool.previous = NULL THEN <<>> ELSE [is_open |-> tool.previous]
  BY GotoFields DEF RestoreElectionSetting, At
<1>2. UNCHANGED <<queue, req, blocks, users, votes, tool_chain, tool_queue>>
  BY DEF RestoreElectionSetting, OwnOnly, memory
<1>3. SameRun
  BY <1>1 DEF SameRun
<1>4. /\ tool.pc \in UsersGone /\ tool.pc \in VotesGone /\ tool'.pc \in UsersGone
      /\ \A l \in Ledgers :
            /\ tool.pc \notin Unread(l) /\ tool.pc \notin Unloaded(l) /\ tool.pc \in Whole(l)
  BY <1>1 DEF Whole, Unread, Unloaded, AuditGone, VotingGone, VotesGone, UsersGone
<1>5. ASSUME Reversible
      PROVE  (\A l \in Ledgers : BlocksKept(l)') /\ UsersKept' /\ VotesKept' /\ SettingsKept'
  <2>1. \A l \in Ledgers : BlocksKept(l)'
    BY <1>1, <1>2, <1>3, <1>4, <1>5, BlocksStay DEF Reversible
  <2>2. UsersKept' /\ VotesKept'
    BY <1>1, <1>2, <1>3, <1>4, <1>5, UsersStay, VotesStay DEF Reversible
  <2>3. SettingsKept'
    <3> DEFINE old == tool.before.settings
    <3>1. old \in [is_open : BOOLEAN] /\ tool.previous = old.is_open
      BY <1>1, <1>5 DEF Reversible, SettingsKept
    <3>2. tool.previous # NULL
      BY <3>1, ValidationAssumption
    <3>3. settings' = [is_open |-> old.is_open]
      BY <1>1, <3>1, <3>2
    <3>4. settings' = old
      BY <3>1, <3>3
    <3>5. tool'.before.settings = old /\ tool'.previous = old.is_open
      BY <1>1, <3>1
    <3> HIDE DEF old
    <3>6. QED
      BY <3>1, <3>4, <3>5 DEF SettingsKept
  <2>4. QED
    BY <2>1, <2>2, <2>3
<1>6. QED
  BY <1>1, <1>2, <1>3, <1>5, CleanStays DEF CleanInv

(***************************************************************************)
(* The votes of the tool.                                                  *)
(***************************************************************************)
LEMMA VoteStays ==
    ASSUME CleanInv, tool.pc = "vote", tool' = tool, queue' = queue,
           \A r \in Clients : req'[r] = req[r],
           \A r \in ValidationVotes : req'[r] # NULL => req'[r].user \in tool.users,
           Undisturbed /\ Reversible =>
              /\ \A l \in Ledgers : BlocksKept(l)'
              /\ UsersKept' /\ VotesKept' /\ SettingsKept'
    PROVE  CleanInv'
<1>1. Undisturbed' => Undisturbed
  BY DEF Undisturbed, Alone
<1>2. Reversible => Snapshot' /\ queue' = <<>>
  BY DEF Reversible, Snapshot
<1>3. Undisturbed' => Reversible'
  BY <1>1, <1>2 DEF CleanInv, Reversible
<1>4. QED
  BY <1>3 DEF CleanInv

LEMMA NextVoteClean ==
    ASSUME ValidationInv, CleanInv, CastNextVote
    PROVE  CleanInv'
<1>1. PICK r \in ValidationVotes, u \in tool.users :
          /\ req' = [req EXCEPT ![r] = Input("castVote", u, FirstCandidate, NULL)]
          /\ tool_queue' = <<Query(r, "SELECT settings", NULL)>>
  BY DEF CastNextVote
<1> DEFINE input == Input("castVote", u, FirstCandidate, NULL)
           q == Query(r, "SELECT settings", NULL)
<1>2. /\ UNCHANGED <<users, votes, settings, blocks, queue, tool_chain, tool>>
      /\ tool.pc = "vote"
  BY DEF CastNextVote, At, memory, db
<1>3. input.user = u /\ q.stmt = "SELECT settings"
  BY DEF Input, Query
<1>4. req' = [req EXCEPT ![r] = input] /\ tool_queue' = <<q>>
  BY <1>1
<1> HIDE DEF input, q
<1>5. /\ \A s \in Clients : req'[s] = req[s]
      /\ \A s \in ValidationVotes : req'[s] = req[s] \/ req'[s] = input
  BY <1>4 DEF Clients
<1>6. \A s \in ValidationVotes : req'[s] # NULL => req'[s].user \in tool.users
  BY <1>3, <1>5 DEF CleanInv
<1>7. \A i \in 1..Len(tool_queue') : tool_queue'[i] = q
  <2>1. \A i \in 1..Len(<<q>>) : <<q>>[i] = q
    BY OnlyElement
  <2>2. QED
    BY <1>4, <2>1
<1>8. \A l \in Ledgers : q.stmt # InsertBlockStmt(l)
  BY <1>3 DEF InsertBlockStmt
<1>9. ASSUME Reversible
      PROVE  (\A l \in Ledgers : BlocksKept(l)') /\ UsersKept' /\ VotesKept' /\ SettingsKept'
  <2>1. \A l \in Ledgers : BlocksKept(l)'
    BY <1>2, <1>7, <1>8, <1>9 DEF Reversible, BlocksKept
  <2>2. UsersKept' /\ VotesKept' /\ SettingsKept'
    <3>1. LeftBehind' = LeftBehind
      BY <1>2 DEF LeftBehind
    <3>2. QED
      BY <1>2, <1>9, <3>1 DEF Reversible, UsersKept, VotesKept, SettingsKept
  <2>3. QED
    BY <2>1, <2>2
<1>10. QED
  BY <1>2, <1>5, <1>6, <1>9, VoteStays

\* A statement of castVote writes the rows of the voter, and appends.
LEMMA CastPerforms ==
    ASSUME TypeInv, NEW q, q \in Queries, q.stmt \in CastStatements,
           req[q.req].op = "castVote", Perform(q), NEW u, u = req[q.req].user
    PROVE  /\ settings' = settings
           /\ DOMAIN users' = DOMAIN users
           /\ \A v \in DOMAIN users : v # u => users'[v] = users[v]
           /\ votes \subseteq votes'
           /\ \A v \in votes' : v \in votes \/ v.user = u
           /\ \A l \in Ledgers :
                 \/ blocks'[l] = blocks[l]
                 \/ /\ q.stmt = InsertBlockStmt(l) /\ q.block \in Blocks
                    /\ blocks'[l] = Append(blocks[l], q.block)
<1>1. q.stmt \notin {"DELETE votes", "DELETE users", "DELETE blockchain", "SET is_open",
                     "CLEAR is_open", "CLEAR sudah_vote"}
  BY DEF CastStatements, Checks, InsertBlockStmt
<1>2. settings' = settings
  BY <1>1 DEF Perform, Read, InsertVote, DeleteVotes, UpdateFlag, UpdateKeys, DeleteUser,
     UpdateIsOpen, SaveBlock, DeleteBlocks, InsertAuditLog, db
<1>3. DOMAIN users' = DOMAIN users
  BY <1>1, PerformVotes
<1>4. \A v \in DOMAIN users : v # u => users'[v] = users[v]
  <2>1. Scope(q.req) = {u}
    BY DEF Scope
  <2>2. CASE UpdateFlag(q)
    BY <2>1, <2>2 DEF UpdateFlag
  <2>3. CASE UpdateKeys(q)
    BY <2>3 DEF UpdateKeys
  <2>4. CASE ~UpdateFlag(q) /\ ~UpdateKeys(q)
    <3>1. users' = users
      BY <1>1, <2>4 DEF Perform, Read, InsertVote, DeleteVotes, DeleteUser,
         UpdateIsOpen, SaveBlock, DeleteBlocks, InsertAuditLog, db
    <3>2. QED
      BY <3>1
  <2>5. QED
    BY <2>2, <2>3, <2>4
<1>5. votes \subseteq votes' /\ \A v \in votes' : v \in votes \/ v.user = u
  <2> DEFINE w == [req |-> q.req, user |-> req[q.req].user, candidate |-> req[q.req].candidate]
  <2>1. w.user = u
    OBVIOUS
  <2>2. /\ q.stmt = "INSERT votes" => votes' = votes \cup {w}
        /\ q.stmt # "INSERT votes" => votes' = votes
    BY <1>1, PerformVotes
  <2> HIDE DEF w
  <2>3. QED
    BY <2>1, <2>2
<1>6. ASSUME NEW l \in Ledgers
      PROVE  \/ blocks'[l] = blocks[l]
             \/ /\ q.stmt = InsertBlockStmt(l) /\ q.block \in Blocks
                /\ blocks'[l] = Append(blocks[l], q.block)
  <2>1. q.stmt = InsertBlockStmt(l) => q.block \in Blocks
    BY DEF Queries, Statements, InsertBlockStmt
  <2>2. QED
    BY <1>1, <2>1, TableWrites
<1>7. QED
  BY <1>2, <1>3, <1>4, <1>5, <1>6

\* A block is stored with an index behind the rows that were there.
Numbered(q, l, n) == q.stmt = InsertBlockStmt(l) => q.block.index >= n

LEMMA OwnInsert ==
    ASSUME NEW l \in Ledgers, NEW m \in Ledgers, m # l
    PROVE  InsertBlockStmt(m) # InsertBlockStmt(l)
<1>1. (m = VoteLedger /\ l = AuditLedger) \/ (m = AuditLedger /\ l = VoteLedger)
  BY DEF Ledgers
<1>2. AuditLedger # VoteLedger
  BY DEF AuditLedger, VoteLedger
<1>3. QED
  BY <1>1, <1>2 DEF InsertBlockStmt

\* What castVote adds to a chain gets its length for an index.
LEMMA ToolNumbers ==
    ASSUME ValidationInv, ServerOK, ToolVoteTurn, NEW l \in Ledgers, NEW n \in Nat,
           n <= Len(tool_chain[l]), \A i \in 1..Len(tool_queue) : Numbered(tool_queue[i], l, n)
    PROVE  /\ n <= Len(tool_chain'[l])
           /\ \A i \in 1..Len(tool_queue') : Numbered(tool_queue'[i], l, n)
<1> DEFINE r == Head(tool_queue).req
<1>1. /\ tool_queue # <<>> /\ tool_queue \in Seq(Queries) /\ r \in Requests
      /\ tool_chain \in [Ledgers -> Seq(Blocks)]
      /\ ToolAnswers(r) \/ ToolProceeds(r) \/ ToolAdds(r)
      /\ Head(tool_queue) \in Queries
  BY ToolHead DEF ToolVoteTurn, ToolTurn, ValidationInv, ToolMemory
<1> DEFINE Goal == /\ n <= Len(tool_chain'[l])
                   /\ \E qs \in Seq(Queries) : /\ ToolIssues(qs)
                                               /\ \A j \in 1..Len(qs) : Numbered(qs[j], l, n)
<1>2. ASSUME NEW q \in Queries, Numbered(q, l, n), ToolIssues(<<q>>), n <= Len(tool_chain'[l])
      PROVE  Goal
  <2>1. <<q>> \in Seq(Queries) /\ \A j \in 1..Len(<<q>>) : Numbered(<<q>>[j], l, n)
    BY <1>2, OnlyElement
  <2>2. QED
    BY <1>2, <2>1
<1> HIDE DEF r
<1>3. ASSUME ToolAnswers(r)
      PROVE  Goal
  <2>1. <<>> \in Seq(Queries) /\ 1..Len(<<>>) = {}
    BY EmptySeq
  <2>2. QED
    BY <1>3, <2>1 DEF ToolAnswers
<1>4. ASSUME ToolProceeds(r)
      PROVE  Goal
  <2>1. PICK stmt \in Checks, block \in Blocks \cup {NULL} : ToolIssues(<<Query(r, stmt, block)>>)
    <3>1. "INSERT audit_logs" \in Checks /\ Head(tool_queue).block \in Blocks \cup {NULL}
      BY <1>1 DEF Checks, Queries
    <3>2. QED
      BY <1>4, <3>1 DEF ToolProceeds
  <2> DEFINE q == Query(r, stmt, block)
  <2>2. q \in Queries /\ q.stmt = stmt
    BY <1>1, QueryType DEF Query, Checks, Statements
  <2>3. stmt # InsertBlockStmt(l)
    BY DEF Checks, InsertBlockStmt
  <2>4. tool_chain' = tool_chain /\ ToolIssues(<<q>>)
    BY <1>4, <2>1 DEF ToolProceeds
  <2> HIDE DEF q
  <2>5. Numbered(q, l, n)
    BY <2>2, <2>3 DEF Numbered
  <2>6. QED
    BY <1>2, <2>2, <2>4, <2>5
<1>5. ASSUME ToolAdds(r)
      PROVE  Goal
  <2> DEFINE Added(m, data, key) ==
          LET b      == NewBlock(tool_chain[m], r, data, key)
              insert == Query(r, InsertBlockStmt(m), b)
          IN  /\ \/ m = VoteLedger /\ data = VoteData(r) /\ key = SigningKey(r)
                 \/ m = AuditLedger /\ data = AuditData(r) /\ key = SystemKey
              /\ tool_chain' = [tool_chain EXCEPT ![m] = Append(@, b)]
              /\ \/ ToolIssues(<<insert>>)
                 \/ ToolIssues(<<Query(r, "UPDATE keys", NULL), insert>>)
  <2>1. PICK m \in Ledgers : \E data, key : Added(m, data, key)
    BY <1>5 DEF ToolAdds
  <2>2. PICK data, key : Added(m, data, key)
    BY <2>1
  <2> DEFINE b == NewBlock(tool_chain[m], r, data, key)
             insert == Query(r, InsertBlockStmt(m), b)
             update == Query(r, "UPDATE keys", NULL)
  <2>3. b \in Blocks /\ data \in Data /\ key \in KeyPairs
    BY <1>1, <2>2, ToolBlockType DEF r
  <2>4. b.index = Len(tool_chain[m])
    BY <2>3, NewBlockOn DEF NewOn
  <2>5. /\ tool_chain' = [tool_chain EXCEPT ![m] = Append(@, b)]
        /\ ToolIssues(<<insert>>) \/ ToolIssues(<<update, insert>>)
    BY <2>2
  <2> HIDE DEF b
  <2>6. /\ insert \in Queries /\ insert.stmt = InsertBlockStmt(m) /\ insert.block = b
    BY <1>1, <2>3, QueryType DEF Query
  <2>7. update \in Queries /\ update.stmt = "UPDATE keys"
    BY <1>1, QueryType DEF Query, Statements
  <2>8. m # l => InsertBlockStmt(m) # InsertBlockStmt(l)
    BY OwnInsert
  <2>9. "UPDATE keys" # InsertBlockStmt(l)
    BY DEF InsertBlockStmt
  <2> HIDE DEF insert, update, Added
  <2>10. n <= Len(tool_chain'[l])
    <3>1. Len(Append(tool_chain[m], b)) = Len(tool_chain[m]) + 1 /\ Len(tool_chain[m]) \in Nat
      BY <1>1, <2>3, AppendProperties
    <3>2. m = l => tool_chain'[l] = Append(tool_chain[m], b)
      BY <1>1, <2>5
    <3>3. m # l => tool_chain'[l] = tool_chain[l]
      BY <1>1, <2>5
    <3>4. QED
      BY <3>1, <3>2, <3>3
  <2>11. Numbered(insert, l, n)
    <3>1. insert.stmt = InsertBlockStmt(l) => insert.block.index = Len(tool_chain[l])
      BY <2>4, <2>6, <2>8
    <3>2. Len(tool_chain[l]) \in Nat
      BY <1>1
    <3>3. QED
      BY <3>1, <3>2 DEF Numbered
  <2>12. Numbered(update, l, n)
    BY <2>7, <2>9 DEF Numbered
  <2>13. /\ <<update, insert>> \in Seq(Queries)
         /\ \A j \in 1..Len(<<update, insert>>) : Numbered(<<update, insert>>[j], l, n)
    <3>1. /\ <<update, insert>> \in Seq(Queries) /\ Len(<<update, insert>>) = 2
          /\ <<update, insert>>[1] = update /\ <<update, insert>>[2] = insert
      <4>1. update \in Queries /\ insert \in Queries
        BY <2>6, <2>7
      <4>2. QED
        BY <4>1
    <3>2. \A j \in 1..Len(<<update, insert>>) : j = 1 \/ j = 2
      BY <3>1
    <3>3. QED
      BY <2>11, <2>12, <3>1, <3>2
  <2>14. QED
    BY <1>2, <2>5, <2>6, <2>10, <2>11, <2>13
<1>6. Goal
  BY <1>1, <1>3, <1>4, <1>5
<1>7. PICK qs \in Seq(Queries) :
          /\ tool_queue' = Tail(tool_queue) \o qs
          /\ \A j \in 1..Len(qs) : Numbered(qs[j], l, n)
  BY <1>6 DEF ToolIssues
<1>8. \A i \in 1..Len(tool_queue') :
          \/ \E j \in 1..Len(tool_queue) : tool_queue'[i] = tool_queue[j]
          \/ \E j \in 1..Len(qs) : tool_queue'[i] = qs[j]
  BY <1>1, <1>7, TailThen
<1>9. \A i \in 1..Len(tool_queue') : Numbered(tool_queue'[i], l, n)
  BY <1>7, <1>8
<1>10. QED
  BY <1>6, <1>9

LEMMA ToolVotesClean ==
    ASSUME ValidationInv, CleanInv, ToolVotes
    PROVE  CleanInv'
<1> DEFINE q == Head(tool_queue)
           u == req[q.req].user
           Rows(l) == \/ blocks'[l] = blocks[l]
                      \/ /\ q.stmt = InsertBlockStmt(l) /\ q.block \in Blocks
                         /\ blocks'[l] = Append(blocks[l], q.block)
<1>1. /\ ServerOK /\ ToolVoteTurn /\ tool' = tool /\ queue' = queue /\ req' = req
      /\ tool_queue # <<>>
      /\ Perform(q) \/ UNCHANGED db
  BY ToolVotesTurn DEF ToolVotes, ToolVoteTurn, memory
<1>2. /\ q \in Queries /\ q.stmt \in CastStatements /\ req[q.req].op = "castVote"
      /\ tool.pc = "vote" /\ u \in ValidationUsers /\ u \in tool.users
  <2>1. /\ OwnCall(q) /\ q \in Queries /\ req[q.req].op = "castVote" /\ tool.pc = "vote"
        /\ u \in ValidationUsers
    <3>1. ServerOK /\ tool_queue # <<>>
      BY <1>1
    <3>2. QED
      BY <3>1, ToolHead
  <2>2. q.req \in ValidationVotes /\ req[q.req] # NULL /\ q.stmt \in CastStatements
    BY <2>1 DEF OwnCall, Sent
  <2>3. \A s \in ValidationVotes : req[s] # NULL => req[s].user \in tool.users
    BY DEF CleanInv
  <2>4. QED
    BY <2>1, <2>2, <2>3
<1>3. /\ settings' = settings
      /\ DOMAIN users' = DOMAIN users
      /\ \A v \in DOMAIN users : v # u => users'[v] = users[v]
      /\ votes \subseteq votes'
      /\ \A v \in votes' : v \in votes \/ v.user = u
      /\ \A l \in Ledgers : Rows(l)
  <2>1. CASE Perform(q)
    BY <1>1, <1>2, <2>1, CastPerforms DEF ServerOK
  <2>2. CASE UNCHANGED db
    BY <2>2 DEF db
  <2>3. QED
    BY <1>1, <2>1, <2>2
<1>4. q = tool_queue[1] /\ 1 \in 1..Len(tool_queue)
  <2>1. tool_queue \in Seq(Queries) /\ tool_queue # <<>>
    BY <1>1 DEF ValidationInv, ToolMemory
  <2>2. QED
    BY <2>1, EmptySeq
<1> HIDE DEF q, u
<1>5. /\ tool.pc \notin UsersGone /\ tool.pc \notin VotesGone
      /\ \A l \in Ledgers : tool.pc \notin Whole(l) /\ tool.pc \notin Unloaded(l)
  BY <1>2, MiddlePoints DEF Middle
<1>6. ASSUME Reversible, NEW l \in Ledgers
      PROVE  BlocksKept(l)'
  <2> DEFINE old == tool.before.blocks[l]
             n == Len(old)
  <2>1. old \in Seq(Blocks) /\ n \in Nat
    BY <1>6 DEF Reversible, Snapshot
  <2>2. blocks[l] \in Seq(Blocks)
    BY <1>1 DEF ServerOK, TypeInv, TypeOK, TablesOK
  <2>3. /\ BlocksKept(l) /\ n <= Len(tool_chain[l]) /\ Prolongs(blocks[l], old)
        /\ \A i \in 1..Len(tool_queue) : Numbered(tool_queue[i], l, n)
    BY <1>5, <1>6 DEF Reversible, BlocksKept, Numbered
  <2> HIDE DEF old, n
  <2>4. /\ n <= Len(tool_chain'[l])
        /\ \A i \in 1..Len(tool_queue') : Numbered(tool_queue'[i], l, n)
    BY <1>1, <2>1, <2>3, ToolNumbers
  <2>5. Prolongs(blocks'[l], old)
    <3>1. CASE blocks'[l] = blocks[l]
      BY <2>3, <3>1
    <3>2. CASE /\ q.stmt = InsertBlockStmt(l) /\ q.block \in Blocks
               /\ blocks'[l] = Append(blocks[l], q.block)
      <4>1. q.block.index >= n
        BY <1>4, <2>3, <3>2 DEF Numbered
      <4>2. QED
        BY <2>1, <2>2, <2>3, <3>2, <4>1, ProlongsMore DEF n
    <3>3. QED
      BY <1>3, <3>1, <3>2
  <2>6. QED
    BY <1>1, <1>5, <2>3, <2>4, <2>5 DEF BlocksKept, Numbered, old, n
<1>7. ASSUME Reversible PROVE UsersKept' /\ VotesKept' /\ SettingsKept'
  <2>1. UsersKept'
    <3> DEFINE old == tool.before.users
    <3>1. /\ DOMAIN old \cap ValidationUsers = {} /\ old = [v \in DOMAIN old |-> users[v]]
          /\ DOMAIN users = DOMAIN old \cup tool.created
          /\ tool.users # {} /\ tool.users = tool.created
      BY <1>2, <1>5, <1>7 DEF Reversible, UsersKept
    <3>2. \A v \in DOMAIN old : users'[v] = users[v]
      BY <1>2, <1>3, <3>1
    <3> HIDE DEF old
    <3>3. old = [v \in DOMAIN old |-> users'[v]]
      BY <3>1, <3>2
    <3>4. QED
      BY <1>1, <1>3, <1>5, <3>1, <3>3 DEF UsersKept, old
  <2>2. VotesKept'
    BY <1>1, <1>2, <1>3, <1>5, <1>7 DEF Reversible, VotesKept
  <2>3. SettingsKept'
    BY <1>1, <1>3, <1>7 DEF Reversible, SettingsKept
  <2>4. QED
    BY <2>1, <2>2, <2>3
<1>8. \A s \in ValidationVotes : req'[s] # NULL => req'[s].user \in tool.users
  BY <1>1 DEF CleanInv
<1>9. QED
  BY <1>1, <1>2, <1>6, <1>7, <1>8, VoteStays

(***************************************************************************)
(* The steps of the server.                                                *)
(***************************************************************************)
LEMMA ArriveIsAsked ==
    ASSUME TypeInv, NEW r \in Requests, Arrive(r)
    PROVE  req'[r] # NULL
<1>1. PICK input \in Inputs, q \in Queries :
          Arrives(r, input, <<q>>) /\ FirstStatement(r, input, q)
  BY ArriveShape
<1>2. req' = [req EXCEPT ![r] = input]
  BY <1>1 DEF Arrives
<1>3. req \in [Requests -> Inputs \cup {NULL}]
  BY DEF TypeInv, TypeOK, MemoryOK, RequestsOK
<1>4. req'[r] = input
  BY <1>2, <1>3
<1>5. QED
  BY <1>4, NullAssumption

LEMMA ServerClean ==
    ASSUME NobodyResets, ValidationInv, CleanInv, ServerStep
    PROVE  CleanInv'
<1>1. PICK r \in Clients : Arrive(r) \/ Serve(r)
  BY DEF ServerStep
<1>2. ServerOK /\ r \in Requests /\ r \notin ValidationVotes /\ ValidationVotes \subseteq Requests
  BY ServerStepKeeps, ValidationAssumption DEF Clients
<1>3. TypeInv /\ HandlersInv /\ UNCHANGED tool
  BY <1>2 DEF ServerOK, ServerStep, toolVars
<1>4. \A s \in ValidationVotes : req'[s] = req[s]
  BY <1>1, <1>2, <1>3, ArriveQueue, ServeQueue
<1>5. tool'.pc = "load vote" => BeforeTool'
  <2>1. BeforeTool => BeforeTool'
    BY <1>1, <1>2, <1>3, ServeBefore, ArriveBefore
  <2>2. tool.pc = "load vote" => BeforeTool
    BY DEF CleanInv
  <2>3. QED
    BY <1>3, <2>1, <2>2
<1>6. /\ Serve(r) => req' = req /\ queue # <<>>
      /\ Arrive(r) => /\ req[r] = NULL /\ req'[r] # NULL
                      /\ \A s \in Requests : s # r => req'[s] = req[s]
  <2>1. ASSUME Serve(r) PROVE req' = req /\ queue # <<>>
    <3>1. PICK stmt : Succeeds(r, stmt) \/ Fails(r, stmt)
      BY <2>1, CallbackStatement DEF Serve
    <3>2. queue # <<>>
      BY <3>1 DEF Succeeds, Fails, Executes
    <3>3. QED
      BY <1>2, <1>3, <2>1, <3>2, ServeQueue
  <2>2. QED
    BY <1>2, <1>3, <2>1, ArriveQueue, ArriveIsAsked
<1>7. \A s \in tool'.after : s \in Clients /\ req'[s] # NULL
  <2>1. \A s \in tool.after : s \in Clients /\ s \in Requests /\ req[s] # NULL
    BY DEF CleanInv, Clients
  <2>2. QED
    BY <1>1, <1>3, <1>6, <2>1
<1>8. ASSUME Undisturbed', tool.pc \notin {"load vote", "failed"}
      PROVE  FALSE
  <2>1. CASE Serve(r)
    <3>1. Undisturbed
      BY <1>3, <1>6, <1>8, <2>1 DEF Undisturbed, Alone
    <3>2. queue = <<>>
      BY <1>8, <3>1 DEF CleanInv, Reversible
    <3>3. QED
      BY <1>6, <2>1, <3>2
  <2>2. CASE Arrive(r)
    <3>1. r \in tool.after
      BY <1>1, <1>3, <1>6, <1>8, <2>2 DEF Undisturbed, Alone
    <3>2. QED
      BY <1>6, <2>2, <3>1 DEF CleanInv
  <2>3. QED
    BY <1>1, <2>1, <2>2
<1>9. /\ DOMAIN tool'.max = Ledgers
      /\ \A s \in ValidationVotes : req'[s] # NULL => req'[s].user \in tool'.users
  BY <1>3, <1>4 DEF CleanInv
<1>10. tool'.pc \notin {"load vote", "failed"} /\ Undisturbed' => Reversible'
  BY <1>3, <1>8
<1>11. QED
  BY <1>5, <1>7, <1>9, <1>10 DEF CleanInv

(***************************************************************************)
(* Every step.                                                             *)
(***************************************************************************)
LEMMA StartClean == ValidationInit => CleanInv
<1> SUFFICES ASSUME ValidationInit PROVE CleanInv
  OBVIOUS
<1>1. /\ queue = <<>> /\ req = [r \in Requests |-> NULL] /\ votes = {}
      /\ blocks = [l \in Ledgers |-> <<BootGenesis>>]
      /\ DOMAIN users = Users \ ValidationUsers
  BY DEF ValidationInit, InitWith
<1>2. /\ tool.pc = "load vote" /\ tool.users = {} /\ tool.created = {} /\ tool.after = {}
      /\ tool.max = [l \in Ledgers |-> NULL]
  BY DEF ValidationInit, ToolInit
<1>3. \A r \in ValidationVotes : req[r] = NULL
  BY <1>1, ValidationAssumption
<1>4. KeysBefore
  <2>1. 1..Len(<<>>) = {}
    BY EmptySeq
  <2>2. QED
    BY <1>1, <2>1 DEF KeysBefore
<1>5. \A l \in Ledgers : blocks[l] # <<>>
  BY <1>1
<1>6. /\ \A v \in votes : v.user \notin ValidationUsers
      /\ DOMAIN users \cap ValidationUsers = {}
  BY <1>1
<1>7. BeforeTool
  BY <1>2, <1>3, <1>4, <1>5, <1>6 DEF BeforeTool
<1>8. DOMAIN tool.max = Ledgers
  BY <1>2
<1>9. QED
  BY <1>2, <1>3, <1>7, <1>8 DEF CleanInv

LEMMA CleanUpClean ==
    ASSUME ValidationInv, ServerOK, CleanInv, OwnOnly, CleanUp
    PROVE  CleanInv'
<1>1. CASE PostMax
  BY <1>1, MiddleClean
<1>2. CASE \/ DeleteBlocksAfter(VoteLedger, "delete vote blocks", "delete audit blocks")
           \/ DeleteBlocksAfter(AuditLedger, "delete audit blocks", AfterBlocks)
  BY <1>2, DeleteBlocksClean
<1>3. CASE DeleteValidationUsers
  BY <1>3, DeleteUsersClean
<1>4. CASE RestoreElectionSetting
  BY <1>4, RestoreClean
<1>5. QED
  BY <1>1, <1>2, <1>3, <1>4 DEF CleanUp

LEMMA PrepareClean ==
    ASSUME ValidationInv, ServerOK, CleanInv, OwnOnly, Prepare
    PROVE  CleanInv'
<1>1. CASE LoadChain(VoteLedger, "load vote", "load audit")
  BY <1>1, LoadVoteClean
<1>2. CASE LoadChain(AuditLedger, "load audit", "max vote")
  BY <1>2, LoadAuditClean
<1>3. CASE \/ ReadMax(VoteLedger, "max vote", "max audit")
           \/ ReadMax(AuditLedger, "max audit", "setting")
  BY <1>3, ReadMaxClean
<1>4. QED
  BY <1>1, <1>2, <1>3 DEF Prepare

LEMMA IdleClean ==
    ASSUME CleanInv, UNCHANGED validationVars
    PROVE  CleanInv'
<1>1. UNCHANGED <<users, votes, settings, blocks, queue, req, tool_chain, tool_queue, tool>>
  BY DEF validationVars, vars, shared, memory, db, toolVars
<1>2. Undisturbed' => Undisturbed
  BY <1>1 DEF Undisturbed, Alone
<1>3. BeforeTool => BeforeTool'
  BY <1>1 DEF BeforeTool, KeysBefore
<1>4. Reversible => Reversible'
  <2>1. LeftBehind' = LeftBehind
    BY <1>1 DEF LeftBehind
  <2>2. QED
    BY <1>1, <2>1 DEF Reversible, Snapshot, BlocksKept, UsersKept, VotesKept, SettingsKept
<1>5. QED
  BY <1>1, <1>2, <1>3, <1>4 DEF CleanInv

LEMMA NextClean ==
    ASSUME NobodyResets, ValidationInv, CleanInv, [ValidationNext]_validationVars
    PROVE  CleanInv'
<1>1. CASE UNCHANGED validationVars
  BY <1>1, IdleClean
<1>2. CASE ValidationNext
  <2>1. ServerOK
    BY <1>2, NothingAfter DEF ValidationInv
  <2>2. CASE ServerStep
    BY <2>2, ServerClean
  <2>3. CASE CastNextVote
    BY <2>3, NextVoteClean
  <2>4. CASE ToolVotes
    BY <2>4, ToolVotesClean
  <2>5. CASE /\ \/ Prepare \/ ReadSetting \/ EnsureElectionOpen \/ CreateValidationUser
                \/ ChooseCandidate \/ RunScenarios \/ CleanUp \/ ToolFails
             /\ OwnOnly
    <3>1. CASE Prepare
      BY <2>1, <2>5, <3>1, PrepareClean
    <3>2. CASE ReadSetting \/ EnsureElectionOpen \/ ChooseCandidate \/ RunScenarios
      BY <2>1, <2>5, <3>2, MiddleClean
    <3>3. CASE CreateValidationUser
      BY <2>1, <2>5, <3>3, CreateClean
    <3>4. CASE CleanUp
      BY <2>1, <2>5, <3>4, CleanUpClean
    <3>5. CASE ToolFails
      BY <2>1, <2>5, <3>5, FailsClean
    <3>6. QED
      BY <2>5, <3>1, <3>2, <3>3, <3>4, <3>5
  <2>6. QED
    BY <1>2, <2>2, <2>3, <2>4, <2>5 DEF ValidationNext, ToolStep
<1>3. QED
  BY <1>1, <1>2

\* At the end, what was kept is what there was.
LEMMA EndRestored ==
    ASSUME ValidationInv, CleanInv
    PROVE  CleanupRestores
<1> SUFFICES ASSUME tool.pc = "done", Undisturbed
             PROVE  Tables = [tool.before EXCEPT !.users = WithFresh(@, LeftBehind)]
  BY DEF CleanupRestores, Finished, Undisturbed
<1>1. Reversible
  BY DEF CleanInv
<1> DEFINE old == tool.before
<1>2. users = WithFresh(old.users, LeftBehind) /\ votes = old.votes /\ settings = old.settings
  <2>1. /\ "done" \in UsersGone /\ "done" \in VotesGone
    BY DEF UsersGone, VotesGone
  <2>2. QED
    BY <1>1, <2>1 DEF Reversible, UsersKept, VotesKept, SettingsKept
<1>3. \A l \in Ledgers : blocks[l] = old.blocks[l]
  <2>1. \A l \in Ledgers : "done" \in Whole(l)
    BY DEF Whole, AuditGone, VotingGone, VotesGone, UsersGone
  <2>2. QED
    BY <1>1, <2>1 DEF Reversible, BlocksKept
<1>4. blocks \in [Ledgers -> Seq(Blocks)] /\ old.blocks \in [Ledgers -> Seq(Blocks)]
  <2>1. settings \in [is_open : BOOLEAN]
    BY <1>1, <1>2 DEF Reversible, SettingsKept
  <2>2. DOMAIN settings # {}
    BY <2>1
  <2>3. ServerOK
    BY <2>2 DEF ValidationInv, ServerGone
  <2>4. QED
    BY <1>1, <2>3 DEF ServerOK, TypeInv, TypeOK, TablesOK, Reversible, Snapshot
<1>5. blocks = old.blocks
  BY <1>3, <1>4
<1>6. old = [users |-> old.users, votes |-> old.votes, settings |-> old.settings,
             blocks |-> old.blocks]
  BY <1>1 DEF Reversible, Snapshot
<1>7. Tables = [users |-> WithFresh(old.users, LeftBehind), votes |-> old.votes,
                settings |-> old.settings, blocks |-> old.blocks]
  BY <1>2, <1>5 DEF Tables
<1> HIDE DEF old
<1>8. [old EXCEPT !.users = WithFresh(@, LeftBehind)]
          = [users |-> WithFresh(old.users, LeftBehind), votes |-> old.votes,
             settings |-> old.settings, blocks |-> old.blocks]
  BY <1>6
<1>9. QED
  BY <1>7, <1>8 DEF old

\* Beside a server that is not asked to reset: a run during which the server was
\* asked nothing, and whose clean-up did not lose a statement, leaves the tables
\* it found, also when a statement of the scenarios failed or a block was lost.
\* Only when the creation of a user fails, those created before it stay behind:
\* they are all that the tables have more, and have not voted.
THEOREM CleanupUndoesTheRun ==
    NobodyResets /\ "castVote" \in Operations /\ ValidationSpec => []CleanupRestores
<1>1. ValidationInv /\ CleanInv => CleanupRestores
  BY EndRestored
<1>2. NobodyResets /\ "castVote" \in Operations
          /\ ValidationInv /\ CleanInv /\ [ValidationNext]_validationVars
      => ValidationInv' /\ CleanInv'
  BY NextValidation, NextClean
<1>3. NobodyResets => NobodyResets'
  BY DEF NobodyResets
<1>4. "castVote" \in Operations => ("castVote" \in Operations)'
  OBVIOUS
<1>5. QED
  BY <1>1, <1>2, <1>3, <1>4, StartValidation, StartClean, PTL DEF ValidationSpec

=============================================================================
