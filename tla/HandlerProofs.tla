---------------------------- MODULE HandlerProofs ----------------------------
(***************************************************************************)
(* Proofs about ElectionServer, for any users, candidates and requests and *)
(* any number of failures and crashes.                                     *)
(*                                                                         *)
(* First its types.  Then how the statements of the handlers share the     *)
(* queue: each handler waits for one statement at a time, until it         *)
(* answers.  From this follows that sudah_vote, which is written by two    *)
(* statements of each handler, agrees with the votes table, for any        *)
(* requests that overlap in any way, and that a reset which overlaps no    *)
(* other writer is complete.                                               *)
(***************************************************************************)
EXTENDS ElectionServer, SequenceTheorems, NaturalsInduction, WellFoundedInduction, TLAPS

(***************************************************************************)
(* Blocks.                                                                 *)
(***************************************************************************)

\* The constructor of Block and calculateHash yield a block.
LEMMA BlockType ==
    ASSUME NEW i \in Nat, NEW t \in Timestamps, NEW d \in Data, NEW h \in Hashes,
           NEW sig \in (KeyPairs \X Data) \cup {NULL}, NEW k \in KeyPairs \cup {NULL}
    PROVE  Block(i, t, d, h, sig, k) \in Blocks
<1> DEFINE body == [index |-> i, timestamp |-> t, data |-> d, previousHash |-> h,
                    signature |-> sig, publicKey |-> k, merkleRoot |-> MerkleRoot(d),
                    hash |-> <<>>]
<1>1. MerkleRoot(d) \in Roots
  BY DEF MerkleRoot, Roots
<1>2. CalculateHash(body) \in Hashes
  BY <1>1 DEF CalculateHash, Hashes
<1>3. Block(i, t, d, h, sig, k) = [body EXCEPT !.hash = CalculateHash(body)]
  BY DEF Block
<1> HIDE DEF body
<1>4. QED
  BY <1>1, <1>2, <1>3 DEF body, Blocks

LEMMA GenesisType ==
    ASSUME NEW t \in Timestamps
    PROVE  GenesisBlock(t) \in Blocks
<1>1. GenesisData \in Data /\ NoHash \in Hashes
  BY EmptySeq DEF Data, NoHash, Hashes
<1>2. QED
  BY <1>1, BlockType DEF GenesisBlock

\* addBlock links a block to a chain that is not empty.
LEMMA LinkType ==
    ASSUME NEW c \in Seq(Blocks), c # <<>>, NEW b \in Blocks
    PROVE  Link(c, b) \in Blocks
<1> DEFINE linked == [b EXCEPT !.previousHash = GetLatestBlock(c).hash]
<1>1. GetLatestBlock(c).hash \in Hashes
  <2>1. Len(c) \in 1..Len(c)
    BY EmptySeq
  <2>2. GetLatestBlock(c) \in Blocks
    BY <2>1, ElementOfSeq DEF GetLatestBlock
  <2>3. QED
    BY <2>2 DEF Blocks
<1>2. linked \in Blocks
  BY <1>1 DEF Blocks
<1>3. CalculateHash(linked) \in Hashes
  BY <1>2 DEF CalculateHash, Hashes, Blocks
<1>4. Link(c, b) = [linked EXCEPT !.hash = CalculateHash(linked)]
  BY DEF Link
<1> HIDE DEF linked
<1>5. QED
  BY <1>2, <1>3, <1>4 DEF Blocks

LEMMA HackBlockType ==
    ASSUME NEW c \in Seq(Blocks), c # <<>>, NEW i \in Nat, NEW d \in Data
    PROVE  HackBlock(c, i, d) \in Seq(Blocks) /\ HackBlock(c, i, d) # <<>>
<1>1. CASE i > 0 /\ i < Len(c)
  <2> DEFINE b == [c[i + 1] EXCEPT !.data = d]
  <2>1. i + 1 \in 1..Len(c)
    BY <1>1
  <2>2. c[i + 1] \in Blocks
    BY <2>1, ElementOfSeq
  <2>3. b \in Blocks
    BY <2>2 DEF Blocks
  <2>4. HackBlock(c, i, d) = [c EXCEPT ![i + 1] = b]
    BY <1>1 DEF HackBlock
  <2> HIDE DEF b
  <2>5. [c EXCEPT ![i + 1] = b] \in Seq(Blocks) /\ Len([c EXCEPT ![i + 1] = b]) = Len(c)
    BY <2>1, <2>3, ExceptSeq
  <2>6. QED
    BY <1>1, <2>4, <2>5, EmptySeq
<1>2. CASE ~(i > 0 /\ i < Len(c))
  BY <1>2 DEF HackBlock
<1>3. QED
  BY <1>1, <1>2

\* The block a handler builds on such a chain.
LEMMA NewBlockType ==
    ASSUME NEW c \in Seq(Blocks), c # <<>>, NEW t \in Timestamps, NEW d \in Data,
           NEW k \in KeyPairs
    PROVE  NewBlock(c, t, d, k) \in Blocks
<1>1. Block(Len(c), t, d, NoHash, SignData(k, d), k) \in Blocks
  <2>1. NoHash \in Hashes
    BY DEF NoHash, Hashes
  <2>2. SignData(k, d) \in KeyPairs \X Data
    BY DEF SignData
  <2>3. Len(c) \in Nat
    OBVIOUS
  <2>4. QED
    BY <2>1, <2>2, <2>3, BlockType
<1>2. QED
  BY <1>1, LinkType DEF NewBlock

(***************************************************************************)
(* The inductive invariant of the types.                                   *)
(***************************************************************************)

\* A statement in the queue belongs to a request that has arrived, and the
\* flag is set for a user.
Underway(q) ==
    /\ q \in Queries
    /\ req[q.req] # NULL
    /\ q.stmt = "SET sudah_vote" => req[q.req].user \in Users

QueueOK == \A i \in 1..Len(queue) : Underway(queue[i])

\* A process that is listening has loaded its chains; one that has ended has
\* lost its statements.
ChainsLoaded ==
    /\ up => \A l \in Ledgers : chain[l] # <<>>
    /\ ~up => queue = <<>>

TypeInv == TypeOK /\ QueueOK /\ ChainsLoaded

\* The oldest statement belongs to a request that has arrived.
LEMMA HeadUnderway ==
    ASSUME TypeInv, queue # <<>>
    PROVE  /\ Underway(Head(queue))
           /\ Head(queue).req \in Requests
           /\ req[Head(queue).req] \in Inputs
<1>1. queue \in Seq(Queries)
  BY DEF TypeInv, TypeOK, MemoryOK
<1>2. Underway(Head(queue))
  <2>1. Len(queue) \in Nat \ {0}
    BY <1>1, EmptySeq
  <2>2. Head(queue) = queue[1]
    BY <1>1
  <2>3. QED
    BY <2>1, <2>2 DEF TypeInv, QueueOK
<1>3. Head(queue).req \in Requests
  BY <1>2 DEF Underway, Queries
<1>4. req[Head(queue).req] \in Inputs
  BY <1>2, <1>3 DEF Underway, TypeInv, TypeOK, RequestsOK
<1>5. QED
  BY <1>2, <1>3, <1>4

\* A statement of a request that has arrived leaves the tables in their
\* schema when no constraint rejects it.
LEMMA PerformType ==
    ASSUME TablesOK, NEW q \in Queries, req[q.req] \in Inputs,
           Perform(q), ~Rejected(q)
    PROVE  TablesOK'
<1>1. q.req \in Requests
  BY DEF Queries
<1> USE DEF TablesOK
<1>2. CASE Read(q)
  BY <1>2 DEF Read, db
<1>3. CASE InsertVote(q)
  <2>1. req[q.req].user \in Users /\ req[q.req].candidate \in Candidates
    BY <1>3 DEF InsertVote, Rejected
  <2> DEFINE row == [req |-> q.req, user |-> req[q.req].user,
                     candidate |-> req[q.req].candidate]
  <2>2. row \in [req : Requests, user : Users, candidate : Candidates]
    BY <1>1, <2>1
  <2>3. votes' = votes \cup {row}
    BY <1>3 DEF InsertVote
  <2> HIDE DEF row
  <2>4. votes' \subseteq [req : Requests, user : Users, candidate : Candidates]
    BY <2>2, <2>3
  <2>5. QED
    BY <1>3, <2>4 DEF InsertVote
<1>4. CASE DeleteVotes(q)
  BY <1>4 DEF DeleteVotes
<1>5. CASE UpdateFlag(q)
  BY <1>5 DEF UpdateFlag
<1>6. CASE UpdateKeys(q)
  <2>1. GeneratedKey(q.req) \in KeyPairs
    BY <1>1 DEF GeneratedKey, KeyPairs
  <2>2. QED
    BY <1>6, <2>1 DEF UpdateKeys
<1>7. CASE DeleteUser(q)
  BY <1>7 DEF DeleteUser
<1>8. CASE UpdateIsOpen(q)
  BY <1>8 DEF UpdateIsOpen
<1>9. CASE SaveBlock(q)
  <2>1. PICK l \in Ledgers :
            /\ q.stmt = InsertBlockStmt(l)
            /\ blocks' = [blocks EXCEPT ![l] = Append(@, q.block)]
            /\ UNCHANGED <<users, votes, settings, audit_logs>>
    BY <1>9 DEF SaveBlock
  <2>2. q.block \in Blocks
    BY <2>1 DEF Queries, Statements, InsertBlockStmt
  <2>3. Append(blocks[l], q.block) \in Seq(Blocks)
    BY <2>2
  <2>4. blocks' \in [Ledgers -> Seq(Blocks)]
    BY <2>1, <2>3
  <2>5. QED
    BY <2>1, <2>4
<1>10. CASE DeleteBlocks(q)
  <2>1. blocks' \in [Ledgers -> Seq(Blocks)]
    BY <1>10, EmptySeq DEF DeleteBlocks
  <2>2. QED
    BY <1>10, <2>1 DEF DeleteBlocks
<1>11. CASE InsertAuditLog(q)
  <2>1. q.block \in Blocks \cup {NULL}
    BY DEF Queries
  <2> DEFINE index == IF q.block = NULL THEN NULL ELSE q.block.index
             row   == [req |-> q.req, block_index |-> index]
  <2>2. index \in Nat \cup {NULL}
    BY <2>1 DEF Blocks
  <2>3. audit_logs' = audit_logs \cup {row}
    BY <1>11 DEF InsertAuditLog
  <2> HIDE DEF index
  <2>4. row \in [req : Requests, block_index : Nat \cup {NULL}]
    BY <1>1, <2>2
  <2> HIDE DEF row
  <2>5. audit_logs' \subseteq [req : Requests, block_index : Nat \cup {NULL}]
    BY <2>3, <2>4
  <2>6. QED
    BY <1>11, <2>5 DEF InsertAuditLog
<1>12. QED
  BY <1>2, <1>3, <1>4, <1>5, <1>6, <1>7, <1>8, <1>9, <1>10, <1>11 DEF Perform

\* The outcome of a statement, before the callback does anything.
LEMMA StatementType ==
    ASSUME TypeInv, NEW r, NEW stmt, Succeeds(r, stmt) \/ Fails(r, stmt)
    PROVE  /\ queue # <<>> /\ Head(queue).req = r /\ Head(queue).stmt = stmt
           /\ r \in Requests /\ req[r] # NULL /\ req[r] \in Inputs
           /\ TablesOK' /\ req' = req /\ faults' \in 0..MaxFaults
<1>1. queue # <<>> /\ Head(queue).req = r /\ Head(queue).stmt = stmt
  BY DEF Succeeds, Fails, Executes
<1>2. Head(queue) \in Queries /\ r \in Requests /\ req[r] # NULL /\ req[r] \in Inputs
  BY <1>1, HeadUnderway DEF Underway
<1>3. req' = req
  BY DEF Succeeds, Fails
<1>4. TablesOK'
  <2>1. CASE Succeeds(r, stmt)
    BY <1>1, <1>2, <2>1, PerformType DEF Succeeds, TypeInv, TypeOK
  <2>2. CASE Fails(r, stmt)
    BY <2>2 DEF Fails, TypeInv, TypeOK, TablesOK, db
  <2>3. QED
    BY <2>1, <2>2
<1>5. faults' \in 0..MaxFaults
  BY DatabaseAssumption DEF Succeeds, Fails, TypeInv, TypeOK, LifecycleOK
<1>6. QED
  BY <1>1, <1>2, <1>3, <1>4, <1>5

\* Every callback is that of a statement, which succeeds or fails.
LEMMA CallbackStatement ==
    ASSUME NEW r, Callback(r)
    PROVE  \E stmt : Succeeds(r, stmt) \/ Fails(r, stmt)
<1>1. CASE CastVote(r)
  BY <1>1 DEF CastVote, CheckSettings, CheckSudahVote, CheckCandidate, CheckFails, VoteSaved,
     VoteNotSaved, FlagSet, FlagNotSet, KeysSaved, VoteBlockSaved, VoteBlockLost
<1>2. CASE UserAdmin(r)
  BY <1>2 DEF UserAdmin, UserDeleted, UserNotDeleted, VotesDeleted, VotesNotDeleted,
     FlagsCleared, FlagsNotCleared, BlocksDeleted, GenesisSaved, ResetChainFails
<1>3. CASE SettingsAdmin(r)
  BY <1>3 DEF SettingsAdmin, StatusRead, StatusNotRead, StatusUpdated, StatusNotUpdated
<1>4. CASE RecordAudit(r)
  BY <1>4 DEF RecordAudit, AuditBlockSaved, AuditBlockLost, AuditLogSaved, AuditLogLost
<1>5. QED
  BY <1>1, <1>2, <1>3, <1>4 DEF Callback

\* The queue after a callback: what was behind its head, then what is issued.
LEMMA IssueElements ==
    ASSUME queue \in Seq(Queries), queue # <<>>, NEW qs \in Seq(Queries), Issue(qs)
    PROVE  /\ queue' \in Seq(Queries)
           /\ \A i \in 1..Len(queue') : \/ \E j \in 1..Len(queue) : queue'[i] = queue[j]
                                       \/ \E j \in 1..Len(qs) : queue'[i] = qs[j]
<1> DEFINE rest == Tail(queue)
<1>1. /\ rest \in Seq(Queries) /\ Len(rest) = Len(queue) - 1
      /\ \A i \in 1..Len(rest) : rest[i] = queue[i + 1]
  BY HeadTailProperties
<1>2. Len(queue) \in Nat /\ Len(qs) \in Nat
  OBVIOUS
<1>3. queue' = rest \o qs
  BY DEF Issue
<1> HIDE DEF rest
<1>4. /\ rest \o qs \in Seq(Queries)
      /\ Len(rest \o qs) = Len(rest) + Len(qs)
      /\ \A i \in 1..Len(rest) + Len(qs) :
            (rest \o qs)[i] = IF i <= Len(rest) THEN rest[i] ELSE qs[i - Len(rest)]
  BY <1>1, ConcatProperties
<1>5. ASSUME NEW i \in 1..Len(queue')
      PROVE  \/ \E j \in 1..Len(queue) : queue'[i] = queue[j]
             \/ \E j \in 1..Len(qs) : queue'[i] = qs[j]
  <2>1. CASE i <= Len(rest)
    <3>1. i + 1 \in 1..Len(queue) /\ queue'[i] = queue[i + 1]
      BY <1>1, <1>2, <1>3, <1>4, <2>1
    <3>2. QED
      BY <3>1
  <2>2. CASE i > Len(rest)
    <3>1. i - Len(rest) \in 1..Len(qs) /\ queue'[i] = qs[i - Len(rest)]
      BY <1>1, <1>2, <1>3, <1>4, <2>2
    <3>2. QED
      BY <3>1
  <2>3. i \in Nat /\ Len(rest) \in Int
    BY <1>1, <1>2
  <2>4. QED
    BY <2>1, <2>2, <2>3
<1>6. QED
  BY <1>3, <1>4, <1>5

\* The statements a callback issues join the queue.
LEMMA IssueType ==
    ASSUME TypeInv, queue # <<>>, req' = req, NEW qs \in Seq(Queries),
           \A i \in 1..Len(qs) : Underway(qs[i]), Issue(qs)
    PROVE  queue' \in Seq(Queries) /\ QueueOK'
<1>1. queue \in Seq(Queries) /\ \A i \in 1..Len(queue) : Underway(queue[i])
  BY DEF TypeInv, TypeOK, MemoryOK, QueueOK
<1>2. /\ queue' \in Seq(Queries)
      /\ \A i \in 1..Len(queue') : \/ \E j \in 1..Len(queue) : queue'[i] = queue[j]
                                  \/ \E j \in 1..Len(qs) : queue'[i] = qs[j]
  BY <1>1, IssueElements
<1>3. \A i \in 1..Len(queue') : Underway(queue'[i])
  BY <1>1, <1>2
<1>4. QED
  BY <1>2, <1>3 DEF QueueOK, Underway

LEMMA OneStatement ==
    ASSUME NEW q, Underway(q)
    PROVE  <<q>> \in Seq(Queries) /\ \A i \in 1..Len(<<q>>) : Underway(<<q>>[i])
<1>1. q \in Queries
  BY DEF Underway
<1>2. <<q>> \in Seq(Queries) /\ Len(<<q>>) = 1 /\ <<q>>[1] = q
  BY <1>1
<1>3. \A i \in 1..Len(<<q>>) : i = 1
  BY <1>2
<1>4. QED
  BY <1>2, <1>3

LEMMA NoStatement ==
    <<>> \in Seq(Queries) /\ \A i \in 1..Len(<<>>) : Underway(<<>>[i])
<1>1. <<>> \in Seq(Queries) /\ Len(<<>>) = 0
  BY EmptySeq
<1>2. 1..Len(<<>>) = {}
  BY <1>1
<1>3. QED
  BY <1>1, <1>2

\* What a callback establishes, whatever it does.
CallbackOK ==
    /\ TablesOK /\ MemoryOK /\ RequestsOK /\ faults \in 0..MaxFaults
    /\ QueueOK
    /\ \A l \in Ledgers : chain[l] # <<>>

\* A callback that goes on to the request's next statement.
LEMMA ProceedType ==
    ASSUME TypeInv, up, NEW r, NEW stmt, Succeeds(r, stmt) \/ Fails(r, stmt),
           NEW next, NEW block, Query(r, next, block) \in Queries,
           next = "SET sudah_vote" => req[r].user \in Users,
           Proceed(r, next, block)
    PROVE  CallbackOK'
<1>1. Underway(Query(r, next, block))
  BY StatementType DEF Underway, Query
<1>2. Issue(<<Query(r, next, block)>>)
  BY DEF Proceed
<1>3. queue' \in Seq(Queries) /\ QueueOK'
  BY <1>1, <1>2, OneStatement, IssueType, StatementType
<1>4. UNCHANGED <<chain, reply>>
  BY DEF Proceed
<1>5. QED
  BY <1>3, <1>4, StatementType
     DEF CallbackOK, TypeInv, TypeOK, MemoryOK, RequestsOK, ChainsLoaded

\* A callback that answers the client.
LEMMA AnswerType ==
    ASSUME TypeInv, up, NEW r, NEW stmt, Succeeds(r, stmt) \/ Fails(r, stmt),
           NEW message \in Replies, Answer(r, message)
    PROVE  CallbackOK'
<1>1. queue' \in Seq(Queries) /\ QueueOK'
  BY NoStatement, IssueType, StatementType DEF Answer
<1>2. reply' \in [Requests -> Replies \cup {NULL}]
  BY DEF Answer, TypeInv, TypeOK, RequestsOK
<1>3. QED
  BY <1>1, <1>2, StatementType
     DEF Answer, CallbackOK, TypeInv, TypeOK, MemoryOK, RequestsOK, ChainsLoaded

\* A callback that adds blocks to the chains and issues the statements that
\* save them.
LEMMA AddBlocksType ==
    ASSUME TypeInv, up, NEW r, NEW stmt, Succeeds(r, stmt) \/ Fails(r, stmt),
           NEW qs \in Seq(Queries), \A i \in 1..Len(qs) : Underway(qs[i]), Issue(qs),
           chain' \in [Ledgers -> Seq(Blocks)], \A l \in Ledgers : chain'[l] # <<>>,
           reply' = reply
    PROVE  CallbackOK'
<1>1. queue' \in Seq(Queries) /\ QueueOK'
  BY IssueType, StatementType
<1>2. QED
  BY <1>1, StatementType DEF CallbackOK, TypeInv, TypeOK, MemoryOK, RequestsOK

\* The audit block a handler builds is a block.
LEMMA NextAuditBlockType ==
    ASSUME TypeInv, up, NEW r \in Requests
    PROVE  NextAuditBlock(r) \in Blocks
<1>1. chain[AuditLedger] \in Seq(Blocks) /\ chain[AuditLedger] # <<>>
  BY DEF TypeInv, TypeOK, MemoryOK, ChainsLoaded, Ledgers
<1>2. r \in Timestamps /\ AuditData(r) \in Data /\ SystemKey \in KeyPairs
  BY DEF Timestamps, AuditData, Data, KeyPairs
<1>3. QED
  BY <1>1, <1>2, NewBlockType DEF NextAuditBlock

LEMMA RecordAuditLogType ==
    ASSUME TypeInv, up, NEW r, NEW stmt, Succeeds(r, stmt) \/ Fails(r, stmt),
           RecordAuditLog(r)
    PROVE  CallbackOK'
<1> DEFINE b  == NextAuditBlock(r)
           qs == <<Query(r, InsertBlockStmt(AuditLedger), b)>>
<1>1. b \in Blocks
  BY NextAuditBlockType, StatementType
<1>2. /\ chain' = [chain EXCEPT ![AuditLedger] = Append(@, b)]
      /\ Issue(qs)
      /\ reply' = reply
  BY DEF RecordAuditLog, AddBlock
<1> HIDE DEF b
<1>3. Query(r, InsertBlockStmt(AuditLedger), b) \in Queries
  BY <1>1, StatementType DEF Query, Queries, BlockStatements, Ledgers
<1>4. qs \in Seq(Queries) /\ \A i \in 1..Len(qs) : Underway(qs[i])
  <2>1. Underway(Query(r, InsertBlockStmt(AuditLedger), b))
    BY <1>3, StatementType
       DEF Underway, Query, InsertBlockStmt, VoteLedger, AuditLedger
  <2>2. QED
    BY <2>1, OneStatement
<1> HIDE DEF qs
<1>5. chain' \in [Ledgers -> Seq(Blocks)] /\ \A l \in Ledgers : chain'[l] # <<>>
  <2>1. chain[AuditLedger] \in Seq(Blocks)
    BY DEF TypeInv, TypeOK, MemoryOK, Ledgers
  <2>2. Append(chain[AuditLedger], b) \in Seq(Blocks) /\ Append(chain[AuditLedger], b) # <<>>
    BY <1>1, <2>1, AppendProperties
  <2>3. QED
    BY <1>2, <2>2 DEF TypeInv, TypeOK, MemoryOK, ChainsLoaded
<1>6. QED
  BY <1>2, <1>4, <1>5, AddBlocksType

LEMMA QueryType ==
    /\ \A r \in Requests, stmt \in Statements, block \in Blocks \cup {NULL} :
          Query(r, stmt, block) \in Queries
    /\ \A r \in Requests, l \in Ledgers, block \in Blocks :
          Query(r, InsertBlockStmt(l), block) \in Queries
BY DEF Query, Queries, BlockStatements

\* The block of a vote whose flag has been set.
LEMMA NextVoteBlockType ==
    ASSUME TypeInv, up, NEW r \in Requests, Succeeds(r, "SET sudah_vote")
    PROVE  NextVoteBlock(r) \in Blocks
<1>1. chain[VoteLedger] \in Seq(Blocks) /\ chain[VoteLedger] # <<>>
  BY DEF TypeInv, TypeOK, MemoryOK, ChainsLoaded, Ledgers
<1>2. r \in Timestamps
  BY DEF Timestamps
<1>3. req[r] \in Inputs /\ req[r].user \in Users
  BY StatementType, HeadUnderway DEF Underway
<1>4. VoteData(r) \in Data
  BY <1>3 DEF VoteData, Data, Inputs
<1>5. SigningKey(r) \in KeyPairs
  BY <1>3 DEF SigningKey, GeneratedKey, Inputs, KeyPairs
<1>6. QED
  BY <1>1, <1>2, <1>4, <1>5, NewBlockType DEF NextVoteBlock

LEMMA FlagSetType ==
    ASSUME TypeInv, up, NEW r \in Requests, FlagSet(r)
    PROVE  CallbackOK'
<1> DEFINE b      == NextVoteBlock(r)
           insert == Query(r, InsertBlockStmt(VoteLedger), b)
           update == Query(r, "UPDATE keys", NULL)
           qs     == IF req[r].key = NULL THEN <<update, insert>> ELSE <<insert>>
<1>1. Succeeds(r, "SET sudah_vote")
  BY DEF FlagSet
<1>2. chain[VoteLedger] \in Seq(Blocks) /\ chain[VoteLedger] # <<>>
  BY DEF TypeInv, TypeOK, MemoryOK, ChainsLoaded, Ledgers
<1>3. b \in Blocks
  BY <1>1, NextVoteBlockType
<1>4. /\ chain' = [chain EXCEPT ![VoteLedger] = Append(@, b)]
      /\ Issue(qs)
      /\ reply' = reply
  BY DEF FlagSet
<1> HIDE DEF b
<1>5. insert \in Queries /\ update \in Queries
  BY <1>3, QueryType DEF Ledgers, Statements
<1>6. Underway(insert) /\ Underway(update)
  BY <1>1, <1>5, StatementType
     DEF Underway, Query, InsertBlockStmt, VoteLedger
<1> HIDE DEF insert, update
<1>7. <<update, insert>> \in Seq(Queries) /\ \A i \in 1..2 : Underway(<<update, insert>>[i])
  BY <1>5, <1>6
<1>8. qs \in Seq(Queries) /\ \A i \in 1..Len(qs) : Underway(qs[i])
  <2>1. CASE req[r].key = NULL
    BY <1>7, <2>1
  <2>2. CASE req[r].key # NULL
    BY <1>6, <2>2, OneStatement
  <2>3. QED
    BY <2>1, <2>2
<1> HIDE DEF qs
<1>9. chain' \in [Ledgers -> Seq(Blocks)] /\ \A l \in Ledgers : chain'[l] # <<>>
  <2>1. Append(chain[VoteLedger], b) \in Seq(Blocks) /\ Append(chain[VoteLedger], b) # <<>>
    BY <1>2, <1>3, AppendProperties
  <2>2. QED
    BY <1>4, <2>1 DEF TypeInv, TypeOK, MemoryOK, ChainsLoaded
<1>10. QED
  BY <1>1, <1>4, <1>8, <1>9, AddBlocksType

LEMMA CastVoteType ==
    ASSUME TypeInv, up, NEW r \in Requests, CastVote(r)
    PROVE  CallbackOK'
<1>1. CASE CheckSettings(r)
  <2>1. Query(r, "SELECT sudah_vote", NULL) \in Queries
    BY QueryType DEF Statements
  <2>2. QED
    BY <1>1, <2>1, ProceedType, AnswerType DEF CheckSettings, Replies
<1>2. CASE CheckSudahVote(r)
  <2>1. Query(r, "SELECT candidate", NULL) \in Queries
    BY QueryType DEF Statements
  <2>2. QED
    BY <1>2, <2>1, ProceedType, AnswerType DEF CheckSudahVote, Replies
<1>3. CASE CheckCandidate(r)
  <2>1. Query(r, "INSERT votes", NULL) \in Queries
    BY QueryType DEF Statements
  <2>2. QED
    BY <1>3, <2>1, ProceedType, AnswerType DEF CheckCandidate, Replies
<1>4. CASE CheckFails(r)
  BY <1>4, AnswerType DEF CheckFails, Replies
<1>5. CASE VoteSaved(r)
  <2>1. Query(r, "SET sudah_vote", NULL) \in Queries
    BY QueryType DEF Statements
  <2>2. req[r].user \in Users
    BY <1>5, StatementType
       DEF VoteSaved, Succeeds, Rejected, TypeInv, TypeOK, TablesOK
  <2>3. QED
    BY <1>5, <2>1, <2>2, ProceedType DEF VoteSaved
<1>6. CASE VoteNotSaved(r)
  BY <1>6, AnswerType DEF VoteNotSaved, Replies
<1>7. CASE FlagSet(r)
  BY <1>7, FlagSetType
<1>8. CASE FlagNotSet(r)
  BY <1>8, AnswerType DEF FlagNotSet, Replies
<1>9. CASE KeysSaved(r)
  BY <1>9, NoStatement, AddBlocksType
     DEF KeysSaved, TypeInv, TypeOK, MemoryOK, ChainsLoaded
<1>10. CASE VoteBlockSaved(r)
  BY <1>10, RecordAuditLogType DEF VoteBlockSaved
<1>11. CASE VoteBlockLost(r)
  BY <1>11, AnswerType DEF VoteBlockLost, Replies
<1>12. QED
  BY <1>1, <1>2, <1>3, <1>4, <1>5, <1>6, <1>7, <1>8, <1>9, <1>10, <1>11 DEF CastVote

LEMMA GenesisSavedType ==
    ASSUME TypeInv, up, NEW r \in Requests, GenesisSaved(r)
    PROVE  CallbackOK'
<1> DEFINE g == Head(queue).block
           b == NextAuditBlock(r)
           q == Query(r, InsertBlockStmt(AuditLedger), b)
<1>1. Succeeds(r, InsertBlockStmt(VoteLedger))
  BY DEF GenesisSaved
<1>2. g \in Blocks
  <2>1. Head(queue) \in Queries /\ Head(queue).stmt = InsertBlockStmt(VoteLedger)
    BY <1>1, StatementType, HeadUnderway DEF Underway
  <2>2. QED
    BY <2>1 DEF Queries, Statements, InsertBlockStmt
<1>3. b \in Blocks
  BY NextAuditBlockType
<1>4. /\ chain' = [chain EXCEPT ![VoteLedger]  = <<g>>,
                                ![AuditLedger] = Append(@, b)]
      /\ Issue(<<q>>)
      /\ reply' = reply
  BY DEF GenesisSaved
<1> HIDE DEF g, b
<1>5. Underway(q)
  <2>1. q \in Queries
    BY <1>3, QueryType DEF Ledgers
  <2>2. QED
    BY <1>1, <2>1, StatementType
       DEF Underway, Query, InsertBlockStmt, VoteLedger, AuditLedger
<1> HIDE DEF q
<1>6. chain' \in [Ledgers -> Seq(Blocks)] /\ \A l \in Ledgers : chain'[l] # <<>>
  <2>1. chain \in [Ledgers -> Seq(Blocks)] /\ chain[AuditLedger] \in Seq(Blocks)
    BY DEF TypeInv, TypeOK, MemoryOK, Ledgers
  <2>2. Append(chain[AuditLedger], b) \in Seq(Blocks) /\ Append(chain[AuditLedger], b) # <<>>
    BY <1>3, <2>1, AppendProperties
  <2>3. <<g>> \in Seq(Blocks) /\ <<g>> # <<>>
    BY <1>2
  <2>4. QED
    BY <1>4, <2>1, <2>2, <2>3 DEF Ledgers, VoteLedger, AuditLedger
<1>7. QED
  BY <1>1, <1>4, <1>5, <1>6, OneStatement, AddBlocksType

LEMMA UserAdminType ==
    ASSUME TypeInv, up, NEW r \in Requests, UserAdmin(r)
    PROVE  CallbackOK'
<1>1. CASE UserDeleted(r)
  BY <1>1, RecordAuditLogType DEF UserDeleted
<1>2. CASE UserNotDeleted(r)
  BY <1>2, AnswerType DEF UserNotDeleted, Replies
<1>3. CASE VotesDeleted(r)
  <2>1. Query(r, "CLEAR sudah_vote", NULL) \in Queries
    BY QueryType DEF Statements
  <2>2. QED
    BY <1>3, <2>1, ProceedType DEF VotesDeleted
<1>4. CASE VotesNotDeleted(r)
  BY <1>4, AnswerType DEF VotesNotDeleted, Replies
<1>5. CASE FlagsCleared(r)
  <2>1. Query(r, "DELETE blockchain", NULL) \in Queries
    BY QueryType DEF Statements
  <2>2. QED
    BY <1>5, <2>1, ProceedType, RecordAuditLogType DEF FlagsCleared
<1>6. CASE FlagsNotCleared(r)
  BY <1>6, AnswerType DEF FlagsNotCleared, Replies
<1>7. CASE BlocksDeleted(r)
  <2>1. GenesisBlock(r) \in Blocks
    BY GenesisType DEF Timestamps
  <2>2. Query(r, InsertBlockStmt(VoteLedger), GenesisBlock(r)) \in Queries
    BY <2>1, QueryType DEF Ledgers
  <2>3. QED
    BY <1>7, <2>2, ProceedType DEF BlocksDeleted, InsertBlockStmt
<1>8. CASE GenesisSaved(r)
  BY <1>8, GenesisSavedType
<1>9. CASE ResetChainFails(r)
  BY <1>9, AnswerType DEF ResetChainFails, Replies
<1>10. QED
  BY <1>1, <1>2, <1>3, <1>4, <1>5, <1>6, <1>7, <1>8, <1>9 DEF UserAdmin

LEMMA SettingsAdminType ==
    ASSUME TypeInv, up, NEW r \in Requests, SettingsAdmin(r)
    PROVE  CallbackOK'
<1>1. CASE StatusRead(r)
  <2> DEFINE next == IF settings.is_open THEN "CLEAR is_open" ELSE "SET is_open"
  <2>1. next \in Statements /\ next # "SET sudah_vote"
    BY DEF Statements
  <2>2. Succeeds(r, "SELECT is_open") /\ Proceed(r, next, NULL)
    BY <1>1 DEF StatusRead
  <2> HIDE DEF next
  <2>3. QED
    BY <2>1, <2>2, QueryType, ProceedType
<1>2. CASE StatusNotRead(r)
  BY <1>2, AnswerType DEF StatusNotRead, Replies
<1>3. CASE StatusUpdated(r)
  BY <1>3, RecordAuditLogType DEF StatusUpdated
<1>4. CASE StatusNotUpdated(r)
  BY <1>4, AnswerType DEF StatusNotUpdated, Replies
<1>5. QED
  BY <1>1, <1>2, <1>3, <1>4 DEF SettingsAdmin

LEMMA RecordAuditType ==
    ASSUME TypeInv, up, NEW r \in Requests, RecordAudit(r)
    PROVE  CallbackOK'
<1>1. CASE AuditBlockSaved(r)
  <2>1. Head(queue).block \in Blocks \cup {NULL}
    BY <1>1, StatementType, HeadUnderway DEF AuditBlockSaved, Underway, Queries
  <2>2. Query(r, "INSERT audit_logs", Head(queue).block) \in Queries
    BY <2>1, QueryType DEF Statements
  <2>3. QED
    BY <1>1, <2>2, ProceedType DEF AuditBlockSaved
<1>2. CASE AuditBlockLost(r)
  <2>1. Query(r, "INSERT audit_logs", NULL) \in Queries
    BY QueryType DEF Statements
  <2>2. QED
    BY <1>2, <2>1, ProceedType DEF AuditBlockLost
<1>3. CASE AuditLogSaved(r)
  BY <1>3, AnswerType DEF AuditLogSaved, Replies
<1>4. CASE AuditLogLost(r)
  BY <1>4, AnswerType DEF AuditLogLost, Replies
<1>5. QED
  BY <1>1, <1>2, <1>3, <1>4 DEF RecordAudit

(***************************************************************************)
(* The steps of the server.                                                *)
(***************************************************************************)
LEMMA ServeType ==
    ASSUME TypeInv, NEW r \in Requests, Serve(r)
    PROVE  TypeInv'
<1>1. up /\ Callback(r) /\ up' = up /\ crashes' = crashes
  BY DEF Serve, lifecycle
<1>2. CallbackOK'
  BY <1>1, CastVoteType, UserAdminType, SettingsAdminType, RecordAuditType DEF Callback
<1>3. QED
  BY <1>1, <1>2 DEF CallbackOK, TypeInv, TypeOK, LifecycleOK, ChainsLoaded

\* The queue after the arrival of a request.
LEMMA ArrivesElements ==
    ASSUME queue \in Seq(Queries), NEW q \in Queries, queue' = queue \o <<q>>
    PROVE  /\ queue' \in Seq(Queries)
           /\ Len(queue) \in Nat /\ Len(queue') = Len(queue) + 1
           /\ \A i \in 1..Len(queue) : queue'[i] = queue[i]
           /\ \A i \in 1..Len(queue') : i \in 1..Len(queue) \/ queue'[i] = q
<1>1. queue' = Append(queue, q)
  BY AppendIsConcat
<1>2. Len(queue) \in Nat
  OBVIOUS
<1>3. QED
  BY <1>1, <1>2, AppendProperties

\* A request that arrives with one statement leaves the others their requests.
LEMMA ArrivesType ==
    ASSUME TypeInv, NEW r \in Requests, NEW input \in Inputs, NEW q,
           q \in Queries, q.req = r, q.stmt # "SET sudah_vote",
           Arrives(r, input, <<q>>),
           chain' \in [Ledgers -> Seq(Blocks)], \A l \in Ledgers : chain'[l] # <<>>
    PROVE  TypeInv'
<1>1. req \in [Requests -> Inputs \cup {NULL}] /\ queue \in Seq(Queries)
  BY DEF TypeInv, TypeOK, RequestsOK, MemoryOK
<1>2. req[r] = NULL /\ req' = [req EXCEPT ![r] = input] /\ queue' = queue \o <<q>> /\ up
  BY DEF Arrives
<1>3. /\ queue' \in Seq(Queries)
      /\ \A i \in 1..Len(queue) : queue'[i] = queue[i]
      /\ \A i \in 1..Len(queue') : i \in 1..Len(queue) \/ queue'[i] = q
  BY <1>1, <1>2, ArrivesElements
<1>4. input # NULL
  BY NullAssumption
<1>5. QueueOK'
  <2> SUFFICES ASSUME NEW i \in 1..Len(queue')
               PROVE  Underway(queue[i])'
    BY DEF QueueOK
  <2>1. CASE i \in 1..Len(queue)
    <3>1. Underway(queue[i])
      BY <2>1 DEF TypeInv, QueueOK
    <3>2. queue[i].req # r /\ queue[i].req \in Requests
      BY <1>2, <3>1 DEF Underway, Queries
    <3>3. req'[queue[i].req] = req[queue[i].req]
      BY <1>1, <1>2, <3>2
    <3>4. QED
      BY <1>3, <2>1, <3>1, <3>3 DEF Underway
  <2>2. CASE queue'[i] = q
    <3>1. req'[r] = input
      BY <1>1, <1>2
    <3>2. QED
      BY <1>4, <2>2, <3>1 DEF Underway
  <2>3. QED
    BY <1>3, <2>1, <2>2
<1>6. TablesOK'
  BY DEF Arrives, TypeInv, TypeOK, TablesOK, db
<1>7. MemoryOK' /\ RequestsOK'
  BY <1>1, <1>2, <1>3 DEF Arrives, TypeInv, TypeOK, MemoryOK, RequestsOK
<1>8. LifecycleOK' /\ up'
  BY <1>2 DEF Arrives, TypeInv, TypeOK, LifecycleOK, lifecycle
<1>9. QED
  BY <1>5, <1>6, <1>7, <1>8 DEF TypeInv, TypeOK, ChainsLoaded

LEMMA HackArrivesType ==
    ASSUME TypeInv, NEW r \in Requests, HackArrives(r)
    PROVE  TypeInv'
<1> DEFINE b     == NextAuditBlock(r)
           input == Input("hack", NULL, NULL, NULL)
           q     == Query(r, InsertBlockStmt(AuditLedger), b)
           hacked == HackBlock(chain[VoteLedger], 1, TamperedData)
<1>1. up
  BY DEF HackArrives, Arrives
<1>2. b \in Blocks
  BY <1>1, NextAuditBlockType
<1>3. /\ Arrives(r, input, <<q>>)
      /\ chain' = [chain EXCEPT ![VoteLedger] = hacked, ![AuditLedger] = Append(@, b)]
  BY DEF HackArrives
<1>4. input \in Inputs
  BY DEF Input, Inputs, Answered, Handlers, CandidateIds
<1>5. /\ q \in Queries /\ q.req = r /\ q.stmt # "SET sudah_vote"
  <2>1. q \in Queries
    BY <1>2, QueryType DEF Ledgers
  <2>2. QED
    BY <2>1 DEF Query, InsertBlockStmt, VoteLedger, AuditLedger
<1>6. chain \in [Ledgers -> Seq(Blocks)] /\ \A l \in Ledgers : chain[l] # <<>>
  BY <1>1 DEF TypeInv, TypeOK, MemoryOK, ChainsLoaded
<1>7. hacked \in Seq(Blocks) /\ hacked # <<>>
  BY <1>6, HackBlockType DEF Ledgers, Data
<1> HIDE DEF b, input, q, hacked
<1>8. chain' \in [Ledgers -> Seq(Blocks)] /\ \A l \in Ledgers : chain'[l] # <<>>
  <2>1. chain[AuditLedger] \in Seq(Blocks)
    BY <1>6 DEF Ledgers
  <2>2. Append(chain[AuditLedger], b) \in Seq(Blocks) /\ Append(chain[AuditLedger], b) # <<>>
    BY <1>2, <2>1, AppendProperties
  <2>3. QED
    BY <1>3, <1>6, <1>7, <2>2 DEF Ledgers, VoteLedger, AuditLedger
<1>9. QED
  BY <1>3, <1>4, <1>5, <1>8, ArrivesType

LEMMA ArriveType ==
    ASSUME TypeInv, NEW r \in Requests, Arrive(r)
    PROVE  TypeInv'
<1>1. ASSUME NEW input \in Inputs, NEW stmt \in Statements, stmt # "SET sudah_vote",
             Arrives(r, input, <<Query(r, stmt, NULL)>>), UNCHANGED chain
      PROVE  TypeInv'
  <2> DEFINE q == Query(r, stmt, NULL)
  <2>1. q \in Queries
    BY QueryType
  <2>2. q.req = r /\ q.stmt # "SET sudah_vote"
    BY <1>1 DEF Query
  <2>3. chain' \in [Ledgers -> Seq(Blocks)] /\ \A l \in Ledgers : chain'[l] # <<>>
    BY <1>1 DEF Arrives, TypeInv, TypeOK, MemoryOK, ChainsLoaded
  <2> HIDE DEF q
  <2>4. Arrives(r, input, <<q>>)
    BY <1>1 DEF q
  <2>5. QED
    BY <2>1, <2>2, <2>3, <2>4, ArrivesType
<1>2. \A op \in Handlers, u \in Users \cup {NULL}, c \in CandidateIds, k \in KeyPairs \cup {NULL} :
         Input(op, u, c, k) \in Inputs
  BY DEF Input, Inputs, Answered
<1>3. CASE CastVoteArrives(r)
  <2> PICK u \in Users, c \in Candidates \cup BadCandidates \cup {NULL} :
        \E k \in SessionKeys(u) :
            /\ Arrives(r, Input("castVote", u, c, k), <<Query(r, "SELECT settings", NULL)>>)
            /\ UNCHANGED chain
    BY <1>3 DEF CastVoteArrives
  <2>1. PICK k \in SessionKeys(u) :
            /\ Arrives(r, Input("castVote", u, c, k), <<Query(r, "SELECT settings", NULL)>>)
            /\ UNCHANGED chain
    OBVIOUS
  <2>2. k \in KeyPairs \cup {NULL}
    <3>1. StoredKey(u) \in KeyPairs
      BY DEF StoredKey, KeyPairs
    <3>2. u \in DOMAIN users => users[u].public_key \in KeyPairs \cup {NULL}
      BY DEF TypeInv, TypeOK, TablesOK
    <3>3. QED
      BY <3>1, <3>2 DEF SessionKeys
  <2>3. Input("castVote", u, c, k) \in Inputs
    BY <1>2, <2>2 DEF Handlers, CandidateIds
  <2>4. QED
    BY <1>1, <2>1, <2>3 DEF Statements
<1>4. CASE DeleteUserArrives(r)
  BY <1>1, <1>2, <1>4 DEF DeleteUserArrives, Statements, Handlers, CandidateIds
<1>5. CASE ResetUserVoteArrives(r)
  BY <1>1, <1>2, <1>5 DEF ResetUserVoteArrives, Statements, Handlers, CandidateIds
<1>6. CASE ResetAllArrives(r)
  BY <1>1, <1>2, <1>6 DEF ResetAllArrives, Statements, Handlers, CandidateIds
<1>7. CASE ToggleArrives(r)
  BY <1>1, <1>2, <1>7 DEF ToggleArrives, Statements, Handlers, CandidateIds
<1>8. CASE HackArrives(r)
  BY <1>8, HackArrivesType
<1>9. QED
  BY <1>3, <1>4, <1>5, <1>6, <1>7, <1>8 DEF Arrive

\* The end of the process, whatever became of the statement under way.
LEMMA ProcessEndsType ==
    ASSUME TypeInv, TablesOK', ProcessEnds, crashes' \in 0..MaxCrashes
    PROVE  TypeInv'
<1>1. chain' \in [Ledgers -> Seq(Blocks)] /\ queue' = <<>> /\ queue' \in Seq(Queries)
  BY EmptySeq DEF ProcessEnds
<1>2. 1..Len(queue') = {}
  BY <1>1, EmptySeq
<1>3. reply' \in [Requests -> Replies \cup {NULL}]
  BY DEF ProcessEnds, TypeInv, TypeOK, RequestsOK, Replies
<1>4. QED
  BY <1>1, <1>2, <1>3
     DEF ProcessEnds, TypeInv, TypeOK, MemoryOK, RequestsOK, LifecycleOK, QueueOK, ChainsLoaded

\* What a restart loads from a table that is not empty.
LEMMA LoadOrdersType ==
    ASSUME NEW rows \in Seq(Blocks), rows # <<>>, NEW c \in LoadOrders(rows)
    PROVE  /\ c \in Seq(Blocks) /\ c # <<>>
           /\ \A i \in 1..Len(c) : \E j \in 1..Len(rows) : c[i] = rows[j]
<1> DEFINE n == Len(rows)
<1>1. PICK p \in [1..n -> 1..n] : c = [i \in 1..n |-> rows[p[i]]]
  BY DEF LoadOrders
<1>2. n \in Nat \ {0}
  BY EmptySeq
<1>3. \A i \in 1..n : rows[p[i]] \in Blocks
  BY <1>1, ElementOfSeq
<1>4. \A i \in 1..n : \E j \in 1..Len(rows) : c[i] = rows[j]
  BY <1>1
<1> HIDE DEF n
<1>5. c \in [1..n -> Blocks]
  BY <1>1, <1>3
<1>6. c \in Seq(Blocks) /\ Len(c) = n
  BY <1>2, <1>5
<1>7. QED
  BY <1>2, <1>4, <1>6, EmptySeq

LEMMA RestartType ==
    ASSUME TypeInv, Restart
    PROVE  TypeInv'
<1>1. BootGenesis \in Blocks
  BY GenesisType DEF BootGenesis, Timestamps
<1>2. \A l \in Ledgers : TablesAfterBoot[l] \in Seq(Blocks) /\ TablesAfterBoot[l] # <<>>
  BY <1>1 DEF TablesAfterBoot, TypeInv, TypeOK, TablesOK
<1>3. blocks' \in [Ledgers -> Seq(Blocks)]
  BY <1>2 DEF Restart, TablesAfterBoot
<1>4. chain' \in [Ledgers -> Seq(Blocks)] /\ \A l \in Ledgers : chain'[l] # <<>>
  <2>1. PICK v \in LoadOrders(TablesAfterBoot[VoteLedger]),
             a \in LoadOrders(TablesAfterBoot[AuditLedger]) :
               chain' = [l \in Ledgers |-> IF l = VoteLedger THEN v ELSE a]
    BY DEF Restart
  <2>2. v \in Seq(Blocks) /\ v # <<>> /\ a \in Seq(Blocks) /\ a # <<>>
    BY <1>2, LoadOrdersType DEF Ledgers
  <2>3. QED
    BY <2>1, <2>2
<1>5. queue' = queue /\ req' = req /\ up'
  BY DEF Restart
<1>6. TablesOK' /\ RequestsOK' /\ LifecycleOK'
  BY <1>3 DEF Restart, TypeInv, TypeOK, TablesOK, RequestsOK, LifecycleOK
<1>7. QueueOK'
  BY <1>5 DEF TypeInv, QueueOK, Underway
<1>8. QED
  BY <1>4, <1>5, <1>6, <1>7 DEF TypeInv, TypeOK, MemoryOK, ChainsLoaded

LEMMA CrashType ==
    ASSUME TypeInv, Crash
    PROVE  TypeInv'
<1>1. TablesOK'
  <2>1. CASE UNCHANGED db
    BY <2>1 DEF TypeInv, TypeOK, TablesOK, db
  <2>2. CASE queue # <<>> /\ ~Rejected(Head(queue)) /\ Perform(Head(queue))
    BY <2>2, HeadUnderway, PerformType DEF Underway, TypeInv, TypeOK
  <2>3. QED
    BY <2>1, <2>2 DEF Crash
<1>2. crashes' \in 0..MaxCrashes
  BY ServerAssumption DEF Crash, TypeInv, TypeOK, LifecycleOK
<1>3. QED
  BY <1>1, <1>2, ProcessEndsType DEF Crash

LEMMA FatalErrorType ==
    ASSUME TypeInv, NEW r \in Requests, FatalError(r)
    PROVE  TypeInv'
<1>1. TablesOK'
  BY DEF FatalError, TypeInv, TypeOK, TablesOK, db
<1>2. crashes' \in 0..MaxCrashes
  BY DEF FatalError, TypeInv, TypeOK, LifecycleOK
<1>3. QED
  BY <1>1, <1>2, ProcessEndsType DEF FatalError

LEMMA StartType ==
    ASSUME NEW registered \in SUBSET Users, InitWith(registered)
    PROVE  TypeInv
<1>1. BootGenesis \in Blocks
  BY GenesisType DEF BootGenesis, Timestamps
<1>2. blocks \in [Ledgers -> Seq(Blocks)] /\ \A l \in Ledgers : blocks[l] # <<>>
  BY <1>1 DEF InitWith
<1>3. TablesOK
  BY <1>2, ServerAssumption DEF InitWith, TablesOK, StoredKey, KeyPairs
<1>4. queue = <<>> /\ queue \in Seq(Queries) /\ 1..Len(queue) = {}
  BY EmptySeq DEF InitWith
<1>5. MemoryOK /\ RequestsOK /\ LifecycleOK
  BY <1>2, <1>4, DatabaseAssumption, ServerAssumption
     DEF InitWith, MemoryOK, RequestsOK, LifecycleOK
<1>6. QED
  BY <1>2, <1>3, <1>4, <1>5 DEF InitWith, TypeInv, TypeOK, QueueOK, ChainsLoaded

LEMMA InitType == Init => TypeInv
BY StartType DEF Init

LEMMA NextType == TypeInv /\ [Next]_vars => TypeInv'
<1> SUFFICES ASSUME TypeInv, [Next]_vars PROVE TypeInv'
  OBVIOUS
<1>1. ASSUME NEW r \in Requests, Arrive(r) PROVE TypeInv'
  BY <1>1, ArriveType
<1>2. ASSUME NEW r \in Requests, Serve(r) PROVE TypeInv'
  BY <1>2, ServeType
<1>3. ASSUME NEW r \in Requests, FatalError(r) PROVE TypeInv'
  BY <1>3, FatalErrorType
<1>4. CASE Crash
  BY <1>4, CrashType
<1>5. CASE Restart
  BY <1>5, RestartType
<1>6. CASE UNCHANGED vars
  BY <1>6
     DEF vars, shared, db, memory, lifecycle, TypeInv, TypeOK, TablesOK, MemoryOK, RequestsOK,
         LifecycleOK, QueueOK, Underway, ChainsLoaded
<1>7. QED
  BY <1>1, <1>2, <1>3, <1>4, <1>5, <1>6 DEF Next

\* The tables keep their schema and the handlers' statements their parameters,
\* in every behaviour of the server: votes whose constraints fail, resets that
\* replace a chain, kills and restarts included.
THEOREM TypeCorrect == Spec => []TypeOK
<1>1. TypeInv => TypeOK
  BY DEF TypeInv
<1>2. QED
  BY InitType, NextType, <1>1, PTL DEF Spec

(***************************************************************************)
(* The inductive invariant of the handlers.                                *)
(***************************************************************************)
\* castVote does not wait for its new keys to be saved.
Awaited(q) == q.stmt # "UPDATE keys"

\* The handlers a statement may come from.
MayIssue(op, stmt) ==
    /\ stmt \in {"SELECT settings", "SELECT sudah_vote", "SELECT candidate",
                 "INSERT votes", "SET sudah_vote", "UPDATE keys"} => op = "castVote"
    /\ stmt = "DELETE users" => op = "deleteUser"
    /\ stmt \in {"DELETE votes", "CLEAR sudah_vote"} => op \in {"resetUserVote", "resetAll"}
    /\ stmt = "DELETE blockchain" => op = "resetAll"
    /\ stmt = InsertBlockStmt(VoteLedger) => op \in {"castVote", "resetAll"}
    /\ stmt \in {"SELECT is_open", "SET is_open", "CLEAR is_open"}
          => op = "toggleElectionStatus"

\* A block as addBlock leaves it: what its hash and its root cover is there.
Sound(b) == b.hash = CalculateHash(b) /\ b.merkleRoot = MerkleRoot(b.data)

\* The block that a request stores on the vote ledger.
OwnBlock(input, q) ==
    q.stmt = InsertBlockStmt(VoteLedger) =>
        /\ Sound(q.block)
        /\ q.block.timestamp = q.req
        /\ input.op = "castVote" => q.block.data = <<"vote", input.user, input.candidate>>
        /\ input.op = "resetAll" => q.block = GenesisBlock(q.req)

Own(input, q) == MayIssue(input.op, q.stmt) /\ OwnBlock(input, q)

OwnStatement(q) == Own(req[q.req], q)

\* A request that waits for a statement has not been answered, and waits for
\* no other.
Waits(i) == Awaited(queue[i]) => reply[queue[i].req] = NULL

OneEach ==
    \A i, j \in 1..Len(queue) :
        Awaited(queue[i]) /\ Awaited(queue[j]) /\ queue[i].req = queue[j].req => i = j

\* What a request was admitted with; those answered before it stay answered.
\* Nobody is answered who has not asked.
Admitted(r) ==
    /\ req[r] = NULL => reply[r] = NULL
    /\ req[r] # NULL =>
          /\ req[r].op \in Operations
          /\ req[r].op \in {"castVote", "deleteUser", "resetUserVote"} => req[r].user \in Users
          /\ \A s \in req[r].after : reply[s] # NULL

HandlersInv ==
    /\ \A i \in 1..Len(queue) : OwnStatement(queue[i]) /\ Waits(i)
    /\ OneEach
    /\ \A r \in Requests : Admitted(r)

(***************************************************************************)
(* What all callbacks have in common: they issue at most one statement to  *)
(* wait for, or answer.                                                    *)
(***************************************************************************)
\* The order of the statements in the source.
Follows(stmt, next) ==
    \/ stmt = "SELECT settings"   /\ next = "SELECT sudah_vote"
    \/ stmt = "SELECT sudah_vote" /\ next = "SELECT candidate"
    \/ stmt = "SELECT candidate"  /\ next = "INSERT votes"
    \/ stmt = "INSERT votes"      /\ next = "SET sudah_vote"
    \/ stmt = "SET sudah_vote"    /\ next \in {"UPDATE keys", InsertBlockStmt(VoteLedger)}
    \/ stmt = "DELETE votes"      /\ next = "CLEAR sudah_vote"
    \/ stmt = "CLEAR sudah_vote"  /\ next \in {"DELETE blockchain", InsertBlockStmt(AuditLedger)}
    \/ stmt = "DELETE blockchain" /\ next = InsertBlockStmt(VoteLedger)
    \/ stmt = "SELECT is_open"    /\ next \in {"SET is_open", "CLEAR is_open"}
    \/ /\ stmt \in {"DELETE users", "SET is_open", "CLEAR is_open", InsertBlockStmt(VoteLedger)}
       /\ next = InsertBlockStmt(AuditLedger)
    \/ stmt = InsertBlockStmt(AuditLedger) /\ next = "INSERT audit_logs"

IssuesOwn(r, qs) ==
    /\ qs \in Seq(Queries)
    /\ Issue(qs)
    /\ \A j \in 1..Len(qs) :
          qs[j].req = r /\ OwnStatement(qs[j]) /\ Follows(Head(queue).stmt, qs[j].stmt)
    /\ \A j, k \in 1..Len(qs) : Awaited(qs[j]) /\ Awaited(qs[k]) => j = k

\* castVote goes on from a check when it is passed.
Passed(r, stmt) ==
    /\ stmt = "SELECT settings"   => settings.is_open
    /\ stmt = "SELECT sudah_vote" => ~users[req[r].user].sudah_vote

\* Only recordAuditLog goes on after an error.
GoesOn(r) ==
    \E qs : /\ IssuesOwn(r, qs)
            /\ \/ Succeeds(r, Head(queue).stmt)
               \/ Head(queue).stmt = InsertBlockStmt(AuditLedger)
            /\ Passed(r, Head(queue).stmt)
            /\ Awaited(Head(queue)) <=> qs # <<>>
            /\ reply' = reply

\* After a success it is a check or the last statement that answers; of the
\* two statements of recordAuditLog it is the second.
MayAnswer(r, stmt) ==
    \/ Fails(r, stmt) /\ stmt # InsertBlockStmt(AuditLedger)
    \/ stmt \in {"SELECT settings", "SELECT sudah_vote", "SELECT candidate", "INSERT audit_logs"}

AnswersClient(r) ==
    /\ Awaited(Head(queue))
    /\ MayAnswer(r, Head(queue).stmt)
    /\ Issue(<<>>)
    /\ \E message \in Replies :
          /\ message # "connection lost"
          /\ message = "ok" <=> Head(queue).stmt = "INSERT audit_logs"
          /\ reply' = [reply EXCEPT ![r] = message]

Turn(r) == GoesOn(r) \/ AnswersClient(r)

\* The queue after a callback, position by position.
LEMMA IssueIndices ==
    ASSUME queue \in Seq(Queries), queue # <<>>, NEW qs \in Seq(Queries), Issue(qs)
    PROVE  /\ queue' \in Seq(Queries)
           /\ Len(queue) \in Nat \ {0} /\ Len(qs) \in Nat
           /\ Len(queue') = Len(queue) - 1 + Len(qs)
           /\ \A i \in 1..Len(queue) - 1 : queue'[i] = queue[i + 1]
           /\ \A j \in 1..Len(qs) : queue'[Len(queue) - 1 + j] = qs[j]
<1> DEFINE rest == Tail(queue)
<1>1. /\ rest \in Seq(Queries) /\ Len(rest) = Len(queue) - 1
      /\ \A i \in 1..Len(rest) : rest[i] = queue[i + 1]
  BY HeadTailProperties
<1>2. Len(queue) \in Nat \ {0} /\ Len(qs) \in Nat
  BY EmptySeq
<1>3. queue' = rest \o qs
  BY DEF Issue
<1> HIDE DEF rest
<1>4. /\ rest \o qs \in Seq(Queries)
      /\ Len(rest \o qs) = Len(rest) + Len(qs)
      /\ \A i \in 1..Len(rest) + Len(qs) :
            (rest \o qs)[i] = IF i <= Len(rest) THEN rest[i] ELSE qs[i - Len(rest)]
  BY <1>1, ConcatProperties
<1>5. \A i \in 1..Len(queue) - 1 : queue'[i] = queue[i + 1]
  BY <1>1, <1>2, <1>3, <1>4
<1>6. ASSUME NEW j \in 1..Len(qs) PROVE queue'[Len(queue) - 1 + j] = qs[j]
  <2>1. /\ Len(queue) - 1 + j \in 1..Len(rest) + Len(qs)
        /\ ~(Len(queue) - 1 + j <= Len(rest))
        /\ Len(queue) - 1 + j - Len(rest) = j
    BY <1>1, <1>2
  <2>2. QED
    BY <1>3, <1>4, <2>1
<1>7. QED
  BY <1>1, <1>2, <1>3, <1>4, <1>5, <1>6

\* Where a statement of the queue comes from.
LEMMA IssueOrigin ==
    ASSUME queue \in Seq(Queries), queue # <<>>, NEW qs \in Seq(Queries), Issue(qs),
           NEW i \in 1..Len(queue')
    PROVE  \/ \E k \in 1..Len(queue) : k # 1 /\ i = k - 1 /\ queue'[i] = queue[k]
           \/ \E j \in 1..Len(qs) : i = Len(queue) - 1 + j /\ queue'[i] = qs[j]
<1>1. /\ Len(queue) \in Nat \ {0} /\ Len(qs) \in Nat
      /\ Len(queue') = Len(queue) - 1 + Len(qs)
      /\ \A k \in 1..Len(queue) - 1 : queue'[k] = queue[k + 1]
      /\ \A j \in 1..Len(qs) : queue'[Len(queue) - 1 + j] = qs[j]
  BY IssueIndices
<1>2. CASE i <= Len(queue) - 1
  <2>1. i + 1 \in 1..Len(queue) /\ i + 1 # 1 /\ i = (i + 1) - 1 /\ queue'[i] = queue[i + 1]
    BY <1>1, <1>2
  <2>2. QED
    BY <2>1
<1>3. CASE i > Len(queue) - 1
  <2>1. i - (Len(queue) - 1) \in 1..Len(qs) /\ i = Len(queue) - 1 + (i - (Len(queue) - 1))
    BY <1>1, <1>3
  <2>2. QED
    BY <1>1, <2>1
<1>4. QED
  BY <1>1, <1>2, <1>3

\* After an answer only the statements behind the head are left.
LEMMA AnswerOrigin ==
    ASSUME queue \in Seq(Queries), queue # <<>>, Issue(<<>>), NEW i \in 1..Len(queue')
    PROVE  \E k \in 1..Len(queue) : k # 1 /\ i = k - 1 /\ queue'[i] = queue[k]
<1>1. <<>> \in Seq(Queries) /\ 1..Len(<<>>) = {}
  BY EmptySeq
<1>2. QED
  BY <1>1, IssueOrigin

LEMMA HeadOwn ==
    ASSUME TypeInv, HandlersInv, queue # <<>>
    PROVE  /\ queue \in Seq(Queries) /\ 1 \in 1..Len(queue) /\ Head(queue) = queue[1]
           /\ OwnStatement(Head(queue))
           /\ Awaited(Head(queue)) => reply[Head(queue).req] = NULL
<1>1. queue \in Seq(Queries)
  BY DEF TypeInv, TypeOK, MemoryOK
<1>2. 1 \in 1..Len(queue) /\ Head(queue) = queue[1]
  BY <1>1, EmptySeq
<1>3. QED
  BY <1>1, <1>2 DEF HandlersInv, Waits

LEMMA OneOwn ==
    ASSUME NEW r, NEW q \in Queries, q.req = r, OwnStatement(q), Issue(<<q>>),
           Follows(Head(queue).stmt, q.stmt)
    PROVE  IssuesOwn(r, <<q>>)
<1>1. <<q>> \in Seq(Queries) /\ Len(<<q>>) = 1 /\ <<q>>[1] = q
  OBVIOUS
<1>2. \A j \in 1..Len(<<q>>) : j = 1
  BY <1>1
<1>3. QED
  BY <1>1, <1>2 DEF IssuesOwn

LEMMA ProceedTurn ==
    ASSUME TypeInv, NEW r, NEW stmt,
           Succeeds(r, stmt) \/ (Fails(r, stmt) /\ stmt = InsertBlockStmt(AuditLedger)),
           stmt # "UPDATE keys",
           Passed(r, stmt), NEW next, Follows(stmt, next),
           NEW block, Query(r, next, block) \in Queries,
           OwnStatement(Query(r, next, block)), Proceed(r, next, block)
    PROVE  Turn(r)
<1>1. Query(r, next, block).req = r /\ Query(r, next, block).stmt = next
  BY DEF Query
<1>2. IssuesOwn(r, <<Query(r, next, block)>>)
  BY <1>1, OneOwn, StatementType DEF Proceed
<1>3. Awaited(Head(queue)) /\ Head(queue).stmt = stmt
  BY StatementType DEF Awaited
<1>4. QED
  BY <1>2, <1>3 DEF Turn, GoesOn, Proceed

LEMMA AnswerTurn ==
    ASSUME TypeInv, NEW r, NEW stmt, Succeeds(r, stmt) \/ Fails(r, stmt),
           stmt # "UPDATE keys", MayAnswer(r, stmt),
           NEW message \in Replies, message # "connection lost",
           message = "ok" => stmt = "INSERT audit_logs",
           stmt = "INSERT audit_logs" => message = "ok",
           Answer(r, message)
    PROVE  Turn(r)
<1>1. Awaited(Head(queue)) /\ Head(queue).stmt = stmt
  BY StatementType DEF Awaited
<1>2. QED
  BY <1>1 DEF Turn, AnswersClient, Answer

\* An answer other than that the request was done.
LEMMA ErrorTurn ==
    ASSUME TypeInv, NEW r,
           NEW stmt \in {"SELECT settings", "SELECT sudah_vote", "SELECT candidate",
                         "SELECT is_open", "INSERT votes", "DELETE votes", "SET sudah_vote",
                         "CLEAR sudah_vote", "DELETE users", "SET is_open", "CLEAR is_open",
                         "DELETE blockchain", "INSERT blockchain"},
           \/ Fails(r, stmt)
           \/ /\ Succeeds(r, stmt)
              /\ stmt \in {"SELECT settings", "SELECT sudah_vote", "SELECT candidate"},
           NEW message \in Replies \ {"ok", "connection lost"},
           Answer(r, message)
    PROVE  Turn(r)
<1>1. stmt \notin {"UPDATE keys", "INSERT audit_logs"}
  OBVIOUS
<1>2. stmt # InsertBlockStmt(AuditLedger)
  BY DEF InsertBlockStmt, AuditLedger, VoteLedger
<1>3. MayAnswer(r, stmt)
  BY <1>2 DEF MayAnswer
<1>4. QED
  BY <1>1, <1>3, AnswerTurn

LEMMA RecordTurn ==
    ASSUME TypeInv, up, NEW r, NEW stmt, Succeeds(r, stmt),
           Follows(stmt, InsertBlockStmt(AuditLedger)), RecordAuditLog(r)
    PROVE  Turn(r)
<1> DEFINE q == Query(r, InsertBlockStmt(AuditLedger), NextAuditBlock(r))
<1>1. q \in Queries
  BY StatementType, NextAuditBlockType, QueryType DEF Ledgers
<1>2. q.req = r /\ OwnStatement(q) /\ q.stmt = InsertBlockStmt(AuditLedger)
  BY DEF Query, OwnStatement, Own, MayIssue, OwnBlock, InsertBlockStmt, VoteLedger, AuditLedger
<1>3. Issue(<<q>>) /\ reply' = reply
  BY DEF RecordAuditLog, AddBlock
<1> HIDE DEF q
<1>4. Head(queue).stmt = stmt
  BY DEF Succeeds, Executes
<1>5. IssuesOwn(r, <<q>>)
  BY <1>1, <1>2, <1>3, <1>4, OneOwn
<1>6. Awaited(Head(queue))
  BY <1>4 DEF Awaited, Follows, InsertBlockStmt, VoteLedger, AuditLedger
<1>7. Passed(r, stmt)
  BY DEF Passed, Follows, InsertBlockStmt, VoteLedger, AuditLedger
<1>8. QED
  BY <1>3, <1>4, <1>5, <1>6, <1>7 DEF Turn, GoesOn

\* The handler of a statement's callback.
LEMMA HandlerOf ==
    ASSUME TypeInv, HandlersInv, NEW r, NEW stmt, Succeeds(r, stmt) \/ Fails(r, stmt)
    PROVE  MayIssue(req[r].op, stmt)
BY StatementType, HeadOwn DEF OwnStatement, Own

LEMMA ProceedOwn ==
    ASSUME TypeInv, HandlersInv, NEW r, NEW stmt,
           Succeeds(r, stmt) \/ (Fails(r, stmt) /\ stmt = InsertBlockStmt(AuditLedger)),
           stmt # "UPDATE keys", Passed(r, stmt),
           NEW next \in Statements, Follows(stmt, next),
           OwnStatement(Query(r, next, NULL)), Proceed(r, next, NULL)
    PROVE  Turn(r)
BY StatementType, QueryType, ProceedTurn

\* What the blocks of a vote and of a reset hold.
LEMMA NewBlockSound ==
    ASSUME NEW c, NEW t, NEW d, NEW k
    PROVE  /\ Sound(NewBlock(c, t, d, k)) /\ NewBlock(c, t, d, k).timestamp = t
           /\ NewBlock(c, t, d, k).data = d /\ NewBlock(c, t, d, k).publicKey = k
           /\ NewBlock(c, t, d, k).signature = SignData(k, d)
           /\ NewBlock(c, t, d, k).index = Len(c)
           /\ NewBlock(c, t, d, k).previousHash = GetLatestBlock(c).hash
BY DEF NewBlock, Link, Block, Sound, CalculateHash

LEMMA GenesisSound ==
    ASSUME NEW t
    PROVE  /\ Sound(GenesisBlock(t)) /\ GenesisBlock(t).timestamp = t
           /\ GenesisBlock(t).data = GenesisData /\ GenesisBlock(t).index = 0
BY DEF GenesisBlock, Block, Sound, CalculateHash

LEMMA FlagSetTurn ==
    ASSUME TypeInv, HandlersInv, up, NEW r \in Requests, FlagSet(r)
    PROVE  Turn(r)
<1> DEFINE b      == NextVoteBlock(r)
           insert == Query(r, InsertBlockStmt(VoteLedger), b)
           update == Query(r, "UPDATE keys", NULL)
           qs     == IF req[r].key = NULL THEN <<update, insert>> ELSE <<insert>>
<1>1. Succeeds(r, "SET sudah_vote") /\ Issue(qs) /\ reply' = reply
  BY DEF FlagSet
<1>2. /\ b \in Blocks
      /\ Sound(b) /\ b.timestamp = r /\ b.data = <<"vote", req[r].user, req[r].candidate>>
  <2>1. b = NewBlock(chain[VoteLedger], r, VoteData(r), SigningKey(r))
    BY DEF NextVoteBlock
  <2>2. b \in Blocks
    BY <1>1, NextVoteBlockType
  <2> HIDE DEF b
  <2>3. Sound(b) /\ b.timestamp = r /\ b.data = VoteData(r)
    BY <2>1, NewBlockSound
  <2>4. QED
    BY <2>2, <2>3 DEF VoteData
<1> HIDE DEF b
<1>3. insert \in Queries /\ update \in Queries
  BY <1>2, QueryType DEF Ledgers, Statements
<1>4. req[r].op = "castVote"
  BY <1>1, HandlerOf DEF MayIssue
<1>5. /\ insert.req = r /\ OwnStatement(insert) /\ Follows(Head(queue).stmt, insert.stmt)
      /\ update.req = r /\ OwnStatement(update) /\ Follows(Head(queue).stmt, update.stmt)
      /\ ~Awaited(update)
  BY <1>1, <1>2, <1>4 DEF OwnStatement, Own, MayIssue, OwnBlock, Query, Awaited,
     InsertBlockStmt, VoteLedger, Follows, Succeeds, Executes
<1> HIDE DEF insert, update
<1>6. /\ <<update, insert>> \in Seq(Queries) /\ Len(<<update, insert>>) = 2
      /\ <<update, insert>>[1] = update /\ <<update, insert>>[2] = insert
      /\ <<insert>> \in Seq(Queries) /\ Len(<<insert>>) = 1 /\ <<insert>>[1] = insert
  BY <1>3
<1>7. IssuesOwn(r, qs)
  <2>1. CASE req[r].key = NULL
    <3>1. qs = <<update, insert>>
      BY <2>1
    <3>2. Issue(qs)
      BY <1>1
    <3> HIDE DEF qs
    <3>3. Len(qs) = 2 /\ qs[1] = update /\ qs[2] = insert
      BY <1>6, <3>1
    <3>4. \A j \in 1..Len(qs) : \/ j = 1 /\ qs[j] = update
                                \/ j = 2 /\ qs[j] = insert
      BY <3>3
    <3>5. QED
      BY <1>5, <1>6, <3>1, <3>2, <3>4 DEF IssuesOwn
  <2>2. CASE req[r].key # NULL
    <3>1. qs = <<insert>>
      BY <2>2
    <3> HIDE DEF qs
    <3>2. Issue(<<insert>>)
      BY <1>1, <3>1
    <3>3. QED
      BY <1>3, <1>5, <3>1, <3>2, OneOwn
  <2>3. QED
    BY <2>1, <2>2
<1>8. Awaited(Head(queue)) /\ Head(queue).stmt = "SET sudah_vote" /\ Passed(r, "SET sudah_vote")
  BY <1>1 DEF Succeeds, Executes, Awaited, Passed
<1>9. QED
  BY <1>1, <1>7, <1>8 DEF Turn, GoesOn

LEMMA CastVoteTurn ==
    ASSUME TypeInv, HandlersInv, up, NEW r \in Requests, CastVote(r)
    PROVE  Turn(r)
<1> USE DEF Statements, Replies, Follows, Passed
<1>1. ASSUME NEW stmt \in {"SELECT settings", "SELECT sudah_vote", "SELECT candidate",
                           "INSERT votes"},
             Succeeds(r, stmt)
      PROVE  \A next \in {"SELECT sudah_vote", "SELECT candidate", "INSERT votes",
                          "SET sudah_vote"} : OwnStatement(Query(r, next, NULL))
  BY <1>1, HandlerOf DEF OwnStatement, Own, MayIssue, OwnBlock, Query, InsertBlockStmt, VoteLedger
<1>2. CASE CheckSettings(r)
  BY <1>1, <1>2, ProceedOwn, ErrorTurn DEF CheckSettings, VotingAccepted
<1>3. CASE CheckSudahVote(r)
  BY <1>1, <1>3, ProceedOwn, ErrorTurn DEF CheckSudahVote
<1>4. CASE CheckCandidate(r)
  BY <1>1, <1>4, ProceedOwn, ErrorTurn DEF CheckCandidate
<1>5. CASE CheckFails(r)
  BY <1>5, ErrorTurn DEF CheckFails
<1>6. CASE VoteSaved(r)
  BY <1>1, <1>6, ProceedOwn DEF VoteSaved
<1>7. CASE VoteNotSaved(r)
  BY <1>7, ErrorTurn DEF VoteNotSaved
<1>8. CASE FlagSet(r)
  BY <1>8, FlagSetTurn
<1>9. CASE FlagNotSet(r)
  BY <1>9, ErrorTurn DEF FlagNotSet
<1>10. CASE KeysSaved(r)
  <2>1. <<>> \in Seq(Queries) /\ 1..Len(<<>>) = {}
    BY EmptySeq
  <2>2. IssuesOwn(r, <<>>)
    BY <1>10, <2>1 DEF KeysSaved, IssuesOwn
  <2>3. /\ Succeeds(r, Head(queue).stmt) /\ reply' = reply /\ ~Awaited(Head(queue))
        /\ Passed(r, Head(queue).stmt)
    BY <1>10 DEF KeysSaved, Succeeds, Executes, Awaited, Passed
  <2>4. QED
    BY <2>2, <2>3 DEF Turn, GoesOn
<1>11. CASE VoteBlockSaved(r)
  BY <1>11, RecordTurn DEF VoteBlockSaved, InsertBlockStmt
<1>12. CASE VoteBlockLost(r)
  BY <1>12, ErrorTurn DEF VoteBlockLost, InsertBlockStmt, VoteLedger
<1>13. QED
  BY <1>2, <1>3, <1>4, <1>5, <1>6, <1>7, <1>8, <1>9, <1>10, <1>11, <1>12 DEF CastVote

LEMMA UserAdminTurn ==
    ASSUME TypeInv, HandlersInv, up, NEW r \in Requests, UserAdmin(r)
    PROVE  Turn(r)
<1> USE DEF Statements, Replies, Follows, Passed
<1>1. CASE UserDeleted(r)
  BY <1>1, RecordTurn DEF UserDeleted
<1>2. CASE UserNotDeleted(r)
  BY <1>2, ErrorTurn DEF UserNotDeleted
<1>3. CASE VotesDeleted(r)
  <2>1. OwnStatement(Query(r, "CLEAR sudah_vote", NULL))
    BY <1>3, HandlerOf
       DEF VotesDeleted, OwnStatement, Own, MayIssue, OwnBlock, Query, InsertBlockStmt, VoteLedger
  <2>2. QED
    BY <1>3, <2>1, ProceedOwn DEF VotesDeleted
<1>4. CASE VotesNotDeleted(r)
  BY <1>4, ErrorTurn DEF VotesNotDeleted
<1>5. CASE FlagsCleared(r)
  <2>1. req[r].op = "resetAll" => OwnStatement(Query(r, "DELETE blockchain", NULL))
    BY DEF OwnStatement, Own, MayIssue, OwnBlock, Query, InsertBlockStmt, VoteLedger
  <2>2. QED
    BY <1>5, <2>1, ProceedOwn, RecordTurn DEF FlagsCleared
<1>6. CASE FlagsNotCleared(r)
  BY <1>6, ErrorTurn DEF FlagsNotCleared
<1>7. CASE BlocksDeleted(r)
  <2> DEFINE q == Query(r, InsertBlockStmt(VoteLedger), GenesisBlock(r))
  <2>1. q \in Queries
    BY QueryType, GenesisType DEF Ledgers, Timestamps
  <2>2. OwnStatement(q)
    BY <1>7, HandlerOf, GenesisSound
       DEF BlocksDeleted, OwnStatement, Own, MayIssue, OwnBlock, Query, InsertBlockStmt, VoteLedger
  <2>3. QED
    BY <1>7, <2>1, <2>2, ProceedTurn DEF BlocksDeleted
<1>8. CASE GenesisSaved(r)
  <2> DEFINE q == Query(r, InsertBlockStmt(AuditLedger), NextAuditBlock(r))
  <2>1. q \in Queries
    BY NextAuditBlockType, QueryType DEF Ledgers
  <2>2. q.req = r /\ OwnStatement(q) /\ Follows(Head(queue).stmt, q.stmt)
    BY <1>8 DEF GenesisSaved, Succeeds, Executes, Query, OwnStatement, Own, MayIssue, OwnBlock,
       InsertBlockStmt, VoteLedger, AuditLedger, Follows
  <2>3. Issue(<<q>>) /\ reply' = reply
    BY <1>8 DEF GenesisSaved
  <2> HIDE DEF q
  <2>4. IssuesOwn(r, <<q>>)
    BY <2>1, <2>2, <2>3, OneOwn
  <2>5. /\ Awaited(Head(queue)) /\ Succeeds(r, Head(queue).stmt)
        /\ Passed(r, Head(queue).stmt)
    BY <1>8 DEF GenesisSaved, Succeeds, Executes, Awaited, InsertBlockStmt
  <2>6. QED
    BY <2>3, <2>4, <2>5 DEF Turn, GoesOn
<1>9. CASE ResetChainFails(r)
  BY <1>9, ErrorTurn DEF ResetChainFails, InsertBlockStmt, VoteLedger
<1>10. QED
  BY <1>1, <1>2, <1>3, <1>4, <1>5, <1>6, <1>7, <1>8, <1>9 DEF UserAdmin

LEMMA SettingsAdminTurn ==
    ASSUME TypeInv, HandlersInv, up, NEW r \in Requests, SettingsAdmin(r)
    PROVE  Turn(r)
<1> USE DEF Statements, Replies, Follows, Passed
<1>1. CASE StatusRead(r)
  <2>1. PICK next \in {"CLEAR is_open", "SET is_open"} : Proceed(r, next, NULL)
    BY <1>1 DEF StatusRead
  <2>2. OwnStatement(Query(r, next, NULL))
    BY <1>1, HandlerOf
       DEF StatusRead, OwnStatement, Own, MayIssue, OwnBlock, Query, InsertBlockStmt, VoteLedger
  <2>3. QED
    BY <1>1, <2>1, <2>2, ProceedOwn DEF StatusRead
<1>2. CASE StatusUpdated(r)
  BY <1>2, RecordTurn DEF StatusUpdated
<1>3. CASE StatusNotRead(r)
  BY <1>3, ErrorTurn DEF StatusNotRead
<1>4. CASE StatusNotUpdated(r)
  BY <1>4, ErrorTurn DEF StatusNotUpdated
<1>5. QED
  BY <1>1, <1>2, <1>3, <1>4 DEF SettingsAdmin

LEMMA RecordAuditTurn ==
    ASSUME TypeInv, HandlersInv, NEW r \in Requests, RecordAudit(r)
    PROVE  Turn(r)
<1> USE DEF InsertBlockStmt, VoteLedger, AuditLedger, Follows, Passed
<1>1. \A block : OwnStatement(Query(r, "INSERT audit_logs", block))
  BY DEF OwnStatement, Own, MayIssue, OwnBlock, Query
<1>2. CASE AuditBlockSaved(r)
  <2>1. Head(queue).block \in Blocks \cup {NULL}
    BY <1>2, StatementType, HeadUnderway DEF AuditBlockSaved, Underway, Queries
  <2>2. Query(r, "INSERT audit_logs", Head(queue).block) \in Queries
    BY <2>1, QueryType DEF Statements
  <2>3. QED
    BY <1>1, <1>2, <2>2, ProceedTurn DEF AuditBlockSaved
<1>3. CASE AuditBlockLost(r)
  BY <1>1, <1>3, ProceedOwn DEF AuditBlockLost, Statements
<1>4. CASE AuditLogSaved(r)
  BY <1>4, AnswerTurn DEF MayAnswer, AuditLogSaved, Replies
<1>5. CASE AuditLogLost(r)
  BY <1>5, AnswerTurn DEF MayAnswer, AuditLogLost, Replies
<1>6. QED
  BY <1>2, <1>3, <1>4, <1>5 DEF RecordAudit

LEMMA CallbackTurn ==
    ASSUME TypeInv, HandlersInv, up, NEW r \in Requests, Callback(r)
    PROVE  Turn(r)
BY CastVoteTurn, UserAdminTurn, SettingsAdminTurn, RecordAuditTurn DEF Callback

\* Every set of positions has a first and a last one.
LEMMA FirstPosition ==
    ASSUME NEW S \in SUBSET Nat, S # {}
    PROVE  \E i \in S : \A j \in S : i <= j
<1>1. PICK i \in S : \A j \in S : ~(<<j, i>> \in OpToRel(<, Nat))
  BY WFMin, NatLessThanWellFounded
<1>2. \A j \in S : ~(j < i)
  BY <1>1 DEF OpToRel
<1>3. \A j \in S : i <= j
  BY <1>2
<1>4. QED
  BY <1>3

LEMMA LastPosition ==
    ASSUME NEW n \in Nat, NEW S \in SUBSET (1..n), S # {}
    PROVE  \E i \in S : \A j \in S : j <= i
<1> DEFINE T == {n - i : i \in S}
<1>1. T \in SUBSET Nat /\ T # {}
  <2>1. ASSUME NEW i \in S PROVE n - i \in Nat
    <3>1. i \in 1..n
      OBVIOUS
    <3>2. QED
      BY <3>1
  <2>2. QED
    BY <2>1
<1> HIDE DEF T
<1>2. PICK t \in T : \A s \in T : t <= s
  BY <1>1, FirstPosition
<1>3. PICK i \in S : t = n - i
  BY <1>2 DEF T
<1>4. ASSUME NEW j \in S PROVE j <= i
  <2>1. n - j \in T
    BY DEF T
  <2>2. n - i <= n - j
    BY <1>2, <1>3, <2>1
  <2>3. n \in Nat /\ i \in Nat /\ j \in Nat
    OBVIOUS
  <2>4. QED
    BY <2>2, <2>3
<1>5. QED
  BY <1>4

\* The rows of a table or a chain to which a block is added.
LEMMA AppendedRow ==
    ASSUME NEW old \in Seq(Blocks), NEW b \in Blocks, NEW new, new = Append(old, b)
    PROVE  /\ \A i \in 1..Len(old) : i \in 1..Len(new) /\ new[i] = old[i]
           /\ \A i \in 1..Len(new) : (i \in 1..Len(old) /\ new[i] = old[i]) \/ new[i] = b
           /\ \E i \in 1..Len(new) : new[i] = b
<1>1. /\ Len(old) \in Nat /\ Len(new) = Len(old) + 1
      /\ \A i \in 1..Len(old) : new[i] = old[i]
      /\ new[Len(old) + 1] = b
  BY AppendProperties
<1>2. Len(old) + 1 \in 1..Len(new)
  BY <1>1
<1>3. \A i \in 1..Len(new) : i \in 1..Len(old) \/ i = Len(old) + 1
  BY <1>1
<1>4. \A i \in 1..Len(old) : i \in 1..Len(new)
  BY <1>1
<1>5. QED
  BY <1>1, <1>2, <1>3, <1>4

\* Two callbacks change the chain of the votes in memory.
LEMMA VoteChain ==
    ASSUME TypeInv, NEW r, Callback(r)
    PROVE  chain'[VoteLedger] = chain[VoteLedger] \/ FlagSet(r) \/ GenesisSaved(r)
<1>1. \A b : AddBlock(r, AuditLedger, b) => chain'[VoteLedger] = chain[VoteLedger]
  BY DEF AddBlock, TypeInv, TypeOK, MemoryOK, Ledgers, VoteLedger, AuditLedger
<1> USE DEF Proceed, Answer, RecordAuditLog
<1>2. CASE CastVote(r)
  BY <1>1, <1>2 DEF CastVote, CheckSettings, CheckSudahVote, CheckCandidate, CheckFails,
     VoteSaved, VoteNotSaved, FlagNotSet, KeysSaved, VoteBlockSaved, VoteBlockLost
<1>3. CASE UserAdmin(r)
  BY <1>1, <1>3 DEF UserAdmin, UserDeleted, UserNotDeleted, VotesDeleted, VotesNotDeleted,
     FlagsCleared, FlagsNotCleared, BlocksDeleted, ResetChainFails
<1>4. CASE SettingsAdmin(r)
  BY <1>1, <1>4 DEF SettingsAdmin, StatusRead, StatusNotRead, StatusUpdated, StatusNotUpdated
<1>5. CASE RecordAudit(r)
  BY <1>5 DEF RecordAudit, AuditBlockSaved, AuditBlockLost, AuditLogSaved, AuditLogLost
<1>6. QED
  BY <1>2, <1>3, <1>4, <1>5 DEF Callback

LEMMA ArriveChain ==
    ASSUME NEW r \in Requests, Arrive(r)
    PROVE  chain' = chain \/ HackArrives(r)
BY DEF Arrive, CastVoteArrives, DeleteUserArrives, ResetUserVoteArrives, ResetAllArrives,
   ToggleArrives

\* The chain that a restart loads holds the rows of the table.
LEMMA RestartRows ==
    ASSUME TypeInv, Restart
    PROVE  /\ \/ blocks'[VoteLedger] = blocks[VoteLedger]
              \/ blocks[VoteLedger] = <<>> /\ blocks'[VoteLedger] = <<BootGenesis>>
           /\ \A i \in 1..Len(chain'[VoteLedger]) :
                 \E j \in 1..Len(blocks'[VoteLedger]) :
                    chain'[VoteLedger][i] = blocks'[VoteLedger][j]
<1>1. /\ \/ blocks'[VoteLedger] = blocks[VoteLedger]
         \/ blocks[VoteLedger] = <<>> /\ blocks'[VoteLedger] = <<BootGenesis>>
      /\ blocks'[VoteLedger] = TablesAfterBoot[VoteLedger]
      /\ TablesAfterBoot[VoteLedger] # <<>>
  BY DEF Restart, TablesAfterBoot, Ledgers
<1>2. blocks'[VoteLedger] \in Seq(Blocks)
  BY RestartType DEF TypeInv, TypeOK, TablesOK, Ledgers
<1>3. PICK v \in LoadOrders(TablesAfterBoot[VoteLedger]) :
          \E a \in LoadOrders(TablesAfterBoot[AuditLedger]) :
              chain' = [l \in Ledgers |-> IF l = VoteLedger THEN v ELSE a]
  BY DEF Restart
<1>4. chain'[VoteLedger] = v
  BY <1>3 DEF Ledgers
<1>5. \A i \in 1..Len(v) : \E j \in 1..Len(TablesAfterBoot[VoteLedger]) :
          v[i] = TablesAfterBoot[VoteLedger][j]
  <2>1. TablesAfterBoot[VoteLedger] \in Seq(Blocks)
    BY <1>1, <1>2
  <2>2. QED
    BY <1>1, <2>1, LoadOrdersType
<1>6. QED
  BY <1>1, <1>4, <1>5

(***************************************************************************)
(* Every step keeps the invariant.                                         *)
(***************************************************************************)
LEMMA TurnHandlers ==
    ASSUME TypeInv, HandlersInv, queue # <<>>, req' = req,
           NEW r \in Requests, r = Head(queue).req, Turn(r)
    PROVE  HandlersInv'
<1>1. /\ queue \in Seq(Queries) /\ 1 \in 1..Len(queue) /\ Head(queue) = queue[1]
      /\ Awaited(queue[1]) => reply[r] = NULL
  BY HeadOwn
<1>2. \A message \in Replies : message # NULL
  BY NullAssumption
<1>3. reply \in [Requests -> Replies \cup {NULL}]
  BY DEF TypeInv, TypeOK, RequestsOK
<1>4. \A i, j \in 1..Len(queue) :
          Awaited(queue[i]) /\ Awaited(queue[j]) /\ queue[i].req = queue[j].req => i = j
  BY DEF HandlersInv, OneEach
<1>5. /\ \A i \in 1..Len(queue) : Own(req[queue[i].req], queue[i])
      /\ \A i \in 1..Len(queue) : Awaited(queue[i]) => reply[queue[i].req] = NULL
  BY DEF HandlersInv, OwnStatement, Waits
<1>6. CASE GoesOn(r)
  <2>1. PICK qs : /\ IssuesOwn(r, qs)
                  /\ Awaited(Head(queue)) <=> qs # <<>>
                  /\ reply' = reply
    BY <1>6 DEF GoesOn
  <2>2. /\ qs \in Seq(Queries) /\ Issue(qs)
        /\ \A j \in 1..Len(qs) : qs[j].req = r /\ Own(req[r], qs[j])
        /\ \A j, k \in 1..Len(qs) : Awaited(qs[j]) /\ Awaited(qs[k]) => j = k
    BY <2>1 DEF IssuesOwn, OwnStatement
  <2>3. \A j \in 1..Len(qs) : Awaited(queue[1]) /\ reply[r] = NULL
    <3>1. qs = <<>> => 1..Len(qs) = {}
      BY EmptySeq
    <3>2. QED
      BY <1>1, <2>1, <3>1
  <2>4. \A i \in 1..Len(queue') :
            \/ \E k \in 1..Len(queue) : k # 1 /\ i = k - 1 /\ queue'[i] = queue[k]
            \/ \E j \in 1..Len(qs) : i = Len(queue) - 1 + j /\ queue'[i] = qs[j]
    BY <1>1, <2>2, IssueOrigin
  <2>5. \A i \in 1..Len(queue') :
            /\ Own(req[queue'[i].req], queue'[i])
            /\ Awaited(queue'[i]) => reply[queue'[i].req] = NULL
    BY <1>5, <2>2, <2>3, <2>4
  <2>6. ASSUME NEW i \in 1..Len(queue'), NEW j \in 1..Len(queue'),
               Awaited(queue'[i]), Awaited(queue'[j]), queue'[i].req = queue'[j].req
        PROVE  i = j
    <3>1. ASSUME NEW k \in 1..Len(queue), k # 1, NEW m \in 1..Len(qs),
                 Awaited(queue[k])
          PROVE  queue[k].req # qs[m].req
      BY <1>1, <1>4, <2>2, <2>3, <3>1
    <3>2. CASE \E k \in 1..Len(queue) : k # 1 /\ i = k - 1 /\ queue'[i] = queue[k]
      BY <1>4, <2>4, <2>6, <3>1, <3>2
    <3>3. CASE \E m \in 1..Len(qs) : i = Len(queue) - 1 + m /\ queue'[i] = qs[m]
      <4>1. PICK m \in 1..Len(qs) : i = Len(queue) - 1 + m /\ queue'[i] = qs[m]
        BY <3>3
      <4>2. CASE \E k \in 1..Len(queue) : k # 1 /\ j = k - 1 /\ queue'[j] = queue[k]
        BY <2>6, <3>1, <4>1, <4>2
      <4>3. CASE \E n \in 1..Len(qs) : j = Len(queue) - 1 + n /\ queue'[j] = qs[n]
        BY <2>2, <2>6, <4>1, <4>3
      <4>4. QED
        BY <2>4, <4>2, <4>3
    <3>4. QED
      BY <2>4, <3>2, <3>3
  <2>7. \A s \in Requests : Admitted(s)'
    BY <2>1 DEF HandlersInv, Admitted
  <2>8. OneEach'
    BY <2>6 DEF OneEach, Awaited
  <2>9. \A i \in 1..Len(queue') : OwnStatement(queue[i])' /\ Waits(i)'
    BY <2>1, <2>5 DEF OwnStatement, Waits, Awaited
  <2>10. QED
    BY <2>7, <2>8, <2>9 DEF HandlersInv
<1>7. CASE AnswersClient(r)
  <2>1. PICK message \in Replies : reply' = [reply EXCEPT ![r] = message]
    BY <1>7 DEF AnswersClient
  <2>2. Awaited(queue[1]) /\ Issue(<<>>)
    BY <1>1, <1>7 DEF AnswersClient
  <2>3. \A s \in Requests : reply'[s] = reply[s] \/ (s = r /\ reply'[s] # NULL)
    BY <1>2, <1>3, <2>1
  <2>4. \A i \in 1..Len(queue') :
            \E k \in 1..Len(queue) : k # 1 /\ i = k - 1 /\ queue'[i] = queue[k]
    BY <1>1, <2>2, AnswerOrigin
  <2>5. \A k \in 1..Len(queue) : k # 1 /\ Awaited(queue[k]) => queue[k].req # r
    BY <1>1, <1>4, <2>2
  <2>6. \A i \in 1..Len(queue) : queue[i].req \in Requests
    BY <1>1 DEF Queries
  <2>7. \A i \in 1..Len(queue') :
            /\ Own(req[queue'[i].req], queue'[i])
            /\ Awaited(queue'[i]) => reply'[queue'[i].req] = NULL
    BY <1>5, <2>3, <2>4, <2>5, <2>6
  <2>8. \A i, j \in 1..Len(queue') :
            Awaited(queue'[i]) /\ Awaited(queue'[j]) /\ queue'[i].req = queue'[j].req => i = j
    BY <1>4, <2>4
  <2>9. \A s \in Requests : Admitted(s)'
    <3>1. \A s \in Requests : req[s] # NULL => req[s].after \subseteq Requests
      BY DEF TypeInv, TypeOK, RequestsOK, Inputs
    <3>2. req[r] # NULL
      BY HeadUnderway, NullAssumption
    <3>3. QED
      BY <2>3, <3>1, <3>2 DEF HandlersInv, Admitted
  <2>10. OneEach'
    BY <2>8 DEF OneEach, Awaited
  <2>11. \A i \in 1..Len(queue') : OwnStatement(queue[i])' /\ Waits(i)'
    BY <2>7 DEF OwnStatement, Waits, Awaited
  <2>12. QED
    BY <2>9, <2>10, <2>11 DEF HandlersInv
<1>8. QED
  BY <1>6, <1>7 DEF Turn

LEMMA ServeHandlers ==
    ASSUME TypeInv, HandlersInv, NEW r \in Requests, Serve(r)
    PROVE  HandlersInv'
<1>1. up /\ Callback(r)
  BY DEF Serve
<1>2. PICK stmt : Succeeds(r, stmt) \/ Fails(r, stmt)
  BY <1>1, CallbackStatement
<1>3. queue # <<>> /\ Head(queue).req = r /\ req' = req
  BY <1>2, StatementType
<1>4. Turn(r)
  BY <1>1, CallbackTurn
<1>5. QED
  BY <1>3, <1>4, TurnHandlers

\* A request that arrives with its first statement.
LEMMA ArrivesHandlers ==
    ASSUME TypeInv, HandlersInv, NEW r \in Requests, NEW input \in Inputs,
           NEW q \in Queries, q.req = r, Own(input, q),
           input.after = Answered,
           input.op \in {"castVote", "deleteUser", "resetUserVote"} => input.user \in Users,
           Arrives(r, input, <<q>>)
    PROVE  HandlersInv'
<1>1. /\ queue \in Seq(Queries) /\ queue' = queue \o <<q>> /\ reply' = reply
      /\ req[r] = NULL /\ req' = [req EXCEPT ![r] = input] /\ input.op \in Operations
  BY DEF Arrives, TypeInv, TypeOK, MemoryOK
<1>2. req \in [Requests -> Inputs \cup {NULL}] /\ input # NULL
  BY NullAssumption DEF TypeInv, TypeOK, RequestsOK
<1>3. /\ req'[r] = input
      /\ \A s \in Requests : s # r => req'[s] = req[s]
  BY <1>1, <1>2
<1>4. \A i \in 1..Len(queue) : queue[i].req \in Requests /\ queue[i].req # r
  BY <1>1, NullAssumption DEF TypeInv, QueueOK, Underway, Queries
<1>5. /\ \A i \in 1..Len(queue) : queue'[i] = queue[i]
      /\ \A i \in 1..Len(queue') : i \in 1..Len(queue) \/ queue'[i] = q
  BY <1>1, ArrivesElements
<1>6. \A i \in 1..Len(queue') : i \in 1..Len(queue) \/ (i = Len(queue) + 1 /\ queue'[i] = q)
  BY <1>1, <1>5
<1>7. /\ \A i \in 1..Len(queue) : Own(req[queue[i].req], queue[i])
      /\ \A i \in 1..Len(queue) : Awaited(queue[i]) => reply[queue[i].req] = NULL
      /\ \A i, j \in 1..Len(queue) :
          Awaited(queue[i]) /\ Awaited(queue[j]) /\ queue[i].req = queue[j].req => i = j
  BY DEF HandlersInv, OneEach, OwnStatement, Waits
<1>8. reply[r] = NULL
  BY <1>1 DEF HandlersInv, Admitted
<1>9. \A i \in 1..Len(queue') :
          /\ Own(req'[queue'[i].req], queue'[i])
          /\ Awaited(queue'[i]) => reply[queue'[i].req] = NULL
  BY <1>3, <1>4, <1>5, <1>7, <1>8
<1>10. \A i, j \in 1..Len(queue') :
          Awaited(queue'[i]) /\ Awaited(queue'[j]) /\ queue'[i].req = queue'[j].req => i = j
  BY <1>4, <1>5, <1>6, <1>7
<1>11. \A s \in Requests : Admitted(s)'
  BY <1>1, <1>2, <1>3 DEF HandlersInv, Admitted, Answered
<1>12. OneEach'
  BY <1>10 DEF OneEach, Awaited
<1>13. \A i \in 1..Len(queue') : OwnStatement(queue[i])' /\ Waits(i)'
  BY <1>1, <1>9 DEF OwnStatement, Waits, Awaited
<1>14. QED
  BY <1>11, <1>12, <1>13 DEF HandlersInv

LEMMA InputType ==
    ASSUME NEW op \in Handlers, NEW u \in Users \cup {NULL}, NEW c \in CandidateIds,
           NEW k \in KeyPairs \cup {NULL}
    PROVE  /\ Input(op, u, c, k) \in Inputs /\ Input(op, u, c, k).op = op
           /\ Input(op, u, c, k).user = u /\ Input(op, u, c, k).after = Answered
BY DEF Input, Inputs, Answered

LEMMA ArrivesWith ==
    ASSUME TypeInv, HandlersInv, NEW r \in Requests,
           NEW op \in Handlers, NEW u \in Users \cup {NULL}, NEW c \in CandidateIds,
           NEW k \in KeyPairs \cup {NULL}, NEW stmt \in Statements, MayIssue(op, stmt),
           stmt # InsertBlockStmt(VoteLedger),
           op \in {"castVote", "deleteUser", "resetUserVote"} => u \in Users,
           Arrives(r, Input(op, u, c, k), <<Query(r, stmt, NULL)>>)
    PROVE  HandlersInv'
<1> DEFINE input == Input(op, u, c, k)
           q == Query(r, stmt, NULL)
<1>1. input \in Inputs /\ input.op = op /\ input.user = u /\ input.after = Answered
  BY InputType
<1>2. q \in Queries /\ q.req = r /\ q.stmt = stmt
  BY QueryType DEF Query
<1>3. Arrives(r, input, <<q>>)
  OBVIOUS
<1>4. Own(input, q)
  BY <1>1, <1>2 DEF Own, OwnBlock
<1> HIDE DEF input, q
<1>5. QED
  BY <1>1, <1>2, <1>3, <1>4, ArrivesHandlers

LEMMA ArriveHandlers ==
    ASSUME TypeInv, HandlersInv, NEW r \in Requests, Arrive(r)
    PROVE  HandlersInv'
<1>1. /\ \A op \in {"castVote", "deleteUser", "resetUserVote", "resetAll",
                      "toggleElectionStatus"} : op \in Handlers
      /\ \A stmt \in {"SELECT settings", "DELETE users", "DELETE votes", "SELECT is_open"} :
            stmt \in Statements /\ stmt # InsertBlockStmt(VoteLedger)
      /\ NULL \in Users \cup {NULL} /\ NULL \in CandidateIds /\ NULL \in KeyPairs \cup {NULL}
  BY DEF Handlers, Statements, CandidateIds, InsertBlockStmt, VoteLedger
<1>2. /\ MayIssue("castVote", "SELECT settings") /\ MayIssue("deleteUser", "DELETE users")
      /\ MayIssue("resetUserVote", "DELETE votes") /\ MayIssue("resetAll", "DELETE votes")
      /\ MayIssue("toggleElectionStatus", "SELECT is_open")
  BY DEF MayIssue, InsertBlockStmt, VoteLedger
<1>3. CASE CastVoteArrives(r)
  <2>1. PICK u \in Users, c \in Candidates \cup BadCandidates \cup {NULL} :
            \E key \in SessionKeys(u) :
                Arrives(r, Input("castVote", u, c, key), <<Query(r, "SELECT settings", NULL)>>)
    BY <1>3 DEF CastVoteArrives
  <2>2. PICK key \in SessionKeys(u) :
            Arrives(r, Input("castVote", u, c, key), <<Query(r, "SELECT settings", NULL)>>)
    BY <2>1
  <2>3. key \in KeyPairs \cup {NULL}
    BY DEF SessionKeys, StoredKey, KeyPairs, TypeInv, TypeOK, TablesOK
  <2>4. c \in CandidateIds
    BY DEF CandidateIds
  <2>5. QED
    BY <1>1, <1>2, <2>2, <2>3, <2>4, ArrivesWith
<1>4. CASE DeleteUserArrives(r)
  BY <1>1, <1>2, <1>4, ArrivesWith DEF DeleteUserArrives
<1>5. CASE ResetUserVoteArrives(r)
  BY <1>1, <1>2, <1>5, ArrivesWith DEF ResetUserVoteArrives
<1>6. CASE ResetAllArrives(r)
  BY <1>1, <1>2, <1>6, ArrivesWith DEF ResetAllArrives
<1>7. CASE ToggleArrives(r)
  BY <1>1, <1>2, <1>7, ArrivesWith DEF ToggleArrives
<1>8. CASE HackArrives(r)
  <2> DEFINE b == NextAuditBlock(r)
             q == Query(r, InsertBlockStmt(AuditLedger), b)
             input == Input("hack", NULL, NULL, NULL)
  <2>1. up /\ Arrives(r, input, <<q>>)
    BY <1>8 DEF HackArrives, Arrives
  <2>2. q \in Queries
    BY <2>1, NextAuditBlockType, QueryType DEF Ledgers
  <2>3. q.req = r /\ MayIssue("hack", q.stmt) /\ \A x : OwnBlock(x, q)
    BY DEF Query, MayIssue, OwnBlock, InsertBlockStmt, VoteLedger, AuditLedger
  <2>4. /\ input \in Inputs /\ input.op = "hack" /\ input.after = Answered
        /\ input.op \notin {"castVote", "deleteUser", "resetUserVote"}
    <3>1. "hack" \in Handlers
      BY DEF Handlers
    <3>2. input \in Inputs
      BY <1>1, <3>1, InputType
    <3>3. input.op = "hack" /\ input.after = Answered
      BY DEF Input
    <3> HIDE DEF input
    <3>4. QED
      BY <3>2, <3>3
  <2> HIDE DEF q, input
  <2>5. QED
    BY <2>1, <2>2, <2>3, <2>4, ArrivesHandlers DEF Own
<1>9. QED
  BY <1>3, <1>4, <1>5, <1>6, <1>8, <1>7 DEF Arrive

\* The end of the process answers whoever waits.
LEMMA ProcessEndsHandlers ==
    ASSUME TypeInv, HandlersInv, ProcessEnds
    PROVE  HandlersInv'
<1>1. 1..Len(queue') = {} /\ req' = req
  <2>1. 1..Len(<<>>) = {}
    BY EmptySeq
  <2>2. QED
    BY <2>1 DEF ProcessEnds
<1>2. \A r \in Requests : Admitted(r)'
  <2>1. \A r \in Requests :
            reply'[r] = IF req[r] # NULL /\ reply[r] = NULL
                        THEN "connection lost" ELSE reply[r]
    BY DEF ProcessEnds
  <2>2. "connection lost" # NULL
    BY NullAssumption DEF Replies
  <2>3. \A r \in Requests : req[r] # NULL => req[r].after \subseteq Requests
    BY DEF TypeInv, TypeOK, RequestsOK, Inputs
  <2>4. QED
    BY <1>1, <2>1, <2>2, <2>3 DEF HandlersInv, Admitted
<1>3. QED
  BY <1>1, <1>2 DEF HandlersInv, OneEach

LEMMA StartHandlers ==
    ASSUME NEW registered \in SUBSET Users, InitWith(registered)
    PROVE  HandlersInv
<1>1. queue = <<>> /\ 1..Len(queue) = {}
  BY EmptySeq DEF InitWith
<1>2. QED
  BY <1>1 DEF InitWith, HandlersInv, OneEach, Admitted

LEMMA InitHandlers == Init => HandlersInv
BY StartHandlers DEF Init

LEMMA NextHandlers == TypeInv /\ HandlersInv /\ [Next]_vars => HandlersInv'
<1> SUFFICES ASSUME TypeInv, HandlersInv, [Next]_vars PROVE HandlersInv'
  OBVIOUS
<1>1. ASSUME NEW r \in Requests, Arrive(r) PROVE HandlersInv'
  BY <1>1, ArriveHandlers
<1>2. ASSUME NEW r \in Requests, Serve(r) PROVE HandlersInv'
  BY <1>2, ServeHandlers
<1>3. ASSUME NEW r \in Requests, FatalError(r) PROVE HandlersInv'
  BY <1>3, ProcessEndsHandlers DEF FatalError
<1>4. CASE Crash
  BY <1>4, ProcessEndsHandlers DEF Crash
<1>5. CASE Restart \/ UNCHANGED vars
  BY <1>5 DEF Restart, vars, shared, memory, HandlersInv, OneEach, OwnStatement, Waits,
     Awaited, Admitted
<1>6. QED
  BY <1>1, <1>2, <1>3, <1>4, <1>5 DEF Next

LEMMA HandlersInvariant == Spec => [](TypeInv /\ HandlersInv)
<1>1. Init => TypeInv /\ HandlersInv
  BY InitType, InitHandlers
<1>2. TypeInv /\ HandlersInv /\ [Next]_vars => (TypeInv /\ HandlersInv)'
  BY NextType, NextHandlers
<1>3. QED
  BY <1>1, <1>2, PTL DEF Spec

(***************************************************************************)
(* sudah_vote and the votes table.                                         *)
(***************************************************************************)
LastWrite(i, u) ==
    /\ WritesFlag(queue[i], u)
    /\ \A j \in 1..Len(queue) : WritesFlag(queue[j], u) => j <= i

\* FlagAgreesWithVotes for one user.
Agrees(u) ==
    /\ (\A i \in 1..Len(queue) : ~WritesFlag(queue[i], u))
          => (users[u].sudah_vote <=> HasVote(u))
    /\ \A i \in 1..Len(queue) :
          LastWrite(i, u) => (queue[i].stmt = "SET sudah_vote" <=> HasVote(u))

FlagInv == faults = 0 /\ NobodyCutOff => \A u \in DOMAIN users : Agrees(u)

\* What the oldest statement does for one user's flag, and what the statements
\* its callback issues will do.
FlagTurn(u, qs) ==
    /\ WritesFlag(Head(queue), u)
          => (users'[u].sudah_vote <=> Head(queue).stmt = "SET sudah_vote")
    /\ ~WritesFlag(Head(queue), u) => (users'[u].sudah_vote <=> users[u].sudah_vote)
    /\ \/ /\ \A j \in 1..Len(qs) : ~WritesFlag(qs[j], u)
          /\ HasVote(u)' <=> HasVote(u)
       \/ /\ Len(qs) # 0
          /\ \A j \in 1..Len(qs) :
                WritesFlag(qs[j], u) /\ (qs[j].stmt = "SET sudah_vote" <=> HasVote(u)')

LEMMA SameWrites ==
    ASSUME req' = req
    PROVE  /\ \A i, u : WritesFlag(queue[i], u)' <=> WritesFlag(queue'[i], u)
           /\ \A i, u : LastWrite(i, u)' <=>
                  /\ WritesFlag(queue'[i], u)
                  /\ \A j \in 1..Len(queue') : WritesFlag(queue'[j], u) => j <= i
BY DEF WritesFlag, Scope, LastWrite

LEMMA FlagTurnAgrees ==
    ASSUME TypeInv, queue # <<>>, req' = req, NEW qs \in Seq(Queries), Issue(qs),
           NEW u, FlagTurn(u, qs), Agrees(u)
    PROVE  Agrees(u)'
<1>1. /\ queue \in Seq(Queries) /\ 1 \in 1..Len(queue) /\ Head(queue) = queue[1]
      /\ Len(queue) \in Nat
  <2>1. queue \in Seq(Queries)
    BY DEF TypeInv, TypeOK, MemoryOK
  <2>2. QED
    BY <2>1, EmptySeq
<1>2. /\ Len(queue') = Len(queue) - 1 + Len(qs) /\ Len(qs) \in Nat
      /\ \A i \in 1..Len(queue) - 1 : queue'[i] = queue[i + 1]
      /\ \A j \in 1..Len(qs) : queue'[Len(queue) - 1 + j] = qs[j]
  BY <1>1, IssueIndices
<1>3. \A i \in 1..Len(queue') :
          \/ \E k \in 1..Len(queue) : k # 1 /\ i = k - 1 /\ queue'[i] = queue[k]
          \/ \E j \in 1..Len(qs) : i = Len(queue) - 1 + j /\ queue'[i] = qs[j]
  BY <1>1, IssueOrigin
<1>4. CASE /\ \A j \in 1..Len(qs) : ~WritesFlag(qs[j], u)
           /\ HasVote(u)' <=> HasVote(u)
  <2>1. \A k \in 1..Len(queue) : k # 1 => k - 1 \in 1..Len(queue') /\ queue'[k - 1] = queue[k]
    BY <1>1, <1>2
  <2>2. ASSUME \A i \in 1..Len(queue') : ~WritesFlag(queue'[i], u)
        PROVE  users'[u].sudah_vote <=> HasVote(u)'
    <3>1. \A k \in 1..Len(queue) : WritesFlag(queue[k], u) => k = 1
      BY <2>1, <2>2
    <3>2. CASE WritesFlag(queue[1], u)
      <4>1. LastWrite(1, u)
        BY <1>1, <3>1, <3>2 DEF LastWrite
      <4>2. queue[1].stmt = "SET sudah_vote" <=> HasVote(u)
        BY <1>1, <4>1 DEF Agrees
      <4>3. QED
        BY <1>1, <1>4, <3>2, <4>2 DEF FlagTurn
    <3>3. CASE ~WritesFlag(queue[1], u)
      <4>1. users[u].sudah_vote <=> HasVote(u)
        BY <3>1, <3>3 DEF Agrees
      <4>2. QED
        BY <1>1, <1>4, <3>3, <4>1 DEF FlagTurn
    <3>4. QED
      BY <3>2, <3>3
  <2>3. ASSUME NEW i \in 1..Len(queue'), WritesFlag(queue'[i], u),
               \A j \in 1..Len(queue') : WritesFlag(queue'[j], u) => j <= i
        PROVE  queue'[i].stmt = "SET sudah_vote" <=> HasVote(u)'
    <3>1. PICK k \in 1..Len(queue) : k # 1 /\ i = k - 1 /\ queue'[i] = queue[k]
      BY <1>3, <1>4, <2>3
    <3>2. ASSUME NEW j \in 1..Len(queue), WritesFlag(queue[j], u) PROVE j <= k
      <4>1. CASE j = 1
        BY <1>1, <4>1
      <4>2. CASE j # 1
        <5>1. j - 1 <= i
          BY <2>1, <2>3, <3>2, <4>2
        <5>2. QED
          BY <1>1, <3>1, <5>1
      <4>3. QED
        BY <4>1, <4>2
    <3>3. LastWrite(k, u)
      BY <2>3, <3>1, <3>2 DEF LastWrite
    <3>4. QED
      BY <1>4, <3>1, <3>3 DEF Agrees
  <2>4. QED
    BY <2>2, <2>3, SameWrites DEF Agrees
<1>5. CASE /\ Len(qs) # 0
           /\ \A j \in 1..Len(qs) :
                 WritesFlag(qs[j], u) /\ (qs[j].stmt = "SET sudah_vote" <=> HasVote(u)')
  <2>1. Len(qs) # 0 /\ \A j \in 1..Len(qs) : WritesFlag(qs[j], u)
    BY <1>5
  <2>2. /\ Len(qs) \in 1..Len(qs) /\ Len(queue') \in 1..Len(queue')
        /\ queue'[Len(queue')] = qs[Len(qs)]
    <3>1. Len(qs) \in 1..Len(qs)
      BY <1>2, <2>1
    <3>2. queue'[Len(queue) - 1 + Len(qs)] = qs[Len(qs)]
      BY <1>2, <3>1
    <3>3. Len(queue') \in Nat \ {0}
      BY <1>1, <1>2, <2>1
    <3>4. QED
      BY <1>2, <3>1, <3>2, <3>3
  <2>3. WritesFlag(queue'[Len(queue')], u)
    BY <2>1, <2>2
  <2>4. ASSUME NEW i \in 1..Len(queue'),
               \A j \in 1..Len(queue') : WritesFlag(queue'[j], u) => j <= i
        PROVE  queue'[i].stmt = "SET sudah_vote" <=> HasVote(u)'
    <3>1. i = Len(queue')
      <4>1. Len(queue') \in Nat /\ Len(queue') <= i
        BY <1>1, <1>2, <2>2, <2>3, <2>4
      <4>2. QED
        BY <4>1
    <3>2. queue'[i] = qs[Len(qs)] /\ Len(qs) \in 1..Len(qs)
      BY <2>2, <3>1
    <3>3. QED
      BY <1>5, <3>2
  <2>5. QED
    BY <2>2, <2>3, <2>4, SameWrites DEF Agrees
<1>6. QED
  BY <1>4, <1>5 DEF FlagTurn

\* What a statement does to the flag and the votes of one user.
FlagEffect(q, u) ==
    /\ u \in DOMAIN users
    /\ WritesFlag(q, u) => (users'[u].sudah_vote <=> q.stmt = "SET sudah_vote")
    /\ ~WritesFlag(q, u) => (users'[u].sudah_vote <=> users[u].sudah_vote)
    /\ q.stmt = "INSERT votes" /\ u \in Scope(q.req) => HasVote(u)'
    /\ q.stmt = "DELETE votes" /\ u \in Scope(q.req) => ~HasVote(u)'
    /\ q.stmt \in {"INSERT votes", "DELETE votes"} =>
          u \in Scope(q.req) \/ (HasVote(u)' <=> HasVote(u))
    /\ q.stmt \notin {"INSERT votes", "DELETE votes"} => (HasVote(u)' <=> HasVote(u))

LEMMA PerformFlags ==
    ASSUME TablesOK, NEW q, Perform(q), NEW u \in DOMAIN users',
           q.stmt = "INSERT votes" => req[q.req].op = "castVote"
    PROVE  FlagEffect(q, u)
<1> USE DEF HasVote, WritesFlag, FlagEffect
<1>1. \A v \in DOMAIN users : users[v].sudah_vote \in BOOLEAN /\
          users[v] \in [sudah_vote : BOOLEAN, public_key : KeyPairs \cup {NULL}]
  BY DEF TablesOK
<1>2. CASE Read(q)
  BY <1>2 DEF Read, db
<1>3. CASE InsertVote(q)
  <2> DEFINE v == [req |-> q.req, user |-> req[q.req].user, candidate |-> req[q.req].candidate]
  <2>1. /\ q.stmt = "INSERT votes" /\ users' = users /\ Scope(q.req) = {req[q.req].user}
        /\ votes' = votes \cup {v}
    BY <1>3 DEF InsertVote, Scope
  <2>2. v.user = req[q.req].user
    OBVIOUS
  <2> HIDE DEF v
  <2>3. HasVote(u)' <=> HasVote(u) \/ u = req[q.req].user
    BY <2>1, <2>2
  <2>4. QED
    BY <2>1, <2>3
<1>4. CASE DeleteVotes(q)
  BY <1>4 DEF DeleteVotes
<1>5. CASE UpdateFlag(q)
  <2>1. /\ q.stmt \in {"SET sudah_vote", "CLEAR sudah_vote"} /\ votes' = votes
        /\ u \in DOMAIN users
        /\ users'[u] = IF u \in Scope(q.req)
                       THEN [users[u] EXCEPT !.sudah_vote = (q.stmt = "SET sudah_vote")]
                       ELSE users[u]
    BY <1>5 DEF UpdateFlag
  <2>2. [users[u] EXCEPT !.sudah_vote = (q.stmt = "SET sudah_vote")].sudah_vote
           = (q.stmt = "SET sudah_vote")
    BY <1>1, <2>1
  <2>3. QED
    BY <2>1, <2>2
<1>6. CASE UpdateKeys(q)
  <2>1. /\ q.stmt = "UPDATE keys" /\ votes' = votes /\ u \in DOMAIN users
        /\ \/ users'[u] = [users[u] EXCEPT !.public_key = GeneratedKey(q.req)]
           \/ users'[u] = users[u]
    BY <1>6 DEF UpdateKeys
  <2>2. [users[u] EXCEPT !.public_key = GeneratedKey(q.req)].sudah_vote = users[u].sudah_vote
    BY <1>1, <2>1
  <2>3. QED
    BY <2>1, <2>2
<1>7. CASE DeleteUser(q)
  <2>1. /\ q.stmt = "DELETE users"
        /\ u \in DOMAIN users /\ u # req[q.req].user /\ users'[u] = users[u]
        /\ votes' = {v \in votes : v.user # req[q.req].user}
    BY <1>7 DEF DeleteUser
  <2>2. QED
    BY <2>1
<1>8. CASE UpdateIsOpen(q)
  BY <1>8 DEF UpdateIsOpen
<1>9. CASE SaveBlock(q)
  <2>1. PICK l \in Ledgers : q.stmt = InsertBlockStmt(l) /\ users' = users /\ votes' = votes
    BY <1>9 DEF SaveBlock
  <2>2. q.stmt \in {"INSERT blockchain", "INSERT audit_ledger_blocks"}
    BY <2>1 DEF InsertBlockStmt
  <2>3. QED
    BY <2>1, <2>2
<1>10. CASE DeleteBlocks(q)
  BY <1>10 DEF DeleteBlocks
<1>11. CASE InsertAuditLog(q)
  BY <1>11 DEF InsertAuditLog
<1>12. QED
  BY <1>2, <1>3, <1>4, <1>5, <1>6, <1>7, <1>8, <1>9, <1>10, <1>11 DEF Perform

LEMMA ServeFlagTurn ==
    ASSUME TypeInv, HandlersInv, NEW r \in Requests, Serve(r), faults' = 0
    PROVE  \E qs \in Seq(Queries) :
              Issue(qs) /\ \A u \in DOMAIN users' : u \in DOMAIN users /\ FlagTurn(u, qs)
<1> DEFINE q == Head(queue)
<1>1. up /\ Callback(r) /\ Turn(r)
  BY CallbackTurn DEF Serve
<1>2. PICK stmt : Succeeds(r, stmt) \/ Fails(r, stmt)
  BY <1>1, CallbackStatement
<1>3. /\ queue # <<>> /\ q.req = r /\ q.stmt = stmt
      /\ OwnStatement(q) /\ q \in Queries
  BY <1>2, StatementType, HeadOwn, HeadUnderway DEF Underway
<1>4. <<>> \in Seq(Queries) /\ Len(<<>>) = 0 /\ 1..Len(<<>>) = {}
  BY EmptySeq
<1>5. CASE Fails(r, stmt)
  <2>1. Rejected(q) /\ UNCHANGED db
    BY <1>5 DEF Fails, TypeInv, TypeOK, LifecycleOK
  <2>2. q.stmt \in {"INSERT votes", "INSERT audit_ledger_blocks"}
    BY <2>1 DEF Rejected, InsertBlockStmt, VoteLedger, AuditLedger
  <2>3. \A u \in DOMAIN users' :
            /\ u \in DOMAIN users /\ ~WritesFlag(q, u)
            /\ users'[u].sudah_vote <=> users[u].sudah_vote
            /\ HasVote(u)' <=> HasVote(u)
    BY <2>1, <2>2 DEF db, WritesFlag, HasVote
  <2>4. CASE GoesOn(r)
    <3>1. PICK qs : IssuesOwn(r, qs) /\ q.stmt = InsertBlockStmt(AuditLedger)
      BY <2>1, <2>4 DEF GoesOn, Succeeds
    <3>2. \A j \in 1..Len(qs) : qs[j].stmt = "INSERT audit_logs"
      BY <3>1 DEF IssuesOwn, Follows, InsertBlockStmt, VoteLedger, AuditLedger
    <3>3. \A u : \A j \in 1..Len(qs) : ~WritesFlag(qs[j], u)
      BY <3>2 DEF WritesFlag
    <3>4. QED
      BY <2>3, <3>1, <3>3 DEF FlagTurn, IssuesOwn
  <2>5. CASE AnswersClient(r)
    BY <1>4, <2>3, <2>5 DEF AnswersClient, FlagTurn
  <2>6. QED
    BY <1>1, <2>4, <2>5 DEF Turn
<1>6. CASE Succeeds(r, stmt) /\ ~Fails(r, stmt)
  <2>1. Perform(q) /\ req' = req
    BY <1>6 DEF Succeeds
  <2>2. q.stmt = "INSERT votes" => req[q.req].op = "castVote"
    BY <1>3 DEF OwnStatement, Own, MayIssue, OwnBlock
  <2>3. TablesOK
    BY DEF TypeInv, TypeOK
  <2> HIDE DEF q
  <2>4. \A u \in DOMAIN users' : FlagEffect(q, u)
    BY <2>1, <2>2, <2>3, PerformFlags
  <2>5. CASE GoesOn(r)
    <3>1. PICK qs : IssuesOwn(r, qs) /\ (Awaited(q) <=> qs # <<>>)
      BY <2>5 DEF GoesOn, q
    <3>2. /\ qs \in Seq(Queries) /\ Issue(qs)
          /\ \A j \in 1..Len(qs) : qs[j].req = r /\ Follows(q.stmt, qs[j].stmt)
      BY <3>1 DEF IssuesOwn, q
    <3>3. ASSUME NEW u \in DOMAIN users' PROVE FlagTurn(u, qs)
      <4>1. FlagEffect(q, u)
        BY <2>4
      <4>2. CASE q.stmt \notin {"INSERT votes", "DELETE votes"}
        <5>1. \A j \in 1..Len(qs) : ~WritesFlag(qs[j], u)
          BY <3>2, <4>2 DEF Follows, WritesFlag, InsertBlockStmt, VoteLedger, AuditLedger
        <5>2. QED
          BY <4>1, <4>2, <5>1 DEF FlagTurn, FlagEffect, q
      <4>3. CASE q.stmt \in {"INSERT votes", "DELETE votes"}
        <5>1. Len(qs) # 0
          <6>1. qs # <<>>
            BY <3>1, <4>3 DEF Awaited
          <6>2. QED
            BY <3>2, <6>1, EmptySeq
        <5>2. \A j \in 1..Len(qs) :
                  /\ qs[j].req = r
                  /\ q.stmt = "INSERT votes" => qs[j].stmt = "SET sudah_vote"
                  /\ q.stmt = "DELETE votes" => qs[j].stmt = "CLEAR sudah_vote"
          BY <3>2 DEF Follows, InsertBlockStmt, VoteLedger, AuditLedger
        <5>3. CASE u \in Scope(r)
          <6>1. \A j \in 1..Len(qs) : WritesFlag(qs[j], u)
            BY <4>3, <5>2, <5>3 DEF WritesFlag
          <6>2. \A j \in 1..Len(qs) : qs[j].stmt = "SET sudah_vote" <=> HasVote(u)'
            BY <1>3, <4>1, <4>3, <5>2, <5>3 DEF FlagEffect, q
          <6>3. QED
            BY <4>1, <5>1, <6>1, <6>2 DEF FlagTurn, FlagEffect, q
        <5>4. CASE u \notin Scope(r)
          <6>1. \A j \in 1..Len(qs) : ~WritesFlag(qs[j], u)
            BY <5>2, <5>4 DEF WritesFlag
          <6>2. HasVote(u)' <=> HasVote(u)
            BY <1>3, <4>1, <4>3, <5>4 DEF FlagEffect, q
          <6>3. QED
            BY <4>1, <6>1, <6>2 DEF FlagTurn, FlagEffect, q
        <5>5. QED
          BY <5>3, <5>4
      <4>4. QED
        BY <4>2, <4>3
    <3>4. \A u \in DOMAIN users' : u \in DOMAIN users
      BY <2>4 DEF FlagEffect
    <3>5. QED
      BY <3>2, <3>3, <3>4
  <2>6. CASE AnswersClient(r)
    <3>1. q.stmt \notin {"INSERT votes", "DELETE votes"} /\ Issue(<<>>)
      BY <1>3, <1>6, <2>6 DEF AnswersClient, MayAnswer, q
    <3>2. \A u \in DOMAIN users' : u \in DOMAIN users /\ FlagTurn(u, <<>>)
      BY <1>4, <2>4, <3>1 DEF FlagEffect, FlagTurn, q
    <3>3. QED
      BY <1>4, <3>1, <3>2
  <2>7. QED
    BY <1>1, <2>5, <2>6 DEF Turn
<1>7. QED
  BY <1>2, <1>5, <1>6

\* A callback cuts nobody off, and takes no failure back.
LEMMA ServeLucky ==
    ASSUME TypeInv, HandlersInv, NEW r \in Requests, Serve(r)
    PROVE  /\ faults' = 0 => faults = 0
           /\ NobodyCutOff' <=> NobodyCutOff
<1>1. PICK stmt : Succeeds(r, stmt) \/ Fails(r, stmt)
  BY CallbackStatement DEF Serve
<1>2. faults' = 0 => faults = 0
  BY <1>1 DEF Succeeds, Fails, TypeInv, TypeOK, LifecycleOK
<1>3. Turn(r)
  BY CallbackTurn DEF Serve
<1>4. \A s \in Requests : \/ reply'[s] = reply[s]
                          \/ reply[s] = NULL /\ reply'[s] # "connection lost"
  <2>1. CASE GoesOn(r)
    BY <2>1 DEF GoesOn
  <2>2. CASE AnswersClient(r)
    <3>1. reply[r] = NULL
      BY <1>1, <2>2, StatementType, HeadOwn DEF AnswersClient
    <3>2. PICK message \in Replies :
              message # "connection lost" /\ reply' = [reply EXCEPT ![r] = message]
      BY <2>2 DEF AnswersClient
    <3>3. /\ reply'[r] = message
          /\ \A s \in Requests : s # r => reply'[s] = reply[s]
      BY <3>2 DEF TypeInv, TypeOK, RequestsOK
    <3>4. QED
      BY <3>1, <3>2, <3>3
  <2>3. QED
    BY <1>3, <2>1, <2>2 DEF Turn
<1>5. "connection lost" # NULL
  BY NullAssumption DEF Replies
<1>6. QED
  BY <1>2, <1>4, <1>5 DEF NobodyCutOff

LEMMA ServeFlags ==
    ASSUME TypeInv, HandlersInv, FlagInv, NEW r \in Requests, Serve(r)
    PROVE  FlagInv'
<1> SUFFICES ASSUME faults' = 0, NobodyCutOff', NEW u \in DOMAIN users'
             PROVE  Agrees(u)'
  BY DEF FlagInv
<1>1. PICK qs \in Seq(Queries) :
          Issue(qs) /\ \A v \in DOMAIN users' : v \in DOMAIN users /\ FlagTurn(v, qs)
  BY ServeFlagTurn
<1>2. Agrees(u)
  BY <1>1, ServeLucky DEF FlagInv
<1>3. PICK stmt : Succeeds(r, stmt) \/ Fails(r, stmt)
  BY CallbackStatement DEF Serve
<1>4. queue # <<>> /\ req' = req
  BY <1>3, StatementType
<1>5. QED
  BY <1>1, <1>2, <1>4, FlagTurnAgrees

\* A request arrives with one statement.
FirstStatement(r, input, q) ==
    /\ q.req = r
    /\ q.stmt \in {"SELECT settings", "DELETE users", "DELETE votes", "SELECT is_open",
                  InsertBlockStmt(AuditLedger)}
    /\ input.op = "castVote" => q.stmt = "SELECT settings"
    /\ input.op = "toggleElectionStatus" => q.stmt = "SELECT is_open"

LEMMA ArriveShape ==
    ASSUME TypeInv, NEW r \in Requests, Arrive(r)
    PROVE  \E input \in Inputs, q \in Queries :
              Arrives(r, input, <<q>>) /\ FirstStatement(r, input, q)
<1> DEFINE Goal == \E input \in Inputs, q \in Queries :
                      Arrives(r, input, <<q>>) /\ FirstStatement(r, input, q)
<1> SUFFICES Goal
  OBVIOUS
<1>1. ASSUME NEW input \in Inputs,
             NEW stmt \in {"SELECT settings", "DELETE users", "DELETE votes", "SELECT is_open"},
             input.op = "castVote" => stmt = "SELECT settings",
             input.op = "toggleElectionStatus" => stmt = "SELECT is_open",
             Arrives(r, input, <<Query(r, stmt, NULL)>>)
      PROVE  Goal
  <2> DEFINE q == Query(r, stmt, NULL)
  <2>1. stmt \in Statements
    BY DEF Statements
  <2>2. q \in Queries /\ q.req = r /\ q.stmt = stmt /\ Arrives(r, input, <<q>>)
    BY <1>1, <2>1, QueryType DEF Query
  <2> HIDE DEF q
  <2>3. FirstStatement(r, input, q)
    BY <1>1, <2>2 DEF FirstStatement
  <2>4. QED
    BY <2>2, <2>3
<1>2. ASSUME NEW op \in Handlers, NEW u \in Users \cup {NULL}
      PROVE  Input(op, u, NULL, NULL) \in Inputs /\ Input(op, u, NULL, NULL).op = op
  BY InputType DEF CandidateIds
<1>3. {"castVote", "deleteUser", "resetUserVote", "resetAll", "toggleElectionStatus", "hack"}
        \subseteq Handlers
  BY DEF Handlers
<1> HIDE DEF Goal
<1>4. CASE CastVoteArrives(r)
  <2>1. PICK u \in Users, c \in Candidates \cup BadCandidates \cup {NULL} :
            \E key \in SessionKeys(u) :
                Arrives(r, Input("castVote", u, c, key), <<Query(r, "SELECT settings", NULL)>>)
    BY <1>4 DEF CastVoteArrives
  <2>2. PICK key \in SessionKeys(u) :
            Arrives(r, Input("castVote", u, c, key), <<Query(r, "SELECT settings", NULL)>>)
    BY <2>1
  <2>3. key \in KeyPairs \cup {NULL}
    BY DEF SessionKeys, StoredKey, KeyPairs, TypeInv, TypeOK, TablesOK
  <2>4. /\ Input("castVote", u, c, key) \in Inputs
        /\ Input("castVote", u, c, key).op = "castVote"
    BY <1>3, <2>3, InputType DEF CandidateIds
  <2>5. QED
    BY <1>1, <2>2, <2>4
<1>5. CASE DeleteUserArrives(r)
  <2>1. PICK u \in Users : Arrives(r, Input("deleteUser", u, NULL, NULL),
                                   <<Query(r, "DELETE users", NULL)>>)
    BY <1>5 DEF DeleteUserArrives
  <2>2. QED
    BY <1>1, <1>2, <1>3, <2>1
<1>6. CASE ResetUserVoteArrives(r)
  <2>1. PICK u \in Users : Arrives(r, Input("resetUserVote", u, NULL, NULL),
                                   <<Query(r, "DELETE votes", NULL)>>)
    BY <1>6 DEF ResetUserVoteArrives
  <2>2. QED
    BY <1>1, <1>2, <1>3, <2>1
<1>7. CASE ResetAllArrives(r)
  BY <1>1, <1>2, <1>3, <1>7 DEF ResetAllArrives
<1>8. CASE ToggleArrives(r)
  BY <1>1, <1>2, <1>3, <1>8 DEF ToggleArrives
<1>9. CASE HackArrives(r)
  <2> DEFINE q == Query(r, InsertBlockStmt(AuditLedger), NextAuditBlock(r))
             input == Input("hack", NULL, NULL, NULL)
  <2>1. up /\ Arrives(r, input, <<q>>)
    BY <1>9 DEF HackArrives, Arrives
  <2>2. q \in Queries /\ q.req = r /\ q.stmt = InsertBlockStmt(AuditLedger)
    BY <2>1, NextAuditBlockType, QueryType DEF Ledgers, Query
  <2>3. input \in Inputs /\ input.op = "hack"
    BY <1>2, <1>3
  <2> HIDE DEF q, input
  <2>4. FirstStatement(r, input, q)
    BY <2>2, <2>3 DEF FirstStatement
  <2>5. QED
    BY <2>1, <2>2, <2>3, <2>4 DEF Goal
<1>10. QED
  BY <1>4, <1>5, <1>6, <1>7, <1>8, <1>9 DEF Arrive

\* A request that arrives writes no flag yet.
LEMMA ArrivesFlags ==
    ASSUME TypeInv, FlagInv, NEW r \in Requests, NEW input, NEW q \in Queries,
           FirstStatement(r, input, q), Arrives(r, input, <<q>>)
    PROVE  FlagInv'
<1>1. /\ users' = users /\ votes' = votes /\ reply' = reply /\ faults' = faults
      /\ req[r] = NULL /\ req' = [req EXCEPT ![r] = input] /\ queue' = queue \o <<q>>
  BY DEF Arrives, db
<1>2. queue \in Seq(Queries) /\ req \in [Requests -> Inputs \cup {NULL}]
  BY DEF TypeInv, TypeOK, MemoryOK, RequestsOK
<1>3. \A i \in 1..Len(queue) : queue[i].req \in Requests /\ queue[i].req # r
  BY <1>1, NullAssumption DEF TypeInv, QueueOK, Underway, Queries
<1>4. /\ \A i \in 1..Len(queue) : i \in 1..Len(queue') /\ queue'[i] = queue[i]
      /\ \A i \in 1..Len(queue') : i \in 1..Len(queue) \/ queue'[i] = q
  <2>1. /\ \A i \in 1..Len(queue) : queue'[i] = queue[i]
        /\ \A i \in 1..Len(queue') : i \in 1..Len(queue) \/ queue'[i] = q
        /\ Len(queue') = Len(queue) + 1 /\ Len(queue) \in Nat
    BY <1>1, <1>2, ArrivesElements
  <2>2. QED
    BY <2>1
<1>5. ASSUME NEW u PROVE
        /\ \A i \in 1..Len(queue) : WritesFlag(queue[i], u)' <=> WritesFlag(queue[i], u)
        /\ \A i \in 1..Len(queue') : WritesFlag(queue[i], u)' => i \in 1..Len(queue)
  <2>1. \A i \in 1..Len(queue) : req'[queue[i].req] = req[queue[i].req]
    BY <1>1, <1>2, <1>3
  <2>2. \A i \in 1..Len(queue) : WritesFlag(queue[i], u)' <=> WritesFlag(queue[i], u)
    BY <1>4, <2>1 DEF WritesFlag, Scope
  <2>3. ASSUME NEW i \in 1..Len(queue'), WritesFlag(queue[i], u)' PROVE i \in 1..Len(queue)
    BY <1>4, <2>3 DEF WritesFlag, FirstStatement, InsertBlockStmt, AuditLedger, VoteLedger
  <2>4. QED
    BY <2>2, <2>3
<1>6. ASSUME NEW u, Agrees(u) PROVE Agrees(u)'
  <2>1. HasVote(u)' <=> HasVote(u)
    BY <1>1 DEF HasVote
  <2>2. \A i \in 1..Len(queue') : LastWrite(i, u)' =>
            i \in 1..Len(queue) /\ LastWrite(i, u) /\ queue'[i] = queue[i]
    BY <1>4, <1>5 DEF LastWrite
  <2>3. QED
    BY <1>1, <1>4, <1>5, <1>6, <2>1, <2>2 DEF Agrees
<1>7. QED
  BY <1>1, <1>6 DEF FlagInv, NobodyCutOff

LEMMA ArriveFlags ==
    ASSUME TypeInv, FlagInv, NEW r \in Requests, Arrive(r)
    PROVE  FlagInv'
<1>1. PICK input \in Inputs, q \in Queries :
          Arrives(r, input, <<q>>) /\ FirstStatement(r, input, q)
  BY ArriveShape
<1>2. QED
  BY <1>1, ArrivesFlags

\* A process that ends without cutting anybody off had no statement under way
\* that somebody waits for.
LEMMA NobodyWaited ==
    ASSUME TypeInv, HandlersInv, ProcessEnds, NobodyCutOff', NEW i \in 1..Len(queue)
    PROVE  queue[i].stmt = "UPDATE keys"
<1>1. Underway(queue[i]) /\ queue[i].req \in Requests
  BY DEF TypeInv, QueueOK, Underway, Queries
<1>2. Awaited(queue[i]) => reply[queue[i].req] = NULL
  BY DEF HandlersInv, Waits
<1>3. reply[queue[i].req] # NULL
  BY <1>1 DEF ProcessEnds, NobodyCutOff, Underway
<1>4. QED
  BY <1>2, <1>3 DEF Awaited

LEMMA ProcessEndsFlags ==
    ASSUME TypeInv, HandlersInv, FlagInv, ProcessEnds,
           \/ UNCHANGED db
           \/ queue # <<>> /\ Perform(Head(queue))
    PROVE  FlagInv'
<1> SUFFICES ASSUME faults' = 0, NobodyCutOff', NEW u \in DOMAIN users'
             PROVE  Agrees(u)'
  BY DEF FlagInv
<1>1. queue \in Seq(Queries) /\ TablesOK
  BY DEF TypeInv, TypeOK, MemoryOK
<1>2. faults = 0 /\ NobodyCutOff
  <2>1. "connection lost" # NULL
    BY NullAssumption DEF Replies
  <2>2. QED
    BY <2>1 DEF ProcessEnds, NobodyCutOff
<1>3. /\ u \in DOMAIN users
      /\ users'[u].sudah_vote <=> users[u].sudah_vote
      /\ HasVote(u)' <=> HasVote(u)
  <2>1. CASE UNCHANGED db
    BY <2>1 DEF db, HasVote
  <2>2. CASE queue # <<>> /\ Perform(Head(queue))
    <3> DEFINE q == Head(queue)
    <3>1. q = queue[1] /\ 1 \in 1..Len(queue)
      BY <1>1, <2>2, EmptySeq
    <3>2. q.stmt = "UPDATE keys"
      BY <3>1, NobodyWaited
    <3>3. Perform(q)
      BY <2>2
    <3> HIDE DEF q
    <3>4. FlagEffect(q, u)
      BY <1>1, <3>2, <3>3, PerformFlags
    <3>5. QED
      BY <3>2, <3>4 DEF FlagEffect, WritesFlag
  <2>3. QED
    BY <2>1, <2>2
<1>4. \A i \in 1..Len(queue) : ~WritesFlag(queue[i], u)
  BY NobodyWaited DEF WritesFlag
<1>5. 1..Len(queue') = {}
  <2>1. 1..Len(<<>>) = {}
    BY EmptySeq
  <2>2. QED
    BY <2>1 DEF ProcessEnds
<1>6. users[u].sudah_vote <=> HasVote(u)
  BY <1>2, <1>3, <1>4 DEF FlagInv, Agrees
<1>7. QED
  BY <1>3, <1>5, <1>6 DEF Agrees

LEMMA InitFlags == Init => FlagInv
<1> SUFFICES ASSUME Init, NEW u \in DOMAIN users PROVE Agrees(u)
  BY DEF FlagInv
<1>1. 1..Len(queue) = {}
  <2>1. 1..Len(<<>>) = {}
    BY EmptySeq
  <2>2. QED
    BY <2>1 DEF Init, InitWith
<1>2. ~users[u].sudah_vote /\ ~HasVote(u)
  BY DEF Init, InitWith, HasVote
<1>3. QED
  BY <1>1, <1>2 DEF Agrees

LEMMA NextFlags == TypeInv /\ HandlersInv /\ FlagInv /\ [Next]_vars => FlagInv'
<1> SUFFICES ASSUME TypeInv, HandlersInv, FlagInv, [Next]_vars PROVE FlagInv'
  OBVIOUS
<1>1. ASSUME NEW r \in Requests, Arrive(r) PROVE FlagInv'
  BY <1>1, ArriveFlags
<1>2. ASSUME NEW r \in Requests, Serve(r) PROVE FlagInv'
  BY <1>2, ServeFlags
<1>3. ASSUME NEW r \in Requests, FatalError(r) PROVE FlagInv'
  BY <1>3, ProcessEndsFlags DEF FatalError
<1>4. CASE Crash
  BY <1>4, ProcessEndsFlags DEF Crash
<1>5. CASE Restart \/ UNCHANGED vars
  <2>1. UNCHANGED <<users, votes, queue, req, reply, faults>>
    BY <1>5 DEF Restart, vars, shared, memory, db
  <2>2. \A u : Agrees(u)' <=> Agrees(u)
    BY <2>1 DEF Agrees, LastWrite, WritesFlag, Scope, HasVote
  <2>3. QED
    BY <2>1, <2>2 DEF FlagInv, NobodyCutOff
<1>6. QED
  BY <1>1, <1>2, <1>3, <1>4, <1>5 DEF Next

\* sudah_vote follows the votes table through every overlap of votes, resets
\* and deletions, for any number of voters and requests: as long as no
\* statement fails and nobody is cut off, the last write that is queued for a
\* user's flag, or the flag itself when none is, says whether the user has a
\* stored vote.
THEOREM FlagFollowsVotes == Spec => []FlagAgreesWithVotes
<1>1. TypeInv /\ FlagInv => FlagAgreesWithVotes
  <2> SUFFICES ASSUME TypeInv, FlagInv, faults = 0, NobodyCutOff, NEW u \in DOMAIN users
               PROVE  LET writes == {i \in DOMAIN queue : WritesFlag(queue[i], u)}
                      IN  /\ writes = {} => (users[u].sudah_vote <=> HasVote(u))
                          /\ \A i \in writes : (\A j \in writes : j <= i) =>
                                (queue[i].stmt = "SET sudah_vote" <=> HasVote(u))
    BY DEF FlagAgreesWithVotes
  <2>1. DOMAIN queue = 1..Len(queue)
    BY DEF TypeInv, TypeOK, MemoryOK
  <2>2. Agrees(u)
    BY DEF FlagInv
  <2>3. QED
    BY <2>1, <2>2 DEF Agrees, LastWrite
<1>2. Init => FlagInv
  BY InitFlags
<1>3. TypeInv /\ HandlersInv /\ FlagInv /\ [Next]_vars => FlagInv'
  BY NextFlags
<1>4. QED
  BY <1>1, <1>2, <1>3, HandlersInvariant, PTL DEF Spec

(***************************************************************************)
(* resetAll.                                                               *)
(***************************************************************************)
\* No vote and no other reset has begun that was not answered when this one
\* arrived.
ResetsAlone(r) == \A s \in Requests \ {r} : WritesVoteLedger(s) => s \in req[r].after

\* Between the DELETE and the INSERT of such a reset the table is empty.
ResetInv ==
    \A i \in 1..Len(queue) :
        /\ queue[i].stmt = InsertBlockStmt(VoteLedger)
        /\ req[queue[i].req].op = "resetAll"
        /\ ResetsAlone(queue[i].req)
        => blocks[VoteLedger] = <<>>

\* The statements that write the vote ledger.
LEMMA LedgerWrites ==
    ASSUME TypeInv, NEW q, Perform(q)
    PROVE  /\ q.stmt # InsertBlockStmt(VoteLedger) /\ q.stmt # "DELETE blockchain"
                 => blocks'[VoteLedger] = blocks[VoteLedger]
           /\ q.stmt = "DELETE blockchain" => blocks'[VoteLedger] = <<>>
           /\ q.stmt = InsertBlockStmt(VoteLedger)
                 => blocks'[VoteLedger] = Append(blocks[VoteLedger], q.block)
<1> USE DEF InsertBlockStmt, VoteLedger, AuditLedger, Ledgers
<1>1. blocks \in [Ledgers -> Seq(Blocks)]
  BY DEF TypeInv, TypeOK, TablesOK
<1>2. CASE SaveBlock(q)
  BY <1>1, <1>2 DEF SaveBlock
<1>3. CASE DeleteBlocks(q)
  BY <1>1, <1>3 DEF DeleteBlocks
<1>4. CASE ~SaveBlock(q) /\ ~DeleteBlocks(q)
  <2>1. /\ blocks' = blocks
        /\ q.stmt \notin {"INSERT blockchain", "INSERT audit_ledger_blocks", "DELETE blockchain"}
    BY <1>4 DEF Perform, Read, InsertVote, DeleteVotes, UpdateFlag, UpdateKeys, DeleteUser,
       UpdateIsOpen, InsertAuditLog, db
  <2>2. QED
    BY <2>1
<1>5. QED
  BY <1>2, <1>3, <1>4

\* While such a reset waits for a statement, no other request writes the
\* vote ledger.
LEMMA AloneHead ==
    ASSUME TypeInv, HandlersInv, queue # <<>>, NEW i \in 1..Len(queue), i # 1,
           ResetsAlone(queue[i].req), Awaited(queue[i])
    PROVE  Head(queue).stmt # InsertBlockStmt(VoteLedger)
<1> DEFINE h == Head(queue).req
<1>1. /\ 1 \in 1..Len(queue) /\ Head(queue) = queue[1] /\ OwnStatement(Head(queue))
      /\ Awaited(Head(queue)) => reply[h] = NULL
  BY HeadOwn
<1>2. SUFFICES ASSUME Head(queue).stmt = InsertBlockStmt(VoteLedger) PROVE FALSE
  OBVIOUS
<1>3. Awaited(Head(queue))
  BY <1>2 DEF Awaited, InsertBlockStmt
<1>4. h \in Requests /\ req[h] \in Inputs /\ WritesVoteLedger(h)
  BY <1>1, <1>2, HeadUnderway, NullAssumption
     DEF OwnStatement, Own, MayIssue, OwnBlock, WritesVoteLedger, Sent, InsertBlockStmt, VoteLedger
<1>5. h # queue[i].req
  BY <1>1, <1>3 DEF HandlersInv, OneEach
<1>6. h \in req[queue[i].req].after
  BY <1>4, <1>5 DEF ResetsAlone
<1>7. queue[i].req \in Requests /\ req[queue[i].req] # NULL
  BY DEF TypeInv, QueueOK, Underway, Queries
<1>8. reply[h] # NULL
  BY <1>6, <1>7 DEF HandlersInv, Admitted
<1>9. QED
  BY <1>1, <1>3, <1>8

LEMMA ServeReset ==
    ASSUME TypeInv, HandlersInv, ResetInv, NEW r \in Requests, Serve(r)
    PROVE  ResetInv'
<1> USE DEF VoteLedger, AuditLedger, InsertBlockStmt
<1>1. PICK stmt : Succeeds(r, stmt) \/ Fails(r, stmt)
  BY CallbackStatement DEF Serve
<1>2. /\ queue # <<>> /\ Head(queue).req = r /\ Head(queue).stmt = stmt /\ req' = req
      /\ queue \in Seq(Queries) /\ OwnStatement(Head(queue))
  BY <1>1, StatementType, HeadOwn
<1>3. /\ stmt # "INSERT blockchain" /\ stmt # "DELETE blockchain"
            => blocks'[VoteLedger] = blocks[VoteLedger]
      /\ stmt = "DELETE blockchain" /\ Succeeds(r, stmt) => blocks'[VoteLedger] = <<>>
      /\ stmt = "DELETE blockchain" => \/ blocks'[VoteLedger] = <<>>
                                       \/ blocks'[VoteLedger] = blocks[VoteLedger]
  <2>1. CASE Succeeds(r, stmt)
    BY <1>2, <2>1, LedgerWrites DEF Succeeds
  <2>2. CASE Fails(r, stmt) /\ ~Succeeds(r, stmt)
    BY <2>2 DEF Fails, db
  <2>3. QED
    BY <1>1, <2>1, <2>2
<1>4. \A x : ResetsAlone(x)' => ResetsAlone(x)
  BY <1>2 DEF ResetsAlone, WritesVoteLedger, Sent
<1>5. \E qs \in Seq(Queries) :
          /\ Issue(qs)
          /\ \A j \in 1..Len(qs) :
                qs[j].stmt = "INSERT blockchain" /\ req[qs[j].req].op = "resetAll"
                    => blocks'[VoteLedger] = <<>>
  <2>1. Turn(r)
    BY CallbackTurn DEF Serve
  <2>2. CASE AnswersClient(r)
    <3>1. <<>> \in Seq(Queries) /\ 1..Len(<<>>) = {}
      BY EmptySeq
    <3>2. QED
      BY <2>2, <3>1 DEF AnswersClient
  <2>3. CASE GoesOn(r)
    <3>1. PICK qs : /\ IssuesOwn(r, qs)
                    /\ \/ Succeeds(r, Head(queue).stmt)
                       \/ Head(queue).stmt = InsertBlockStmt(AuditLedger)
      BY <2>3 DEF GoesOn
    <3>2. /\ qs \in Seq(Queries) /\ Issue(qs)
          /\ \A j \in 1..Len(qs) : qs[j].req = r /\ Follows(stmt, qs[j].stmt)
      BY <1>2, <3>1 DEF IssuesOwn
    <3>3. ASSUME NEW j \in 1..Len(qs),
                 qs[j].stmt = "INSERT blockchain", req[qs[j].req].op = "resetAll"
          PROVE  blocks'[VoteLedger] = <<>>
      <4>1. stmt = "DELETE blockchain" \/ stmt = "SET sudah_vote"
        BY <3>2, <3>3 DEF Follows
      <4>2. stmt = "DELETE blockchain"
        BY <1>2, <3>2, <3>3, <4>1 DEF OwnStatement, Own, MayIssue, OwnBlock
      <4>3. QED
        BY <1>2, <1>3, <3>1, <4>2
    <3>4. QED
      BY <3>2, <3>3
  <2>4. QED
    BY <2>1, <2>2, <2>3 DEF Turn
<1>6. PICK qs \in Seq(Queries) :
          /\ Issue(qs)
          /\ \A j \in 1..Len(qs) :
                qs[j].stmt = "INSERT blockchain" /\ req[qs[j].req].op = "resetAll"
                    => blocks'[VoteLedger] = <<>>
  BY <1>5
<1>7. ASSUME NEW i \in 1..Len(queue'),
             queue'[i].stmt = "INSERT blockchain",
             req[queue'[i].req].op = "resetAll", ResetsAlone(queue'[i].req)
      PROVE  blocks'[VoteLedger] = <<>>
  <2>1. CASE \E k \in 1..Len(queue) : k # 1 /\ i = k - 1 /\ queue'[i] = queue[k]
    <3>1. PICK k \in 1..Len(queue) : k # 1 /\ queue'[i] = queue[k]
      BY <2>1
    <3>2. blocks[VoteLedger] = <<>>
      BY <1>7, <3>1 DEF ResetInv
    <3>3. stmt # "INSERT blockchain"
      BY <1>2, <1>7, <3>1, AloneHead DEF Awaited
    <3>4. QED
      BY <1>3, <3>2, <3>3
  <2>2. CASE \E j \in 1..Len(qs) : i = Len(queue) - 1 + j /\ queue'[i] = qs[j]
    BY <1>6, <1>7, <2>2
  <2>3. QED
    BY <1>2, <1>6, <2>1, <2>2, IssueOrigin
<1>8. QED
  BY <1>2, <1>4, <1>7 DEF ResetInv

LEMMA ArriveReset ==
    ASSUME TypeInv, HandlersInv, ResetInv, NEW r \in Requests, Arrive(r)
    PROVE  ResetInv'
<1> USE DEF VoteLedger, AuditLedger, InsertBlockStmt
<1>1. PICK input \in Inputs, q \in Queries :
          Arrives(r, input, <<q>>) /\ FirstStatement(r, input, q)
  BY ArriveShape
<1>2. /\ blocks' = blocks /\ req[r] = NULL /\ req' = [req EXCEPT ![r] = input]
      /\ queue' = queue \o <<q>>
  BY <1>1 DEF Arrives, db
<1>3. queue \in Seq(Queries) /\ req \in [Requests -> Inputs \cup {NULL}]
  BY DEF TypeInv, TypeOK, MemoryOK, RequestsOK
<1>4. \A i \in 1..Len(queue) : queue[i].req \in Requests /\ queue[i].req # r
  BY <1>2, NullAssumption DEF TypeInv, QueueOK, Underway, Queries
<1>5. /\ \A i \in 1..Len(queue) : queue'[i] = queue[i]
      /\ \A i \in 1..Len(queue') : i \in 1..Len(queue) \/ queue'[i] = q
  BY <1>1, <1>2, <1>3, ArrivesElements
<1>6. \A s \in Requests : s # r => req'[s] = req[s]
  BY <1>2, <1>3
<1>7. \A x \in Requests : x # r /\ ResetsAlone(x)' => ResetsAlone(x)
  BY <1>2, <1>6 DEF ResetsAlone, WritesVoteLedger, Sent
<1>8. ASSUME NEW i \in 1..Len(queue'),
             queue'[i].stmt = "INSERT blockchain",
             req'[queue'[i].req].op = "resetAll", ResetsAlone(queue[i].req)'
      PROVE  blocks'[VoteLedger] = <<>>
  <2>1. i \in 1..Len(queue)
    BY <1>1, <1>5, <1>8 DEF FirstStatement
  <2>2. queue'[i] = queue[i]
    BY <1>5, <2>1
  <2>3. /\ queue[i].stmt = "INSERT blockchain"
        /\ req[queue[i].req].op = "resetAll" /\ ResetsAlone(queue[i].req)
    BY <1>4, <1>6, <1>7, <1>8, <2>1, <2>2
  <2>4. QED
    BY <1>2, <2>1, <2>3 DEF ResetInv
<1>9. QED
  BY <1>8 DEF ResetInv

LEMMA NextReset == TypeInv /\ HandlersInv /\ ResetInv /\ [Next]_vars => ResetInv'
<1> SUFFICES ASSUME TypeInv, HandlersInv, ResetInv, [Next]_vars PROVE ResetInv'
  OBVIOUS
<1>1. 1..Len(<<>>) = {}
  BY EmptySeq
<1>2. ASSUME NEW r \in Requests, Arrive(r) PROVE ResetInv'
  BY <1>2, ArriveReset
<1>3. ASSUME NEW r \in Requests, Serve(r) PROVE ResetInv'
  BY <1>3, ServeReset
<1>4. CASE queue' = <<>>
  BY <1>1, <1>4 DEF ResetInv
<1>5. CASE Restart
  <2>1. queue' = <<>>
    BY <1>5 DEF Restart, TypeInv, ChainsLoaded
  <2>2. QED
    BY <1>4, <2>1
<1>6. CASE UNCHANGED vars
  BY <1>6 DEF vars, shared, memory, db, ResetInv, ResetsAlone, WritesVoteLedger, Sent
<1>7. QED
  BY <1>2, <1>3, <1>4, <1>5, <1>6 DEF Next, Crash, FatalError, ProcessEnds

\* A reset that no other writer of the vote ledger overlaps leaves one genesis
\* block, in the table and in memory, whatever failed statements, kills and
\* restarts had left in either, and however many other requests are under way.
THEOREM ResetLeavesGenesis == Spec => ResetIsComplete
<1> DEFINE Complete ==
        \A r \in Requests :
            /\ up /\ GenesisSaved(r)
            /\ \A s \in Requests \ {r} : WritesVoteLedger(s) => s \in req[r].after
            => Len(blocks'[VoteLedger]) = 1 /\ chain'[VoteLedger] = blocks'[VoteLedger]
<1>1. Init => ResetInv
  <2>1. 1..Len(<<>>) = {}
    BY EmptySeq
  <2>2. QED
    BY <2>1 DEF Init, InitWith, ResetInv
<1>2. TypeInv /\ HandlersInv /\ ResetInv /\ [Next]_vars => ResetInv'
  BY NextReset
<1>3. TypeInv /\ HandlersInv /\ ResetInv /\ [Next]_vars => [Complete]_vars
  <2> SUFFICES ASSUME TypeInv, HandlersInv, ResetInv, NEW r \in Requests,
                      up, GenesisSaved(r),
                      \A s \in Requests \ {r} : WritesVoteLedger(s) => s \in req[r].after
               PROVE  Len(blocks'[VoteLedger]) = 1 /\ chain'[VoteLedger] = blocks'[VoteLedger]
    OBVIOUS
  <2>1. /\ Succeeds(r, InsertBlockStmt(VoteLedger)) /\ req[r].op = "resetAll"
        /\ chain' = [chain EXCEPT ![VoteLedger]  = <<Head(queue).block>>,
                                  ![AuditLedger] = Append(@, NextAuditBlock(r))]
    BY DEF GenesisSaved
  <2>2. /\ queue # <<>> /\ Head(queue).req = r /\ Perform(Head(queue))
        /\ Head(queue).stmt = InsertBlockStmt(VoteLedger)
    BY <2>1 DEF Succeeds, Executes
  <2>3. 1 \in 1..Len(queue) /\ Head(queue) = queue[1]
    BY <2>2, HeadOwn
  <2>4. blocks[VoteLedger] = <<>>
    BY <2>1, <2>2, <2>3 DEF ResetInv, ResetsAlone
  <2>5. blocks'[VoteLedger] = Append(<<>>, Head(queue).block)
    BY <2>2, <2>4, LedgerWrites
  <2>6. chain'[VoteLedger] = <<Head(queue).block>>
    BY <2>1 DEF TypeInv, TypeOK, MemoryOK, Ledgers, VoteLedger, AuditLedger
  <2>7. QED
    BY <2>5, <2>6
<1>4. ([][Complete]_vars) => ResetIsComplete
  BY DEF ResetIsComplete
<1>5. QED
  BY <1>1, <1>2, <1>3, <1>4, HandlersInvariant, PTL DEF Spec
=============================================================================
