---------------------------- MODULE AdminPageProofs ----------------------------
(***************************************************************************)
(* Promises of two of the administrator's pages, for any number of         *)
(* requests and any order of their answers.  The explorer shows the detail *)
(* of the row that was clicked, the badge of the ledger that is selected   *)
(* and no ledger as valid in which a block was changed.  On the election   *)
(* page a button misleads only who was told nothing new, a schedule shifts *)
(* by the zone when saved as it was loaded, and candidates are frozen once *)
(* a vote was accepted.  What the Merkle trees prove, of every list.       *)
(***************************************************************************)
EXTENDS MCAdminPages, MerkleProofs

(***************************************************************************)
(* Bags of requests.                                                       *)
(***************************************************************************)
LEMMA BagAddDomain ==
    ASSUME NEW B, NEW x
    PROVE  DOMAIN BagAdd(B, x) = DOMAIN B \cup {x}
BY DEF BagAdd

LEMMA BagRemoveDomain ==
    ASSUME NEW B, NEW x
    PROVE  DOMAIN BagRemove(B, x) \subseteq DOMAIN B
BY DEF BagRemove

LEMMA BagRemoveKeeps ==
    ASSUME NEW B, NEW x, NEW y \in DOMAIN B, y # x
    PROVE  y \in DOMAIN BagRemove(B, x)
BY DEF BagRemove

LEMMA EmptyBagDomain == DOMAIN EmptyBag = {}
BY DEF EmptyBag, SetToBag

(***************************************************************************)
(* The inductive invariant of the explorer.                                *)
(***************************************************************************)
\* Blocks stand at their index.
BlocksOK(s) ==
    /\ \E S : s \in Seq(S)
    /\ \A i \in 1..Len(s) : {"index", "data", "hash"} \subseteq DOMAIN s[i] /\ s[i].index = i - 1

LedgersOK ==
    /\ resets \in Nat
    /\ current \in ExplorerLedgers
    /\ ledgers = [l \in ExplorerLedgers |-> ledgers[l]]
    /\ \A l \in ExplorerLedgers : BlocksOK(ledgers[l])

\* The row is about a block of the ledger as it is.
RowRight(row, l) ==
    \E i \in 1..Len(ledgers[l]) : row.index = i - 1 /\ row.hash = ledgers[l][i].hash

\* So is the list, unless the ledger was reset after it was answered.
ListRight(c) ==
    /\ c.ledger \in ExplorerLedgers
    /\ c.era \in Nat /\ c.era <= resets
    /\ c.era = resets => \A i \in DOMAIN c.answer : RowRight(c.answer[i], c.ledger)

\* A list that is asked for alone is of the ledger that is selected.
CallRight(c) ==
    /\ {"kind", "ledger", "index", "alone", "answer", "era"} \subseteq DOMAIN c
    /\ c.ledger \in ExplorerLedgers
    /\ c.kind = "list" /\ c.alone => c.ledger = current
    /\ c.kind = "list" /\ c.era # NULL => ListRight(c)

\* A detail that is asked for alone is of the row in the modal.
DetailRight(c) ==
    /\ c.kind = "detail"
    /\ c.ledger = modal.ledger
    /\ c.index = modal.row.index
    /\ c.era # NULL /\ c.era = modal.era /\ c.answer # NULL =>
          c.answer.hash = modal.row.hash /\ c.answer.index = modal.row.index

ModalRight ==
    modal # NULL =>
        /\ {"row", "ledger", "era", "body", "alone"} \subseteq DOMAIN modal
        /\ modal.alone =>
              /\ modal.ledger = current
              /\ modal.era \in Nat /\ modal.era <= resets
              /\ modal.era = resets => RowRight(modal.row, current)
              /\ \A c \in DOMAIN calls : DetailRight(c)

ShownRight ==
    list # NULL => /\ ListRight(list)
                   /\ list.alone => list.ledger = current

BadgeRight ==
    \/ status = NULL
    \/ status.ledger = current
    \/ \E c \in DOMAIN calls : c.kind = "health"

ExplorerInv ==
    /\ LedgersOK
    /\ \A c \in DOMAIN calls : CallRight(c)
    /\ ShownRight
    /\ ModalRight /\ DetailIsOfTheRow
    /\ BadgeRight

\* A new request leaves nobody alone who waited before.
LEMMA AsksCalls ==
    ASSUME NEW new, Asks(new)
    PROVE  DOMAIN calls' = {[c EXCEPT !.alone = FALSE] : c \in DOMAIN calls}
                              \cup {[c EXCEPT !.alone = AllIn] : c \in new}
<1> DEFINE old  == BagOfAll(LAMBDA c : [c EXCEPT !.alone = FALSE], calls)
           more == {[c EXCEPT !.alone = AllIn] : c \in new}
<1>1. calls' = old (+) SetToBag(more)
  BY DEF Asks
<1>2. DOMAIN SetToBag(more) = more
  BY DEF SetToBag
<1>3. DOMAIN old = {[c EXCEPT !.alone = FALSE] : c \in DOMAIN calls}
  BY DEF BagOfAll, BagToSet
<1>4. DOMAIN calls' = DOMAIN old \cup DOMAIN SetToBag(more)
  <2> HIDE DEF old, more
  <2> QED
    BY <1>1 DEF (+)
<1>5. QED
  BY <1>2, <1>3, <1>4

(***************************************************************************)
(* The server.                                                             *)
(***************************************************************************)
LEMMA AddedBlock ==
    ASSUME NEW s, BlocksOK(s), NEW t, NEW d, NEW k
    PROVE  LET new == Append(s, NewBlock(s, t, d, k))
           IN  /\ BlocksOK(new)
               /\ \A i \in 1..Len(s) : i \in 1..Len(new) /\ new[i] = s[i]
<1> DEFINE b == NewBlock(s, t, d, k)
           new == Append(s, b)
<1>1. {"index", "data", "hash"} \subseteq DOMAIN b /\ b.index = Len(s)
  BY DEF NewBlock, Link, Block
<1> HIDE DEF b
<1>2. PICK S : s \in Seq(S)
  BY DEF BlocksOK
<1>3. s \in Seq(S \cup {b}) /\ Len(s) \in Nat
  BY <1>2
<1>4. /\ new \in Seq(S \cup {b}) /\ Len(new) = Len(s) + 1
      /\ \A i \in 1..Len(s) : new[i] = s[i]
      /\ new[Len(s) + 1] = b
  BY <1>3
<1>5. \A i \in 1..Len(new) : i \in 1..Len(s) \/ i = Len(s) + 1
  BY <1>3, <1>4
<1>6. BlocksOK(new)
  BY <1>1, <1>3, <1>4, <1>5 DEF BlocksOK
<1>7. \A i \in 1..Len(s) : i \in 1..Len(new)
  BY <1>3, <1>4
<1>8. QED
  BY <1>4, <1>6, <1>7 DEF b

LEMMA GenesisOK ==
    ASSUME NEW era
    PROVE  BlocksOK(<<Genesis(era)>>)
<1> DEFINE g == Genesis(era)
           new == <<g>>
<1>1. {"index", "data", "hash"} \subseteq DOMAIN g /\ g.index = 0
  BY DEF Genesis, GenesisBlock, Block
<1> HIDE DEF g
<1>2. new \in Seq({g}) /\ Len(new) = 1 /\ new[1] = g
  OBVIOUS
<1>3. \A i \in 1..1 : i = 1
  OBVIOUS
<1> HIDE DEF new
<1>4. \A i \in 1..Len(new) : new[i] = g /\ i - 1 = 0
  BY <1>2, <1>3
<1>5. BlocksOK(new)
  BY <1>1, <1>2, <1>4 DEF BlocksOK
<1>6. QED
  BY <1>5 DEF new, g

LEMMA HackedBlock ==
    ASSUME NEW s, BlocksOK(s), NEW d
    PROVE  LET new == HackBlock(s, 1, d)
           IN  /\ BlocksOK(new)
               /\ \A i \in 1..Len(s) : i \in 1..Len(new) /\ new[i].hash = s[i].hash
<1> DEFINE new == HackBlock(s, 1, d)
<1>1. PICK S : s \in Seq(S)
  BY DEF BlocksOK
<1>2. CASE new = s
  BY <1>2
<1>3. CASE new # s
  <2> DEFINE e == [s[2] EXCEPT !.data = d]
  <2>1. 2 \in 1..Len(s) /\ new = [s EXCEPT ![2] = e] /\ Len(s) \in Nat
    BY <1>1, <1>3 DEF HackBlock
  <2>2. /\ {"index", "data", "hash"} \subseteq DOMAIN e
        /\ e.index = s[2].index /\ e.hash = s[2].hash
    BY <2>1 DEF BlocksOK
  <2> HIDE DEF e, new
  <2>3. s \in Seq(S \cup {e})
    BY <1>1
  <2>4. /\ new \in Seq(S \cup {e}) /\ Len(new) = Len(s)
        /\ new[2] = e /\ \A i \in 1..Len(s) : i # 2 => new[i] = s[i]
    BY <2>1, <2>3
  <2>5. BlocksOK(new)
    BY <2>1, <2>2, <2>4 DEF BlocksOK
  <2>6. \A i \in 1..Len(s) : i \in 1..Len(new) /\ new[i].hash = s[i].hash
    BY <2>1, <2>2, <2>4
  <2>7. QED
    BY <2>5, <2>6 DEF new
<1>4. QED
  BY <1>2, <1>3

\* A ledger keeps its blocks with their hashes, up to a reset.
LedgersStay ==
    \A l \in ExplorerLedgers : \A i \in 1..Len(ledgers[l]) :
        i \in 1..Len(ledgers'[l]) /\ ledgers'[l][i].hash = ledgers[l][i].hash

ServerTurn ==
    /\ LedgersOK'
    /\ UNCHANGED <<screen, calls>>
    /\ \/ resets' = resets /\ LedgersStay
       \/ resets' = resets + 1

LEMMA ServerSteps ==
    ASSUME LedgersOK, (\E l \in ExplorerLedgers : AddBlock(l)) \/ Tamper \/ ResetChain
    PROVE  ServerTurn
<1>1. ASSUME NEW l \in ExplorerLedgers, AddBlock(l) PROVE ServerTurn
  <2> DEFINE new == Append(ledgers[l], NextBlock(ledgers[l], l, resets))
  <2>1. /\ ledgers' = [ledgers EXCEPT ![l] = new]
        /\ UNCHANGED <<resets, current, screen, calls>>
    BY <1>1 DEF AddBlock, screen
  <2>2. /\ BlocksOK(new)
        /\ \A i \in 1..Len(ledgers[l]) : i \in 1..Len(new) /\ new[i] = ledgers[l][i]
    BY AddedBlock DEF NextBlock, LedgersOK
  <2> HIDE DEF new
  <2>3. ledgers'[l] = new /\ \A m \in ExplorerLedgers : m # l => ledgers'[m] = ledgers[m]
    BY <2>1 DEF LedgersOK
  <2>4. ledgers' = [m \in ExplorerLedgers |-> ledgers'[m]]
    BY <2>1 DEF LedgersOK
  <2>5. \A m \in ExplorerLedgers : BlocksOK(ledgers'[m])
    BY <2>2, <2>3 DEF LedgersOK
  <2>6. LedgersOK'
    BY <2>1, <2>4, <2>5 DEF LedgersOK
  <2>7. LedgersStay
    BY <2>2, <2>3 DEF LedgersStay
  <2>8. QED
    BY <2>1, <2>6, <2>7 DEF ServerTurn
<1>2. CASE Tamper
  <2> DEFINE new == HackBlock(ledgers["vote"], 1, <<"vote", 999, 999>>)
  <2>1. /\ ledgers' = [ledgers EXCEPT !["vote"] = new]
        /\ UNCHANGED <<resets, current, screen, calls>>
    BY <1>2 DEF Tamper, screen
  <2>2. "vote" \in ExplorerLedgers
    BY ExplorerAssumption
  <2>3. /\ BlocksOK(new)
        /\ \A i \in 1..Len(ledgers["vote"]) :
              i \in 1..Len(new) /\ new[i].hash = ledgers["vote"][i].hash
    BY <2>2, HackedBlock DEF LedgersOK
  <2> HIDE DEF new
  <2>4. ledgers'["vote"] = new /\ \A m \in ExplorerLedgers : m # "vote" => ledgers'[m] = ledgers[m]
    BY <2>1, <2>2 DEF LedgersOK
  <2>5. ledgers' = [m \in ExplorerLedgers |-> ledgers'[m]]
    BY <2>1 DEF LedgersOK
  <2>6. \A m \in ExplorerLedgers : BlocksOK(ledgers'[m])
    BY <2>3, <2>4 DEF LedgersOK
  <2>7. LedgersOK'
    BY <2>1, <2>5, <2>6 DEF LedgersOK
  <2>8. LedgersStay
    BY <2>3, <2>4 DEF LedgersStay
  <2>9. QED
    BY <2>1, <2>7, <2>8 DEF ServerTurn
<1>3. CASE ResetChain
  <2> DEFINE new == <<Genesis(resets + 1)>>
  <2>1. /\ resets' = resets + 1
        /\ ledgers' = [ledgers EXCEPT !["vote"] = new]
        /\ UNCHANGED <<current, screen, calls>>
    BY <1>3 DEF ResetChain, screen
  <2>2. BlocksOK(new)
    BY GenesisOK
  <2> HIDE DEF new
  <2>3. ledgers' = [m \in ExplorerLedgers |-> ledgers'[m]]
    BY <2>1 DEF LedgersOK
  <2>4. \A m \in ExplorerLedgers : BlocksOK(ledgers'[m])
    BY <2>1, <2>2 DEF LedgersOK
  <2>5. LedgersOK'
    BY <2>1, <2>3, <2>4 DEF LedgersOK
  <2>6. QED
    BY <2>1, <2>5 DEF ServerTurn
<1>4. QED
  BY <1>1, <1>2, <1>3

LEMMA ServerInv ==
    ASSUME ExplorerInv, ServerTurn
    PROVE  ExplorerInv'
<1>1. /\ UNCHANGED <<current, list, status, modal, calls>>
      /\ LedgersOK' /\ resets \in Nat
      /\ \/ resets' = resets /\ LedgersStay
         \/ resets' = resets + 1
  BY DEF ServerTurn, screen, ExplorerInv, LedgersOK
<1>2. ASSUME NEW row, NEW l \in ExplorerLedgers, RowRight(row, l), resets' = resets
      PROVE  RowRight(row, l)'
  <2>1. PICK i \in 1..Len(ledgers[l]) : row.index = i - 1 /\ row.hash = ledgers[l][i].hash
    BY <1>2 DEF RowRight
  <2>2. i \in 1..Len(ledgers'[l]) /\ row.hash = ledgers'[l][i].hash
    BY <1>1, <1>2, <2>1 DEF LedgersStay
  <2>3. QED
    BY <2>1, <2>2 DEF RowRight
<1>3. \A c : ListRight(c) => ListRight(c)'
  BY <1>1, <1>2 DEF ListRight
<1>4. \A c : CallRight(c) => CallRight(c)'
  BY <1>1, <1>3 DEF CallRight
<1>5. ShownRight'
  BY <1>1, <1>3 DEF ExplorerInv, ShownRight
<1>6. ModalRight'
  <2> SUFFICES ASSUME modal # NULL, modal.alone PROVE ModalRight'
    BY <1>1 DEF ExplorerInv, ModalRight
  <2>1. /\ {"row", "ledger", "era", "body", "alone"} \subseteq DOMAIN modal
        /\ modal.ledger = current
        /\ modal.era \in Nat /\ modal.era <= resets
        /\ modal.era = resets => RowRight(modal.row, current)
        /\ \A c \in DOMAIN calls : DetailRight(c)
    BY DEF ExplorerInv, ModalRight
  <2>2. modal.era <= resets' /\ (modal.era = resets' => resets' = resets)
    BY <1>1, <2>1
  <2>3. modal.era = resets' => RowRight(modal.row, current)'
    BY <1>1, <1>2, <2>1, <2>2 DEF ExplorerInv, LedgersOK
  <2>4. \A c \in DOMAIN calls : DetailRight(c)'
    BY <1>1, <2>1 DEF DetailRight
  <2>5. QED
    BY <1>1, <2>1, <2>2, <2>3, <2>4 DEF ModalRight
<1>7. DetailIsOfTheRow' /\ BadgeRight'
  BY <1>1 DEF ExplorerInv, DetailIsOfTheRow, BadgeRight
<1>8. QED
  BY <1>1, <1>4, <1>5, <1>6, <1>7 DEF ExplorerInv

(***************************************************************************)
(* The page.                                                               *)
(***************************************************************************)
LEMMA CallFields ==
    ASSUME NEW c, {"kind", "ledger", "index", "alone", "answer", "era"} \subseteq DOMAIN c,
           NEW alone
    PROVE  LET d == [c EXCEPT !.alone = alone]
           IN  /\ {"kind", "ledger", "index", "alone", "answer", "era"} \subseteq DOMAIN d
               /\ d.kind = c.kind /\ d.ledger = c.ledger /\ d.index = c.index
               /\ d.answer = c.answer /\ d.era = c.era /\ d.alone = alone
OBVIOUS

\* What is asked for next to the requests under way.
LEMMA AskedRight ==
    ASSUME NEW new, Asks(new),
           UNCHANGED server, current' \in ExplorerLedgers,
           \A c \in DOMAIN calls : CallRight(c),
           \A c \in new :
              /\ {"kind", "ledger", "index", "alone", "answer", "era"} \subseteq DOMAIN c
              /\ c.ledger = current' /\ c.era = NULL
    PROVE  \A c \in DOMAIN calls' : CallRight(c)'
<1>1. UNCHANGED <<ledgers, resets>>
  BY DEF server
<1>2. ASSUME NEW c \in DOMAIN calls, NEW d, d = [c EXCEPT !.alone = FALSE]
      PROVE  CallRight(d)'
  <2>1. CallRight(c)
    OBVIOUS
  <2>2. /\ {"kind", "ledger", "index", "alone", "answer", "era"} \subseteq DOMAIN d
        /\ d.kind = c.kind /\ d.ledger = c.ledger /\ d.answer = c.answer /\ d.era = c.era
        /\ ~d.alone
    BY <1>2, <2>1, CallFields DEF CallRight
  <2>3. ListRight(c) => ListRight(d)'
    BY <1>1, <2>2 DEF ListRight, RowRight
  <2>4. QED
    BY <2>1, <2>2, <2>3 DEF CallRight
<1>3. ASSUME NEW c \in new, NEW d, d = [c EXCEPT !.alone = AllIn]
      PROVE  CallRight(d)'
  <2>1. /\ {"kind", "ledger", "index", "alone", "answer", "era"} \subseteq DOMAIN d
        /\ d.ledger = current' /\ d.era = NULL
    BY <1>3, CallFields
  <2>2. QED
    BY <2>1 DEF CallRight
<1>4. DOMAIN calls' = {[c EXCEPT !.alone = FALSE] : c \in DOMAIN calls}
                         \cup {[c EXCEPT !.alone = AllIn] : c \in new}
  BY AsksCalls
<1>5. QED
  BY <1>2, <1>3, <1>4

LEMMA LoadInv ==
    ASSUME ExplorerInv, NEW l \in ExplorerLedgers, LoadBlockList(l)
    PROVE  ExplorerInv'
<1>1. /\ UNCHANGED <<ledgers, resets, status, modal>>
      /\ current' = l /\ list' = NULL /\ modal = NULL
      /\ Asks(Loads(l)) /\ UNCHANGED server
  BY DEF LoadBlockList, server
<1>2. \A c \in Loads(l) :
          /\ {"kind", "ledger", "index", "alone", "answer", "era"} \subseteq DOMAIN c
          /\ c.ledger = current' /\ c.era = NULL
  BY <1>1 DEF Loads, Call
<1>3. \A c \in DOMAIN calls' : CallRight(c)'
  BY <1>1, <1>2, AskedRight DEF ExplorerInv
<1>4. \E c \in DOMAIN calls' : c.kind = "health"
  <2> DEFINE h == Call("health", l, NULL)
  <2>1. h \in Loads(l) /\ [h EXCEPT !.alone = AllIn].kind = "health"
    BY DEF Loads, Call
  <2> HIDE DEF h
  <2>2. DOMAIN calls' = {[c EXCEPT !.alone = FALSE] : c \in DOMAIN calls}
                           \cup {[c EXCEPT !.alone = AllIn] : c \in Loads(l)}
    BY <1>1, AsksCalls
  <2>3. [h EXCEPT !.alone = AllIn] \in DOMAIN calls'
    BY <2>1, <2>2
  <2>4. QED
    BY <2>1, <2>3
<1>5. LedgersOK'
  BY <1>1 DEF ExplorerInv, LedgersOK
<1>6. QED
  BY <1>1, <1>3, <1>4, <1>5 DEF ExplorerInv, ShownRight, ModalRight, DetailIsOfTheRow, BadgeRight

LEMMA ShowInv ==
    ASSUME ExplorerInv, NEW i, ShowBlockDetail(i)
    PROVE  ExplorerInv'
<1> DEFINE d == Call("detail", current, list.answer[i].index)
<1>1. /\ UNCHANGED <<ledgers, resets, current, list, status>>
      /\ list # NULL /\ i \in DOMAIN list.answer
      /\ modal' = [row |-> list.answer[i], ledger |-> list.ledger, era |-> list.era,
                   body |-> NULL, alone |-> list.alone /\ AllIn]
      /\ Asks({d}) /\ UNCHANGED server
  BY DEF ShowBlockDetail, server
<1>2. /\ {"kind", "ledger", "index", "alone", "answer", "era"} \subseteq DOMAIN d
      /\ d.kind = "detail" /\ d.ledger = current /\ d.index = list.answer[i].index
      /\ d.era = NULL
  BY DEF Call
<1> HIDE DEF d
<1>3. DOMAIN calls' = {[c EXCEPT !.alone = FALSE] : c \in DOMAIN calls}
                         \cup {[c EXCEPT !.alone = AllIn] : c \in {d}}
  BY <1>1, AsksCalls
<1>4. LedgersOK' /\ current' \in ExplorerLedgers
  BY <1>1 DEF ExplorerInv, LedgersOK
<1>5. \A c \in DOMAIN calls' : CallRight(c)'
  BY <1>1, <1>2, <1>4, AskedRight DEF ExplorerInv
<1>6. /\ ListRight(list)
      /\ list.alone => list.ledger = current
  BY <1>1 DEF ExplorerInv, ShownRight
<1>7. ShownRight'
  BY <1>1, <1>6 DEF ShownRight, ListRight, RowRight
<1>8. ModalRight'
  <2>1. {"row", "ledger", "era", "body", "alone"} \subseteq DOMAIN modal'
    BY <1>1
  <2> SUFFICES ASSUME list.alone, AllIn PROVE ModalRight'
    BY <1>1, <2>1 DEF ModalRight
  <2>2. /\ modal'.ledger = current' /\ modal'.era = list.era
        /\ modal'.row = list.answer[i]
    BY <1>1, <1>6
  <2>3. /\ modal'.era \in Nat /\ modal'.era <= resets'
        /\ modal'.era = resets => RowRight(modal'.row, current)
    BY <1>1, <1>6, <2>2 DEF ListRight
  <2>4. DOMAIN calls = {}
    BY EmptyBagDomain DEF AllIn
  <2>5. ASSUME NEW c \in DOMAIN calls' PROVE DetailRight(c)'
    <3>1. c = [d EXCEPT !.alone = AllIn]
      BY <1>3, <2>4
    <3>2. c.kind = "detail" /\ c.ledger = current /\ c.index = list.answer[i].index /\ c.era = NULL
      BY <1>2, <3>1, CallFields
    <3>3. QED
      BY <1>1, <2>2, <3>2 DEF DetailRight
  <2>6. QED
    BY <1>1, <2>1, <2>2, <2>3, <2>5 DEF ModalRight, RowRight
<1>9. DetailIsOfTheRow'
  BY <1>1 DEF DetailIsOfTheRow
<1>10. BadgeRight'
  <2>1. SUFFICES ASSUME NEW c \in DOMAIN calls, c.kind = "health"
                 PROVE  \E e \in DOMAIN calls' : e.kind = "health"
    BY <1>1 DEF ExplorerInv, BadgeRight
  <2>2. [c EXCEPT !.alone = FALSE].kind = "health"
    BY <2>1, CallFields DEF ExplorerInv, CallRight
  <2>3. QED
    BY <1>3, <2>1, <2>2
<1>11. QED
  BY <1>4, <1>5, <1>7, <1>8, <1>9, <1>10 DEF ExplorerInv

LEMMA CloseInv ==
    ASSUME ExplorerInv, CloseDetail
    PROVE  ExplorerInv'
<1>1. UNCHANGED <<ledgers, resets, current, list, status, calls>> /\ modal' = NULL
  BY DEF CloseDetail, server
<1>2. \A c : CallRight(c) => CallRight(c)'
  BY <1>1 DEF CallRight, ListRight, RowRight
<1>3. QED
  BY <1>1, <1>2 DEF ExplorerInv, LedgersOK, ShownRight, ListRight, RowRight, ModalRight,
     DetailIsOfTheRow, BadgeRight

\* Every answer is right when the handler makes it.
LEMMA ListedRows ==
    ASSUME LedgersOK, NEW l \in ExplorerLedgers, NEW i \in DOMAIN ListBlocks(l, 1, ListLimit)
    PROVE  RowRight(ListBlocks(l, 1, ListLimit)[i], l)
<1> DEFINE s == ledgers[l]
           n == Min({ListLimit, Len(s)})
<1>1. ListLimit \in Nat
  BY ExplorerAssumption
<1>2. PICK S : s \in Seq(S)
  BY DEF LedgersOK, BlocksOK
<1>3. Len(s) \in Nat
  BY <1>2
<1>4. n \in Nat /\ n <= Len(s)
  BY <1>1, <1>3 DEF Min
<1>5. (1 - 1) * ListLimit = 0 /\ 0 + 1 = 1 /\ 0 + ListLimit = ListLimit
  BY <1>1
<1>6. ListBlocks(l, 1, ListLimit) =
          [k \in DOMAIN SubSeq(s, 1, n) |-> [index |-> SubSeq(s, 1, n)[k].index,
                                             hash |-> SubSeq(s, 1, n)[k].hash]]
  BY <1>5 DEF ListBlocks
<1> HIDE DEF n
<1>7. i \in 1..Len(s) /\ SubSeq(s, 1, n)[i] = s[i]
  BY <1>2, <1>3, <1>4, <1>6
<1>8. ListBlocks(l, 1, ListLimit)[i] = [index |-> s[i].index, hash |-> s[i].hash]
  BY <1>6, <1>7
<1>9. s[i].index = i - 1
  BY <1>7 DEF LedgersOK, BlocksOK
<1>10. QED
  BY <1>7, <1>8, <1>9 DEF RowRight

LEMMA ServeInv ==
    ASSUME ExplorerInv, NEW c \in DOMAIN calls, Serve(c)
    PROVE  ExplorerInv'
<1> DEFINE d == [c EXCEPT !.answer = Answer(c), !.era = resets]
<1>1. /\ UNCHANGED <<ledgers, resets, current, list, status, modal>>
      /\ calls' = BagAdd(BagRemove(calls, c), d)
      /\ c.era = NULL
  BY DEF Serve, server, screen
<1>2. /\ \A e \in DOMAIN calls' : e \in DOMAIN calls \/ e = d
      /\ d \in DOMAIN calls'
      /\ \A e \in DOMAIN calls : e = c \/ e \in DOMAIN calls'
  <2> HIDE DEF d
  <2>1. DOMAIN calls' = DOMAIN BagRemove(calls, c) \cup {d}
    BY <1>1, BagAddDomain
  <2>2. QED
    BY <2>1, BagRemoveDomain, BagRemoveKeeps
<1>3. CallRight(c)
  BY DEF ExplorerInv
<1>4. /\ {"kind", "ledger", "index", "alone", "answer", "era"} \subseteq DOMAIN d
      /\ d.kind = c.kind /\ d.ledger = c.ledger /\ d.index = c.index
      /\ d.answer = Answer(c) /\ d.era = resets /\ d.alone = c.alone
  BY <1>3 DEF CallRight
<1> HIDE DEF d
<1>5. LedgersOK /\ LedgersOK'
  BY <1>1 DEF ExplorerInv, LedgersOK
<1>6. CallRight(d)
  <2>1. ASSUME c.kind = "list" PROVE ListRight(d)
    <3>1. Answer(c) = ListBlocks(c.ledger, 1, ListLimit)
      BY <2>1 DEF Answer
    <3>2. c.ledger \in ExplorerLedgers
      BY <1>3 DEF CallRight
    <3>3. \A i \in DOMAIN d.answer : RowRight(d.answer[i], d.ledger)
      BY <1>4, <1>5, <3>1, <3>2, ListedRows
    <3>4. QED
      BY <1>4, <1>5, <3>2, <3>3 DEF ListRight, LedgersOK
  <2>2. QED
    BY <1>3, <1>4, <2>1 DEF CallRight
<1>7. \A e : CallRight(e) => CallRight(e)'
  BY <1>1 DEF CallRight, ListRight, RowRight
<1>8. \A e \in DOMAIN calls' : CallRight(e)'
  BY <1>2, <1>6, <1>7 DEF ExplorerInv
<1>9. ShownRight'
  BY <1>1 DEF ExplorerInv, ShownRight, ListRight, RowRight
<1>10. ModalRight'
  <2> SUFFICES ASSUME modal # NULL, modal.alone PROVE ModalRight'
    BY <1>1 DEF ExplorerInv, ModalRight
  <2>1. /\ {"row", "ledger", "era", "body", "alone"} \subseteq DOMAIN modal
        /\ modal.ledger = current
        /\ modal.era \in Nat /\ modal.era <= resets
        /\ modal.era = resets => RowRight(modal.row, current)
        /\ \A e \in DOMAIN calls : DetailRight(e)
    BY DEF ExplorerInv, ModalRight
  <2>2. DetailRight(d)
    <3>1. c.kind = "detail" /\ c.ledger = current /\ c.index = modal.row.index
      BY <2>1 DEF DetailRight
    <3>2. ASSUME resets = modal.era, Answer(c) # NULL
          PROVE  Answer(c).hash = modal.row.hash /\ Answer(c).index = modal.row.index
      <4>1. PICK i \in 1..Len(ledgers[current]) :
                modal.row.index = i - 1 /\ modal.row.hash = ledgers[current][i].hash
        BY <2>1, <3>2 DEF RowRight
      <4>2. i \in Nat /\ (i - 1) + 1 = i
        OBVIOUS
      <4>3. Answer(c) = GetBlockDetail(current, i - 1)
        BY <3>1, <4>1 DEF Answer
      <4>4. Answer(c) = ledgers[current][i]
        BY <3>2, <4>2, <4>3 DEF GetBlockDetail, BlockAt
      <4>5. ledgers[current][i].index = i - 1
        BY <1>5, <4>1 DEF LedgersOK, BlocksOK
      <4>6. QED
        BY <4>1, <4>4, <4>5
    <3>3. QED
      BY <1>4, <2>1, <3>1, <3>2 DEF DetailRight
  <2>3. \A e \in DOMAIN calls' : DetailRight(e)'
    BY <1>1, <1>2, <2>1, <2>2 DEF DetailRight
  <2>4. QED
    BY <1>1, <2>1, <2>3 DEF ModalRight, RowRight
<1>11. DetailIsOfTheRow' /\ BadgeRight'
  BY <1>1, <1>2, <1>4 DEF ExplorerInv, DetailIsOfTheRow, BadgeRight
<1>12. QED
  BY <1>5, <1>8, <1>9, <1>10, <1>11 DEF ExplorerInv

\* A request leaves the bag, and what is shown changes by one answer.
LEMMA GoneInv ==
    ASSUME ExplorerInv, NEW c \in DOMAIN calls, calls' = BagRemove(calls, c),
           UNCHANGED <<server, current>>, ShownRight', DetailIsOfTheRow',
           status' = NULL \/ status'.ledger = current \/ (c.kind # "health" /\ status' = status),
           \/ modal' = modal
           \/ modal = NULL /\ modal' = NULL
           \/ modal # NULL /\ \E body : modal' = [modal EXCEPT !.body = body]
    PROVE  ExplorerInv'
<1>1. UNCHANGED <<ledgers, resets, current>>
  BY DEF server
<1>2. /\ \A e \in DOMAIN calls' : e \in DOMAIN calls
      /\ \A e \in DOMAIN calls : e = c \/ e \in DOMAIN calls'
  BY BagRemoveDomain, BagRemoveKeeps
<1>3. \A e \in DOMAIN calls' : CallRight(e)'
  BY <1>1, <1>2 DEF ExplorerInv, CallRight, ListRight, RowRight
<1>4. ModalRight'
  <2>1. ASSUME modal' # NULL
        PROVE  /\ modal # NULL
               /\ {"row", "ledger", "era", "body", "alone"} \subseteq DOMAIN modal'
               /\ modal'.row = modal.row /\ modal'.ledger = modal.ledger
               /\ modal'.era = modal.era /\ modal'.alone = modal.alone
    BY <2>1 DEF ExplorerInv, ModalRight
  <2>2. \A e : modal' # NULL /\ DetailRight(e) => DetailRight(e)'
    BY <2>1 DEF DetailRight
  <2>3. QED
    BY <1>1, <1>2, <2>1, <2>2 DEF ExplorerInv, ModalRight, RowRight
<1>5. BadgeRight'
  BY <1>1, <1>2 DEF ExplorerInv, BadgeRight
<1>6. LedgersOK'
  BY <1>1 DEF ExplorerInv, LedgersOK
<1>7. QED
  BY <1>3, <1>4, <1>5, <1>6 DEF ExplorerInv

LEMMA DisplayInv ==
    ASSUME ExplorerInv, NEW c \in DOMAIN calls, CallAnswered(c)
    PROVE  ExplorerInv'
<1>1. /\ UNCHANGED <<server, current>> /\ UNCHANGED <<ledgers, resets>>
      /\ calls' = BagRemove(calls, c)
      /\ c.era # NULL /\ Display(c)
  BY DEF CallAnswered, server
<1>2. CallRight(c)
  BY DEF ExplorerInv
<1>3. CASE /\ c.kind = "health" /\ UNCHANGED <<list, modal>>
           /\ status' = [ledger |-> BadgeLedger(c), valid |-> c.answer[BadgeLedger(c)]]
  <2>1. status'.ledger = current
    BY <1>3 DEF BadgeLedger
  <2>2. ShownRight' /\ DetailIsOfTheRow'
    BY <1>1, <1>3 DEF ExplorerInv, ShownRight, ListRight, RowRight, DetailIsOfTheRow
  <2>3. QED
    BY <1>1, <1>3, <2>1, <2>2, GoneInv
<1>4. CASE c.kind = "list" /\ UNCHANGED <<status, modal>> /\ list' = c
  <2>1. ListRight(c) /\ (c.alone => c.ledger = current)
    BY <1>1, <1>2, <1>4 DEF CallRight
  <2>2. ShownRight'
    BY <1>1, <1>4, <2>1 DEF ShownRight, ListRight, RowRight
  <2>3. DetailIsOfTheRow'
    BY <1>4 DEF ExplorerInv, DetailIsOfTheRow
  <2>4. QED
    BY <1>1, <1>4, <2>2, <2>3, GoneInv
<1>5. CASE c.kind = "detail" /\ UNCHANGED <<list, status>>
           /\ modal' = Filled(IF c.answer = NULL THEN NULL
                              ELSE [hash  |-> c.answer.hash, era |-> c.era,
                                    label |-> Validator(current, c.answer.index)])
  <2> DEFINE body == IF c.answer = NULL THEN NULL
                     ELSE [hash  |-> c.answer.hash, era |-> c.era,
                           label |-> Validator(current, c.answer.index)]
  <2>1. \/ modal = NULL /\ modal' = NULL
        \/ modal # NULL /\ modal' = [modal EXCEPT !.body = body]
    BY <1>5 DEF Filled
  <2>2. body # NULL => /\ c.answer # NULL /\ body.hash = c.answer.hash /\ body.era = c.era
                       /\ body.label = Validator(current, c.answer.index)
    OBVIOUS
  <2> HIDE DEF body
  <2>3. ShownRight'
    BY <1>1, <1>5 DEF ExplorerInv, ShownRight, ListRight, RowRight
  <2>4. DetailIsOfTheRow'
    <3> SUFFICES ASSUME modal # NULL, modal' = [modal EXCEPT !.body = body],
                        modal'.alone, modal'.body # NULL
                 PROVE  DetailIsOfTheRow'
      BY <2>1 DEF DetailIsOfTheRow
    <3>1. /\ modal'.row = modal.row /\ modal'.ledger = modal.ledger
          /\ modal'.era = modal.era /\ modal.alone /\ modal'.body = body
      BY DEF ExplorerInv, ModalRight
    <3>2. DetailRight(c) /\ modal.ledger = current
      BY <3>1 DEF ExplorerInv, ModalRight
    <3>3. \/ body.era # modal.era
          \/ /\ body.hash = modal.row.hash
             /\ body.label = Validator(modal.ledger, modal.row.index)
      BY <1>1, <2>2, <3>1, <3>2 DEF DetailRight
    <3>4. QED
      BY <3>1, <3>3 DEF DetailIsOfTheRow, Validator
  <2>5. QED
    BY <1>1, <1>5, <2>1, <2>3, <2>4, GoneInv
<1>6. QED
  BY <1>1, <1>3, <1>4, <1>5 DEF Display

LEMMA FailInv ==
    ASSUME ExplorerInv, NEW c \in DOMAIN calls, CallFails(c)
    PROVE  ExplorerInv'
<1>1. /\ UNCHANGED <<server, current>> /\ UNCHANGED <<ledgers, resets>>
      /\ calls' = BagRemove(calls, c)
      /\ status' = IF c.kind = "health" THEN NULL ELSE status
      /\ list'   = IF c.kind = "list" THEN NULL ELSE list
      /\ modal'  = IF c.kind = "detail" THEN Filled(NULL) ELSE modal
  BY DEF CallFails, server
<1>2. \/ modal' = modal
      \/ modal = NULL /\ modal' = NULL
      \/ modal # NULL /\ modal' = [modal EXCEPT !.body = NULL]
  BY <1>1 DEF Filled
<1>3. ShownRight'
  BY <1>1 DEF ExplorerInv, ShownRight, ListRight, RowRight
<1>4. DetailIsOfTheRow'
  BY <1>2 DEF ExplorerInv, ModalRight, DetailIsOfTheRow
<1>5. QED
  BY <1>1, <1>2, <1>3, <1>4, GoneInv

LEMMA ExplorerInitially == ExplorerInit => ExplorerInv
<1> SUFFICES ASSUME ExplorerInit PROVE ExplorerInv
  OBVIOUS
<1>1. /\ resets = 0 /\ current = "vote" /\ list = NULL /\ status = NULL /\ modal = NULL
      /\ calls = SetToBag(Loads("vote")) /\ "vote" \in ExplorerLedgers
  BY ExplorerAssumption DEF ExplorerInit
<1>2. BlocksOK(<<Genesis(0)>>)
  BY GenesisOK
<1>3. BlocksOK(Append(<<Genesis(0)>>, NextBlock(<<Genesis(0)>>, "audit", 0)))
  BY <1>2, AddedBlock DEF NextBlock
<1>4. LedgersOK
  BY <1>1, <1>2, <1>3 DEF ExplorerInit, LedgersOK
<1>5. DOMAIN calls = Loads("vote")
  BY <1>1 DEF SetToBag
<1>6. \A c \in DOMAIN calls : CallRight(c)
  BY <1>1, <1>5 DEF Loads, Call, CallRight
<1>7. QED
  BY <1>1, <1>4, <1>6 DEF ExplorerInv, ShownRight, ModalRight, DetailIsOfTheRow, BadgeRight

LEMMA ExplorerInvariant == ExplorerSpec => []ExplorerInv
<1>1. ExplorerInv /\ [ExplorerNext]_explorerVars => ExplorerInv'
  <2> SUFFICES ASSUME ExplorerInv, [ExplorerNext]_explorerVars PROVE ExplorerInv'
    OBVIOUS
  <2>1. CASE UNCHANGED explorerVars
    <3>1. UNCHANGED <<ledgers, resets, current, list, status, modal, calls>>
      BY <2>1 DEF explorerVars, server, screen
    <3>2. \A c : CallRight(c) => CallRight(c)'
      BY <3>1 DEF CallRight, ListRight, RowRight
    <3>3. ModalRight'
      BY <3>1 DEF ExplorerInv, ModalRight, DetailRight, RowRight
    <3>4. QED
      BY <3>1, <3>2, <3>3 DEF ExplorerInv, LedgersOK, ShownRight, ListRight, RowRight,
         DetailIsOfTheRow, BadgeRight
  <2>2. CASE (\E l \in ExplorerLedgers : AddBlock(l)) \/ Tamper \/ ResetChain
    BY <2>2, ServerSteps, ServerInv DEF ExplorerInv
  <2>3. CASE Reload \/ LedgerSelected
    <3>1. PICK l \in ExplorerLedgers : LoadBlockList(l)
      BY <2>3 DEF Reload, LedgerSelected, ExplorerInv, LedgersOK
    <3>2. QED
      BY <3>1, LoadInv
  <2>4. CASE \E i \in 1..ListLimit : ShowBlockDetail(i)
    BY <2>4, ShowInv
  <2>5. CASE \E c \in DOMAIN calls : Serve(c) \/ CallAnswered(c) \/ CallFails(c)
    BY <2>5, ServeInv, DisplayInv, FailInv
  <2>6. QED
    BY <2>1, <2>2, <2>3, <2>4, <2>5, CloseInv DEF ExplorerNext
<1>2. QED
  BY <1>1, ExplorerInitially, PTL DEF ExplorerSpec

\* The detail in the modal is the one that the row stood for when
\* showBlockDetail was called, and names its signer, whatever is added to the
\* ledgers, tampered with or reset, and in whichever order answers come; for an
\* administrator who waits, and unless the ledger was reset in between.
THEOREM DetailsAreOfTheirRows == ExplorerSpec => []DetailIsOfTheRow
<1>1. ExplorerInv => DetailIsOfTheRow
  BY DEF ExplorerInv
<1>2. QED
  BY <1>1, ExplorerInvariant, PTL

\* When all answers are in, the badge that loadChainHealth sets is about the
\* ledger that is selected, although an older answer may come after a newer one.
THEOREM BadgesAreOfTheirLedgers == ExplorerSpec => []BadgeIsOfTheLedger
<1>1. ExplorerInv => BadgeIsOfTheLedger
  BY EmptyBagDomain DEF ExplorerInv, BadgeRight, BadgeIsOfTheLedger, AllIn
<1>2. QED
  BY <1>1, ExplorerInvariant, PTL

(***************************************************************************)
(* Tampered blocks in the explorer.                                        *)
(***************************************************************************)
\* A list of one transaction is its own tree.
LEMMA SingleTree ==
    ASSUME NEW tx, NEW root
    PROVE  /\ GetMerkleRoot(<<tx>>) = MerkleRoot(tx)
           /\ VerifyMerkleProof(tx, GetMerkleProof(<<tx>>, 0), root) <=> root = MerkleRoot(tx)
<1> DEFINE txs == <<tx>>
           layers == BuildMerkleTree(txs)
           proof == GetMerkleProof(txs, 0)
<1>1. txs \in Seq({tx}) /\ Len(txs) = 1 /\ txs[1] = tx /\ txs # <<>>
  OBVIOUS
<1> HIDE DEF txs
<1>2. Tree(layers, txs) /\ Len(layers) <= Len(txs)
  BY <1>1, TreeBuilt
<1>3. GetMerkleRoot(txs) = layers[Len(layers)][1]
  BY DEF GetMerkleRoot
<1> HIDE DEF layers
<1>4. Len(layers) = 1 /\ layers[1][1] = HashTransaction(tx)
  BY <1>1, <1>2 DEF Tree
<1>5. MerkleRoot(tx) = HashTransaction(tx)
  BY DEF MerkleRoot, HashTransaction
<1>6. Len(layers) \in Nat \ {0} /\ 0 \in Nat
  BY <1>4
<1>7. \E index \in [0..Len(layers) -> Nat] :
          /\ index[0] = 0
          /\ \A k \in 1..Len(layers) : index[k] = index[k - 1] \div 2
          /\ Len(proof) = Len(layers) - 1
          /\ \A k \in 1..Len(layers) - 1 : proof[k] = Sibling(layers[k], index[k - 1])
  BY <1>6, ProofTaken, Zenon DEF layers
<1> HIDE DEF proof
<1>8. Len(proof) = 0
  BY <1>4, <1>7
<1>9. PICK f : /\ f[0] = HashTransaction(tx)
               /\ \A n \in 1..Len(proof) : f[n] = Up(f[n - 1], proof[n])
               /\ VerifyMerkleProof(tx, proof, root) <=> f[Len(proof)] = root
  <2>1. Len(proof) \in Nat
    BY <1>8
  <2>2. QED
    BY <2>1, Verification
<1>10. VerifyMerkleProof(tx, proof, root) <=> HashTransaction(tx) = root
  BY <1>8, <1>9
<1>11. QED
  BY <1>3, <1>4, <1>5, <1>10 DEF txs, proof

BlockFields ==
    {"index", "timestamp", "data", "previousHash", "signature", "publicKey", "merkleRoot", "hash"}

\* What was signed and hashed, and what the tampering puts in its place.
SignedAs(l, era, n) == <<l, era, n>>
Forged              == <<"vote", 999, 999>>

\* A block but the first as it was added, up to its data.
SealedBlock(b, prev, l, era, n) ==
    /\ BlockFields \subseteq DOMAIN b
    /\ b.hash = CalculateHash(b)
    /\ b.previousHash = prev.hash
    /\ b.publicKey = "key"
    /\ b.merkleRoot = MerkleRoot(SignedAs(l, era, n))
    /\ b.signature = SignData("key", SignedAs(l, era, n))

\* The chain of ledger l, of which the blocks in `bad` are tampered with.
SealedChain(s, l, bad) ==
    /\ \E S : s \in Seq(S)
    /\ Len(s) \in 1..MaxBlocks + 1
    /\ bad \subseteq {1} /\ \A n \in bad : n < Len(s)
    /\ \A i \in 2..Len(s) : \E era \in 0..MaxResets :
          /\ SealedBlock(s[i], s[i - 1], l, era, i - 1)
          /\ s[i].data = IF i - 1 \in bad THEN Forged ELSE SignedAs(l, era, i - 1)

LedgersSealed ==
    /\ resets \in 0..MaxResets
    /\ ledgers = [l \in ExplorerLedgers |-> ledgers[l]]
    /\ tampered = [l \in ExplorerLedgers |-> tampered[l]]
    /\ \A l \in ExplorerLedgers : SealedChain(ledgers[l], l, tampered[l])

LEMMA AddedSealed ==
    ASSUME NEW s, NEW l, NEW bad, SealedChain(s, l, bad), NEW era \in 0..MaxResets,
           Len(s) <= MaxBlocks
    PROVE  SealedChain(Append(s, NextBlock(s, l, era)), l, bad)
<1> DEFINE b == NextBlock(s, l, era)
           t == Append(s, b)
<1>1. PICK S : s \in Seq(S)
  BY DEF SealedChain
<1>2. /\ Len(s) \in Nat \ {0} /\ MaxBlocks \in Nat
      /\ bad \subseteq {1} /\ \A n \in bad : n < Len(s)
  BY ExplorerAssumption DEF SealedChain
<1>3. /\ BlockFields \subseteq DOMAIN b /\ b.data = SignedAs(l, era, Len(s))
      /\ SealedBlock(b, s[Len(s)], l, era, Len(s))
  BY DEF NextBlock, NewBlock, Link, Block, SealedBlock, CalculateHash, SignedAs, GetLatestBlock,
         BlockFields
<1> HIDE DEF b
<1>4. /\ t \in Seq(S \cup {b}) /\ Len(t) = Len(s) + 1 /\ t[Len(s) + 1] = b
      /\ \A i \in 1..Len(s) : t[i] = s[i]
  BY <1>1, <1>2
<1> HIDE DEF t
<1>5. ASSUME NEW i \in 2..Len(t)
      PROVE  \E e \in 0..MaxResets :
                 /\ SealedBlock(t[i], t[i - 1], l, e, i - 1)
                 /\ t[i].data = IF i - 1 \in bad THEN Forged ELSE SignedAs(l, e, i - 1)
  <2>1. CASE i \in 2..Len(s)
    <3>1. i - 1 \in 1..Len(s) /\ t[i] = s[i] /\ t[i - 1] = s[i - 1]
      BY <1>2, <1>4, <2>1
    <3>2. QED
      BY <2>1, <3>1 DEF SealedChain
  <2>2. CASE i \notin 2..Len(s)
    <3>1. i = Len(s) + 1 /\ i - 1 = Len(s) /\ i - 1 \notin bad
      BY <1>2, <1>4, <2>2
    <3>2. t[i] = b /\ t[i - 1] = s[Len(s)]
      BY <1>2, <1>4, <3>1
    <3>3. QED
      BY <1>3, <3>1, <3>2
  <2>3. QED
    BY <2>1, <2>2
<1>6. Len(t) \in 1..MaxBlocks + 1 /\ \A n \in bad : n < Len(t)
  BY <1>2, <1>4
<1>7. SealedChain(t, l, bad)
  BY <1>2, <1>4, <1>5, <1>6 DEF SealedChain
<1>8. QED
  BY <1>7 DEF t, b

LEMMA FirstSealed ==
    ASSUME NEW b, NEW l
    PROVE  SealedChain(<<b>>, l, {})
<1> DEFINE s == <<b>>
<1>1. s \in Seq({b}) /\ Len(s) = 1
  OBVIOUS
<1>2. Len(s) \in 1..MaxBlocks + 1 /\ \A i \in 2..Len(s) : FALSE
  BY <1>1, ExplorerAssumption
<1> HIDE DEF s
<1>3. SealedChain(s, l, {})
  BY <1>1, <1>2 DEF SealedChain
<1>4. QED
  BY <1>3 DEF s

\* hackBlock changes the data and nothing that seals it.
LEMMA HackedSealed ==
    ASSUME NEW s, NEW l, NEW bad, SealedChain(s, l, bad), 1 < Len(s)
    PROVE  SealedChain(HackBlock(s, 1, Forged), l, bad \cup {1})
<1> DEFINE e == [s[2] EXCEPT !.data = Forged]
           t == [s EXCEPT ![2] = e]
<1>1. PICK S : s \in Seq(S)
  BY DEF SealedChain
<1>2. Len(s) \in Nat /\ Len(s) \in 1..MaxBlocks + 1 /\ 2 \in 2..Len(s)
  BY ExplorerAssumption DEF SealedChain
<1>3. HackBlock(s, 1, Forged) = t
  BY <1>2 DEF HackBlock
<1>4. PICK era \in 0..MaxResets : SealedBlock(s[2], s[1], l, era, 1)
  BY <1>2 DEF SealedChain
<1>5. /\ e.data = Forged /\ e.hash = s[2].hash /\ BlockFields \subseteq DOMAIN e
      /\ e.previousHash = s[2].previousHash /\ e.index = s[2].index
      /\ e.timestamp = s[2].timestamp /\ e.merkleRoot = s[2].merkleRoot
      /\ e.publicKey = s[2].publicKey /\ e.signature = s[2].signature
  BY <1>4 DEF SealedBlock, BlockFields
<1> HIDE DEF e
<1>6. SealedBlock(e, s[1], l, era, 1)
  BY <1>4, <1>5 DEF SealedBlock, CalculateHash
<1>7. /\ t \in Seq(S \cup {e}) /\ Len(t) = Len(s) /\ t[2] = e
      /\ \A i \in 1..Len(s) : i # 2 => t[i] = s[i]
  BY <1>1, <1>2
<1>8. \A i \in 1..Len(s) : t[i].hash = s[i].hash
  BY <1>5, <1>7
<1> HIDE DEF t
<1>9. ASSUME NEW i \in 2..Len(t)
      PROVE  \E y \in 0..MaxResets :
                 /\ SealedBlock(t[i], t[i - 1], l, y, i - 1)
                 /\ t[i].data = IF i - 1 \in bad \cup {1} THEN Forged ELSE SignedAs(l, y, i - 1)
  <2>1. CASE i = 2
    <3>1. t[1] = s[1] /\ t[2] = e
      BY <1>2, <1>7
    <3>2. QED
      BY <1>5, <1>6, <2>1, <3>1
  <2>2. CASE i # 2
    <3>1. i \in 2..Len(s) /\ i - 1 \in 1..Len(s) /\ t[i] = s[i] /\ i - 1 # 1
      BY <1>2, <1>7, <2>2
    <3>2. PICK y \in 0..MaxResets :
              /\ SealedBlock(s[i], s[i - 1], l, y, i - 1)
              /\ s[i].data = IF i - 1 \in bad THEN Forged ELSE SignedAs(l, y, i - 1)
      BY <3>1 DEF SealedChain
    <3>3. t[i - 1].hash = s[i - 1].hash
      BY <1>8, <3>1
    <3>4. SealedBlock(t[i], t[i - 1], l, y, i - 1)
      BY <3>1, <3>2, <3>3 DEF SealedBlock
    <3>5. QED
      BY <3>1, <3>2, <3>4
  <2>3. QED
    BY <2>1, <2>2
<1>10. bad \cup {1} \subseteq {1} /\ \A n \in bad \cup {1} : n < Len(t)
  BY <1>7 DEF SealedChain
<1>11. SealedChain(t, l, bad \cup {1})
  BY <1>2, <1>7, <1>9, <1>10 DEF SealedChain
<1>12. QED
  BY <1>3, <1>11

LEMMA SealedInitially == ExplorerInit => LedgersSealed
<1> SUFFICES ASSUME ExplorerInit PROVE LedgersSealed
  OBVIOUS
<1>1. MaxResets \in Nat /\ MaxBlocks \in Nat \ {0}
  BY ExplorerAssumption
<1> DEFINE g == Genesis(0)
<1>2. \A l : SealedChain(<<g>>, l, {})
  BY FirstSealed
<1>3. Len(<<g>>) = 1
  OBVIOUS
<1> DEFINE s == <<g>>
           b == NextBlock(s, "audit", 0)
           two == Append(s, b)
<1>4. SealedChain(two, "audit", {})
  <2>1. 0 \in 0..MaxResets /\ Len(s) <= MaxBlocks
    BY <1>1, <1>3
  <2> HIDE DEF s
  <2>2. SealedChain(s, "audit", {})
    BY <1>2 DEF s
  <2>3. QED
    BY <2>1, <2>2, AddedSealed
<1> HIDE DEF b
<1>5. /\ ledgers = [l \in ExplorerLedgers |-> IF l = "audit" THEN two ELSE s]
      /\ tampered = [l \in ExplorerLedgers |-> {}] /\ resets = 0
  BY DEF ExplorerInit, b
<1> HIDE DEF two, s, g
<1>6. \A l \in ExplorerLedgers : SealedChain(ledgers[l], l, tampered[l])
  BY <1>2, <1>4, <1>5 DEF s
<1>7. QED
  BY <1>1, <1>5, <1>6 DEF LedgersSealed

LEMMA ServerSeals ==
    ASSUME LedgersSealed, (\E l \in ExplorerLedgers : AddBlock(l)) \/ Tamper \/ ResetChain
    PROVE  LedgersSealed'
<1>1. /\ "vote" \in ExplorerLedgers /\ MaxResets \in Nat /\ resets \in 0..MaxResets
      /\ \A l \in ExplorerLedgers : SealedChain(ledgers[l], l, tampered[l])
  BY ExplorerAssumption DEF LedgersSealed
<1>2. ASSUME NEW l \in ExplorerLedgers, AddBlock(l) PROVE LedgersSealed'
  <2> DEFINE new == Append(ledgers[l], NextBlock(ledgers[l], l, resets))
  <2>1. /\ ledgers' = [ledgers EXCEPT ![l] = new] /\ Len(ledgers[l]) < MaxBlocks
        /\ tampered' = tampered /\ resets' = resets
    BY <1>2 DEF AddBlock
  <2>2. Len(ledgers[l]) <= MaxBlocks
    BY <1>1, <2>1, ExplorerAssumption DEF SealedChain
  <2>3. SealedChain(new, l, tampered[l])
    BY <1>1, <2>2, AddedSealed
  <2> HIDE DEF new
  <2>4. ledgers' = [m \in ExplorerLedgers |-> IF m = l THEN new ELSE ledgers[m]]
    BY <2>1 DEF LedgersSealed
  <2>5. \A m \in ExplorerLedgers : SealedChain(ledgers'[m], m, tampered[m])
    BY <1>1, <2>3, <2>4
  <2>6. QED
    BY <2>1, <2>4, <2>5 DEF LedgersSealed
<1>3. CASE Tamper
  <2> DEFINE new == HackBlock(ledgers["vote"], 1, Forged)
             bad == tampered["vote"] \cup {1}
  <2>1. /\ ledgers' = [ledgers EXCEPT !["vote"] = new] /\ Len(ledgers["vote"]) > 1
        /\ tampered' = [tampered EXCEPT !["vote"] = bad] /\ resets' = resets
    BY <1>3 DEF Tamper, Forged
  <2>2. 1 < Len(ledgers["vote"])
    BY <1>1, <2>1, ExplorerAssumption DEF SealedChain
  <2>3. SealedChain(new, "vote", bad)
    BY <1>1, <2>2, HackedSealed
  <2> HIDE DEF new, bad
  <2>4. /\ ledgers' = [m \in ExplorerLedgers |-> IF m = "vote" THEN new ELSE ledgers[m]]
        /\ tampered' = [m \in ExplorerLedgers |-> IF m = "vote" THEN bad ELSE tampered[m]]
    BY <2>1 DEF LedgersSealed
  <2>5. \A m \in ExplorerLedgers : SealedChain(ledgers'[m], m, tampered'[m])
    BY <1>1, <2>3, <2>4
  <2>6. QED
    BY <2>1, <2>4, <2>5 DEF LedgersSealed
<1>4. CASE ResetChain
  <2> DEFINE new == <<Genesis(resets + 1)>>
  <2>1. /\ ledgers' = [ledgers EXCEPT !["vote"] = new]
        /\ tampered' = [tampered EXCEPT !["vote"] = {}]
        /\ resets < MaxResets /\ resets' = resets + 1
    BY <1>4 DEF ResetChain
  <2>2. SealedChain(new, "vote", {})
    BY FirstSealed
  <2> HIDE DEF new
  <2>3. /\ ledgers' = [m \in ExplorerLedgers |-> IF m = "vote" THEN new ELSE ledgers[m]]
        /\ tampered' = [m \in ExplorerLedgers |-> IF m = "vote" THEN {} ELSE tampered[m]]
    BY <2>1 DEF LedgersSealed
  <2>4. \A m \in ExplorerLedgers : SealedChain(ledgers'[m], m, tampered'[m])
    BY <1>1, <2>2, <2>3
  <2>5. resets' \in 0..MaxResets
    BY <1>1, <2>1
  <2>6. QED
    BY <2>3, <2>4, <2>5 DEF LedgersSealed
<1>5. QED
  BY <1>2, <1>3, <1>4

LEMMA SealedAlways == ExplorerSpec => []LedgersSealed
<1>1. LedgersSealed /\ [ExplorerNext]_explorerVars => LedgersSealed'
  <2> SUFFICES ASSUME LedgersSealed, [ExplorerNext]_explorerVars PROVE LedgersSealed'
    OBVIOUS
  <2>1. CASE UNCHANGED server
    BY <2>1 DEF LedgersSealed, server
  <2>2. CASE (\E l \in ExplorerLedgers : AddBlock(l)) \/ Tamper \/ ResetChain
    BY <2>2, ServerSeals
  <2>3. UNCHANGED server \/ (\E l \in ExplorerLedgers : AddBlock(l)) \/ Tamper \/ ResetChain
    BY DEF ExplorerNext, explorerVars, Reload, LedgerSelected, LoadBlockList, ShowBlockDetail,
       CloseDetail, Serve, CallAnswered, CallFails
  <2>4. QED
    BY <2>1, <2>2, <2>3
<1>2. QED
  BY <1>1, SealedInitially, PTL DEF ExplorerSpec

\* What each endpoint says of a block.
LEMMA BlockTold ==
    ASSUME LedgersSealed, NEW l \in ExplorerLedgers, NEW i \in 2..Len(ledgers[l])
    PROVE  LET b == ledgers[l][i]
           IN  /\ MerkleRoot(b.data) = b.merkleRoot <=> i - 1 \notin tampered[l]
               /\ VerifySignature(b.publicKey, b.data, b.signature) <=> i - 1 \notin tampered[l]
               /\ b.hash = CalculateHash(b) /\ b.previousHash = ledgers[l][i - 1].hash
<1> DEFINE b == ledgers[l][i]
           n == i - 1
<1>1. SealedChain(ledgers[l], l, tampered[l])
  BY DEF LedgersSealed
<1>2. PICK era \in 0..MaxResets :
          /\ SealedBlock(b, ledgers[l][n], l, era, n)
          /\ b.data = IF n \in tampered[l] THEN Forged ELSE SignedAs(l, era, n)
  BY <1>1 DEF SealedChain
<1>3. n \in 1..MaxBlocks /\ (n \in tampered[l] => n = 1)
  BY <1>1, ExplorerAssumption DEF SealedChain
<1>4. /\ b.hash = CalculateHash(b) /\ b.previousHash = ledgers[l][n].hash
      /\ b.publicKey = "key" /\ b.merkleRoot = MerkleRoot(SignedAs(l, era, n))
      /\ b.signature = SignData("key", SignedAs(l, era, n))
  BY <1>2 DEF SealedBlock
<1>5. NULL # "key" /\ NULL # SignData("key", SignedAs(l, era, n))
  BY <1>3, KeyAssumption DEF SignedAs
<1> HIDE DEF b, n
<1>6. b.data = SignedAs(l, era, n) <=> n \notin tampered[l]
  <2>1. n = 1 => Forged # SignedAs(l, era, n)
    BY DEF Forged, SignedAs
  <2>2. QED
    BY <1>2, <1>3, <2>1
<1>7. MerkleRoot(b.data) = MerkleRoot(SignedAs(l, era, n)) <=> b.data = SignedAs(l, era, n)
  BY DEF MerkleRoot
<1>8. SignData("key", b.data) = SignData("key", SignedAs(l, era, n))
          <=> b.data = SignedAs(l, era, n)
  BY DEF SignData
<1>9. VerifySignature(b.publicKey, b.data, b.signature) <=> b.data = SignedAs(l, era, n)
  BY <1>4, <1>5, <1>8 DEF VerifySignature
<1>10. QED
  BY <1>4, <1>6, <1>7, <1>9 DEF b, n

LEMMA EndpointsTell == LedgersSealed => TamperedBlocksAreFound
<1> SUFFICES ASSUME LedgersSealed, NEW l \in ExplorerLedgers
             PROVE  /\ GetHealth[l] <=> tampered[l] = {}
                    /\ \A n \in Indices(l) \ {0} :
                          LET p == GetMerkleProofForTx(l, n)
                          IN  /\ VerifyBlockSignature(l, n) <=> n \notin tampered[l]
                              /\ GetMerkleTree(l, n) = BlockAt(l, n).merkleRoot
                                    <=> n \notin tampered[l]
                              /\ VerifyMerkleProof(p.transaction, p.proof, p.root)
                                    <=> n \notin tampered[l]
  BY DEF TamperedBlocksAreFound
<1>1. SealedChain(ledgers[l], l, tampered[l])
  BY DEF LedgersSealed
<1>2. /\ Len(ledgers[l]) \in Nat
      /\ tampered[l] \subseteq {1} /\ \A n \in tampered[l] : n < Len(ledgers[l])
  BY <1>1, ExplorerAssumption DEF SealedChain
<1>3. GetHealth[l] <=> tampered[l] = {}
  <2>1. GetHealth[l] <=>
            \A i \in 2..Len(ledgers[l]) : ValidLink(ledgers[l][i - 1], ledgers[l][i])
    BY DEF GetHealth, IsChainValid
  <2>2. \A i \in 2..Len(ledgers[l]) :
            ValidLink(ledgers[l][i - 1], ledgers[l][i]) <=> i - 1 \notin tampered[l]
    BY BlockTold DEF ValidLink, VerifyMerkleRoot
  <2>3. tampered[l] = {} \/ (tampered[l] = {1} /\ 2 \in 2..Len(ledgers[l]) /\ 2 - 1 = 1)
    BY <1>2
  <2>4. QED
    BY <2>1, <2>2, <2>3
<1>4. ASSUME NEW n \in Indices(l) \ {0}
      PROVE  LET p == GetMerkleProofForTx(l, n)
             IN  /\ VerifyBlockSignature(l, n) <=> n \notin tampered[l]
                 /\ GetMerkleTree(l, n) = BlockAt(l, n).merkleRoot <=> n \notin tampered[l]
                 /\ VerifyMerkleProof(p.transaction, p.proof, p.root) <=> n \notin tampered[l]
  <2> DEFINE b == BlockAt(l, n)
             p == GetMerkleProofForTx(l, n)
  <2>1. n + 1 \in 2..Len(ledgers[l]) /\ (n + 1) - 1 = n /\ b = ledgers[l][n + 1]
    BY <1>2 DEF Indices, BlockAt
  <2>2. /\ MerkleRoot(b.data) = b.merkleRoot <=> n \notin tampered[l]
        /\ VerifySignature(b.publicKey, b.data, b.signature) <=> n \notin tampered[l]
    BY <2>1, BlockTold
  <2>3. /\ p.transaction = b.data /\ p.proof = GetMerkleProof(<<b.data>>, 0)
        /\ p.root = b.merkleRoot
    BY DEF GetMerkleProofForTx
  <2>4. GetMerkleTree(l, n) = MerkleRoot(b.data)
    BY SingleTree DEF GetMerkleTree
  <2>5. VerifyMerkleProof(b.data, GetMerkleProof(<<b.data>>, 0), b.merkleRoot)
            <=> b.merkleRoot = MerkleRoot(b.data)
    BY SingleTree
  <2>6. VerifyBlockSignature(l, n) <=> VerifySignature(b.publicKey, b.data, b.signature)
    BY DEF VerifyBlockSignature
  <2> HIDE DEF b, p
  <2>7. VerifyMerkleProof(p.transaction, p.proof, p.root) <=> b.merkleRoot = MerkleRoot(b.data)
    BY <2>3, <2>5
  <2>8. QED
    BY <2>2, <2>4, <2>6, <2>7 DEF b, p
<1>5. QED
  BY <1>3, <1>4

(***************************************************************************)
(* The pages, of which one part runs at a time.                            *)
(***************************************************************************)
LEMMA PagesExplore == PagesSpec => ExplorerSpec
<1>1. PagesInit => ExplorerInit
  BY DEF PagesInit
<1>2. [PagesNext]_pagesVars => [ExplorerNext]_explorerVars
  BY DEF PagesNext, pagesVars
<1>3. QED
  BY <1>1, <1>2, PTL DEF PagesSpec, ExplorerSpec

\* Verify Block Signature, getMerkleTree, getMerkleProofForTx and getHealth of the
\* explorer each find a block that hackBlock changed, and accuse no other, on
\* chains of any length and after any number of resets.
THEOREM TamperingIsFound == PagesSpec => []TamperedBlockIsFound
<1>1. LedgersSealed => TamperedBlockIsFound
  BY EndpointsTell DEF TamperedBlockIsFound
<1>2. QED
  BY <1>1, SealedAlways, PagesExplore, PTL

Listed == transactions \in Seq(Transactions)

LEMMA ListsOfTransactions == PagesSpec => []Listed
<1>1. PagesInit => Listed
  BY DEF PagesInit, Listed
<1>2. Listed /\ [PagesNext]_pagesVars => Listed'
  <2>1. [PagesNext]_pagesVars => transactions' = transactions \/ AddTransaction
    BY DEF PagesNext, pagesVars, merkleVars
  <2>2. ASSUME Listed, AddTransaction PROVE Listed'
    <3>1. PICK tx \in Transactions : transactions' = Append(transactions, tx)
      BY <2>2 DEF AddTransaction
    <3>2. QED
      BY <2>2, <3>1 DEF Listed
  <2>3. ASSUME Listed, transactions' = transactions PROVE Listed'
    BY <2>3 DEF Listed
  <2>4. QED
    BY <2>1, <2>2, <2>3
<1>3. QED
  BY <1>1, <1>2, PTL DEF PagesSpec

\* getMerkleProof and verifyMerkleProof: for every list of transactions the
\* proof of a place verifies for the transaction in that place and no other.
THEOREM ProofsConvince == PagesSpec => []ProofsVerify
<1>1. Listed => ProofsVerify
  BY ProofOfPlace DEF Listed, ProofsVerify, ProofsVerifyFor
<1>2. QED
  BY <1>1, ListsOfTransactions, PTL

\* buildMerkleTree gives two lists of transactions one root only if they fill up
\* to one complete tree, whatever their lengths.
THEOREM RootsDetermineLists == PagesSpec => []RootsBind
<1>1. ASSUME Listed, NEW n \in 0..MaxTransactions,
             NEW other \in [1..n -> Transactions]
      PROVE  RootsBindFor(transactions, other)
  <2>1. MaxTransactions \in Nat
    BY AdminPagesAssumption, Zenon
  <2>2. other \in Seq(Transactions)
    BY <2>1
  <2>3. QED
    BY <1>1, <2>2, RootsAreOfTrees DEF Listed
<1>2. Listed => RootsBind
  BY <1>1 DEF RootsBind
<1>3. QED
  BY <1>2, ListsOfTransactions, PTL

(***************************************************************************)
(* The election page and the schedule.                                     *)
(***************************************************************************)
\* What somebody was told of the status is right, or known to be outdated; who
\* was told nothing takes the election for closed.
Known(told) ==
    IF told.seen = Unset THEN told.is_open = FALSE
    ELSE /\ told.seen \in Nat /\ told.seen <= toggles
         /\ told.seen = toggles => told.is_open = election.is_open

\* What the handler of a click read is no older than what the page knew.
ReadAfter(read, told) ==
    told.seen # Unset => told.seen < read.seen \/ told.is_open = read.is_open

\* An hour that goes back to one typed.
Shifted(hour, from) ==
    /\ from.hour \in Int /\ from.shifts \in Nat
    /\ hour = from.hour - zone * from.shifts

ToggleOK(post) ==
    /\ post.read # Unset => post.read.is_open \in BOOLEAN
    /\ post.kind = "toggle" /\ post.badge # Unset =>
          Known(post.badge) /\ (post.read # Unset => ReadAfter(post.read, post.badge))

FormOK(fields) ==
    /\ DOMAIN fields = Fields
    /\ \A f \in Fields : fields[f].text # Unset => Shifted(fields[f].text, fields[f])

ScheduleOK(post) == FormOK(post.form) /\ \A f \in Fields : post.form[f].text \in SavedHours

TimesOK(answer) ==
    \A f \in Fields : f \in DOMAIN answer /\ answer[f] # Unset
                          => Shifted(answer[f], answer.origin[f])

AnswerOK(post) ==
    post.answer # Unset =>
        Known(ToldStatus(post.answer)) /\ (post.kind = "load" => TimesOK(post.answer))

PostOK(post) ==
    /\ Toggles(post) => ToggleOK(post)
    /\ post.kind = "schedule" => ScheduleOK(post)
    /\ AnswerOK(post)

RowOK ==
    election \in [is_open : BOOLEAN, start_time : SavedHours \cup {Unset},
                  end_time : SavedHours \cup {Unset}]

\* Why the lock holds after the election was closed: a vote was accepted, so a
\* start there is has passed.
Begun ==
    voting => IF election.start_time = Unset THEN election.is_open ELSE ~NotYetStarted

OriginOK == \A f \in Fields : election[f] # Unset => Shifted(election[f], origin[f])

WindowInv ==
    /\ RowOK /\ OriginOK /\ FormOK(form)
    /\ clock \in Int /\ zone \in Int /\ toggles \in Nat
    /\ Begun
    /\ badge # Unset => Known(badge)
    /\ \A post \in DOMAIN posts : PostOK(post)

\* Nothing of what the invariant says of the row and the form changes with them.
LEMMA RowStays ==
    ASSUME WindowInv, UNCHANGED <<election, clock, zone, toggles, origin, voting>>
    PROVE  /\ RowOK' /\ OriginOK' /\ Begun'
           /\ clock' \in Int /\ zone' \in Int /\ toggles' \in Nat
           /\ \A told : Known(told) => Known(told)'
           /\ \A hour, from : Shifted(hour, from) => Shifted(hour, from)'
<1>1. RowOK' /\ Begun' /\ clock' \in Int /\ zone' \in Int /\ toggles' \in Nat
    BY DEF WindowInv, RowOK, Begun, NotYetStarted, Instant
<1>2. \A hour, from : Shifted(hour, from) => Shifted(hour, from)'
    BY DEF Shifted
<1>3. OriginOK'
    BY <1>2 DEF WindowInv, OriginOK
<1>4. \A told : Known(told) => Known(told)'
    BY DEF Known
<1> QED
    BY <1>1, <1>2, <1>3, <1>4

\* What was told of the status stays so, also when the status is written.
LEMMA KnownKept ==
    ASSUME WindowInv, toggles' \in Nat,
           \/ UNCHANGED <<election, toggles>>
           \/ toggles' = toggles + 1
           \/ toggles' = toggles /\ election'.is_open = election.is_open,
           NEW told, Known(told)
    PROVE  Known(told)'
BY DEF Known, WindowInv

LEMMA PostKept ==
    ASSUME WindowInv, toggles' \in Nat, zone' = zone,
           \/ UNCHANGED <<election, toggles>>
           \/ toggles' = toggles + 1
           \/ toggles' = toggles /\ election'.is_open = election.is_open,
           NEW post, PostOK(post)
    PROVE  PostOK(post)'
<1>1. Toggles(post) => ToggleOK(post)'
    BY KnownKept DEF PostOK, ToggleOK, ReadAfter
<1>2. post.kind = "schedule" => ScheduleOK(post)'
    BY DEF PostOK, ScheduleOK, FormOK, Shifted
<1>3. TimesOK(post.answer) => TimesOK(post.answer)'
    BY DEF TimesOK, Shifted
<1>4. AnswerOK(post)'
    BY <1>3, KnownKept DEF PostOK, AnswerOK
<1> QED
    BY <1>1, <1>2, <1>4 DEF PostOK, Toggles

\* A field filled in by a load is one shift further from what was typed.
LEMMA OneShiftMore ==
    ASSUME NEW hour, NEW from, Shifted(hour, from), zone \in Int
    PROVE  Shifted(ShownText(hour), [text |-> ShownText(hour), hour |-> from.hour,
                                     shifts |-> from.shifts + 1])
<1>1. from.hour \in Int /\ from.shifts \in Nat /\ from.shifts + 1 \in Nat
    BY DEF Shifted
<1>2. PICK n \in Int : n = from.shifts
    BY <1>1
<1>3. zone * (n + 1) = zone * n + zone /\ zone * n \in Int
    OBVIOUS
<1>4. hour - zone = from.hour - zone * (from.shifts + 1)
    BY <1>1, <1>2, <1>3 DEF Shifted
<1> QED
    BY <1>1, <1>4 DEF Shifted, ShownText, Instant

LEMMA InitInv ==
    ASSUME WindowInit
    PROVE  WindowInv
<1>1. clock \in Int /\ zone \in Int /\ toggles \in Nat
    BY WindowAssumption DEF WindowInit
<1>2. \A post \in DOMAIN posts : PostOK(post)
    BY EmptyBagDomain DEF WindowInit
<1>3. RowOK /\ Begun /\ badge = Unset
    BY DEF WindowInit, RowOK, Begun
<1>4. OriginOK /\ FormOK(form)
    BY DEF WindowInit, OriginOK, FormOK, Fields, Blank
<1> QED
    BY <1>1, <1>2, <1>3, <1>4 DEF WindowInv

LEMMA VoteInv ==
    ASSUME WindowInv, VoteAccepted
    PROVE  WindowInv'
<1>1. UNCHANGED <<election, clock, zone, form, badge, posts, toggles, origin>>
    BY DEF VoteAccepted, onPage
<1>2. toggles' \in Nat
    BY <1>1 DEF WindowInv
<1>3. \A post \in DOMAIN posts' : PostOK(post)'
    BY <1>1, <1>2, PostKept DEF WindowInv
<1>4. Begun'
    BY <1>1 DEF VoteAccepted, VotingAccepted, Begun, NotYetStarted, Instant
<1>5. OriginOK' /\ FormOK(form)'
    BY <1>1 DEF WindowInv, OriginOK, FormOK, Shifted
<1>6. RowOK' /\ (badge # Unset => Known(badge))'
    BY <1>1 DEF WindowInv, RowOK, Known
<1> QED
    BY <1>1, <1>3, <1>4, <1>5, <1>6 DEF WindowInv

LEMMA ClockInv ==
    ASSUME WindowInv, ClockTicks
    PROVE  WindowInv'
<1>1. UNCHANGED <<election, zone, form, badge, posts, toggles, origin, voting>>
      /\ clock' = clock + 1
    BY DEF ClockTicks, onPage
<1>2. toggles' \in Nat
    BY <1>1 DEF WindowInv
<1>3. \A post \in DOMAIN posts' : PostOK(post)'
    BY <1>1, <1>2, PostKept DEF WindowInv
<1>4. election.start_time # Unset => election.start_time \in Int
    BY WindowAssumption DEF WindowInv, RowOK
<1>5. Begun'
    BY <1>1, <1>4 DEF WindowInv, Begun, NotYetStarted, Instant
<1>6. OriginOK' /\ FormOK(form)'
    BY <1>1 DEF WindowInv, OriginOK, FormOK, Shifted
<1>7. RowOK' /\ (badge # Unset => Known(badge))'
    BY <1>1 DEF WindowInv, RowOK, Known
<1> QED
    BY <1>1, <1>3, <1>5, <1>6, <1>7 DEF WindowInv

\* A request is sent.
LEMMA PostSent ==
    ASSUME WindowInv, NEW post, PostOK(post), Posts(post)
    PROVE  WindowInv'
<1>1. UNCHANGED <<election, clock, zone, form, badge, toggles, origin, voting>>
      /\ posts' = BagAdd(posts, post)
    BY DEF Posts
<1>2. DOMAIN posts' = DOMAIN posts \cup {post}
    BY <1>1, BagAddDomain
<1>3. toggles' \in Nat
    BY <1>1 DEF WindowInv
<1>4. \A p \in DOMAIN posts' : PostOK(p)'
    BY <1>1, <1>2, <1>3, PostKept DEF WindowInv
<1>5. FormOK(form)'
    BY <1>1 DEF WindowInv, FormOK, Shifted
<1>6. (badge # Unset => Known(badge))'
    BY <1>1, RowStays DEF WindowInv
<1> QED
    BY <1>1, <1>4, <1>5, <1>6, RowStays DEF WindowInv

\* The page or another one sends a request, or somebody types.
LEMMA PageInv ==
    ASSUME WindowInv,
           \/ LoadSettings \/ ToggleVoting \/ ToggledElsewhere \/ SaveSchedule
           \/ \E f \in Fields, text \in Hours : TypeTime(f, text)
    PROVE  WindowInv'
<1>1. CASE LoadSettings
    <2>1. PostOK([kind |-> "load", answer |-> Unset])
        BY DEF PostOK, Toggles, AnswerOK
    <2> QED
        BY <1>1, <2>1, PostSent DEF LoadSettings
<1>2. CASE ToggleVoting
    <2>1. badge # Unset => Known(badge)
        BY DEF WindowInv
    <2>2. PostOK([kind |-> "toggle", answer |-> Unset, read |-> Unset, badge |-> badge])
        BY <2>1 DEF PostOK, Toggles, ToggleOK, AnswerOK
    <2> QED
        BY <1>2, <2>2, PostSent DEF ToggleVoting
<1>3. CASE ToggledElsewhere
    <2>1. PostOK([kind |-> "elsewhere", answer |-> Unset, read |-> Unset])
        BY DEF PostOK, Toggles, ToggleOK, AnswerOK
    <2> QED
        BY <1>3, <2>1, PostSent DEF ToggledElsewhere
<1>4. CASE SaveSchedule
    <2>1. PostOK([kind |-> "schedule", answer |-> Unset, form |-> form])
        BY <1>4 DEF SaveSchedule, WindowInv, PostOK, Toggles, ScheduleOK, AnswerOK
    <2> QED
        BY <1>4, <2>1, PostSent DEF SaveSchedule
<1>5. ASSUME NEW f \in Fields, NEW text \in Hours, TypeTime(f, text)
      PROVE  WindowInv'
    <2>1. UNCHANGED <<election, clock, zone, badge, posts, toggles, origin, voting>>
        BY <1>5 DEF TypeTime
    <2>2. toggles' \in Nat
        BY <2>1 DEF WindowInv
    <2>3. \A post \in DOMAIN posts' : PostOK(post)'
        BY <2>1, <2>2, PostKept DEF WindowInv
    <2>4. text \in Int /\ zone \in Int
        BY WindowAssumption DEF WindowInv
    <2>5. Shifted(text, [text |-> text, hour |-> text, shifts |-> 0])
        BY <2>4 DEF Shifted
    <2>6. ASSUME NEW g \in Fields, form'[g].text # Unset
          PROVE  Shifted(form'[g].text, form'[g])
        <3>1. DOMAIN form = Fields
            BY DEF WindowInv, FormOK
        <3>2. CASE g = f
            <4>1. form'[g] = [text |-> text, hour |-> text, shifts |-> 0]
                BY <1>5, <3>1, <3>2 DEF TypeTime
            <4> QED
                BY <4>1, <2>5
        <3>3. CASE g # f
            <4>1. form'[g] = form[g]
                BY <1>5, <3>1, <3>3 DEF TypeTime
            <4> QED
                BY <4>1, <2>6 DEF WindowInv, FormOK
        <3> QED
            BY <3>2, <3>3
    <2>7. FormOK(form)'
        BY <1>5, <2>1, <2>6 DEF FormOK, Shifted, WindowInv, TypeTime
    <2>8. (badge # Unset => Known(badge))'
        BY <2>1, RowStays DEF WindowInv
    <2> QED
        BY <2>1, <2>3, <2>7, <2>8, RowStays DEF WindowInv
<1> QED
    BY <1>1, <1>2, <1>3, <1>4, <1>5

\* The page is done with a request: its answer has come or it is lost.
LEMMA PostDoneInv ==
    ASSUME WindowInv, NEW post \in DOMAIN posts, PostAnswered(post) \/ PostLost(post)
    PROVE  WindowInv'
<1>1. posts' = BagRemove(posts, post)
      /\ UNCHANGED <<election, clock, zone, toggles, origin, voting>>
    BY DEF PostAnswered, PostLost
<1>2. toggles' \in Nat
    BY <1>1 DEF WindowInv
<1>3. \A p \in DOMAIN posts' : PostOK(p)'
    BY <1>1, <1>2, BagRemoveDomain, PostKept DEF WindowInv
<1>4. badge' # Unset => Known(badge')
    BY DEF PostAnswered, PostLost, WindowInv, PostOK, AnswerOK
<1>5. (badge # Unset => Known(badge))'
    BY <1>1, <1>4 DEF Known
<1>6. FormOK(form')
    <2>1. CASE UNCHANGED form
        BY <2>1 DEF WindowInv
    <2>2. CASE post.kind = "load" /\ PostAnswered(post)
        <3>1. TimesOK(post.answer)
            BY <2>2 DEF PostAnswered, WindowInv, PostOK, AnswerOK
        <3>2. form' = [f \in Fields |-> ToldField(post.answer, f)]
            BY <2>2 DEF PostAnswered
        <3>3. ASSUME NEW f \in Fields, ToldField(post.answer, f).text # Unset
              PROVE  Shifted(ToldField(post.answer, f).text, ToldField(post.answer, f))
            <4> DEFINE from == post.answer.origin[f]
                       hour == post.answer[f]
            <4>1. f \in DOMAIN post.answer /\ hour # Unset
                BY <3>3 DEF ToldField, Blank
            <4>2. Shifted(hour, from)
                BY <3>1, <4>1 DEF TimesOK
            <4>3. ToldField(post.answer, f) = [text |-> ShownText(hour), hour |-> from.hour,
                                               shifts |-> from.shifts + 1]
                BY <4>1 DEF ToldField
            <4>4. zone \in Int
                BY DEF WindowInv
            <4> HIDE DEF from, hour
            <4>5. Shifted(ShownText(hour), [text |-> ShownText(hour), hour |-> from.hour,
                                            shifts |-> from.shifts + 1])
                BY <4>2, <4>4, OneShiftMore
            <4> QED
                BY <4>3, <4>5
        <3> QED
            BY <3>2, <3>3 DEF FormOK
    <2> QED
        BY <2>1, <2>2 DEF PostAnswered, PostLost
<1>7. FormOK(form)'
    BY <1>1, <1>6 DEF FormOK, Shifted
<1> QED
    BY <1>1, <1>3, <1>5, <1>7, RowStays DEF WindowInv

\* A handler is done with a request, with or without an answer the page heeds.
LEMMA AnswerInv ==
    ASSUME NEW post \in DOMAIN posts, NEW answered,
           \A p \in DOMAIN posts : PostOK(p)', PostOK(answered)',
           \/ posts' = BagAdd(BagRemove(posts, post), answered)
           \/ AnswersNothing(post)
    PROVE  \A p \in DOMAIN posts' : PostOK(p)'
<1>1. DOMAIN BagRemove(posts, post) \subseteq DOMAIN posts
    BY BagRemoveDomain
<1>2. CASE posts' = BagAdd(BagRemove(posts, post), answered)
    <2>1. DOMAIN posts' = DOMAIN BagRemove(posts, post) \cup {answered}
        BY <1>2, BagAddDomain
    <2> QED
        BY <1>1, <2>1
<1>3. CASE AnswersNothing(post)
    BY <1>1, <1>3 DEF AnswersNothing
<1> QED
    BY <1>2, <1>3

LEMMA GetSettingsInv ==
    ASSUME WindowInv, NEW post \in DOMAIN posts, GetSettings(post),
           UNCHANGED <<clock, zone, form, badge>>
    PROVE  WindowInv'
<1>1. UNCHANGED <<election, clock, zone, form, badge, toggles, origin, voting>>
      /\ toggles' \in Nat /\ post.kind = "load"
    BY DEF GetSettings, WindowInv
<1>2. \A p \in DOMAIN posts : PostOK(p)'
    BY <1>1, PostKept DEF WindowInv
<1>3. PICK answer \in {Row, Refusal} :
          posts' = BagAdd(BagRemove(posts, post), [post EXCEPT !.answer = answer])
    BY DEF GetSettings, Answers
<1>4. Known(ToldStatus(answer))
    <2>1. CASE answer = Refusal
        <3>1. ToldStatus(answer) = [is_open |-> FALSE, seen |-> Unset]
            BY <2>1 DEF Refusal, ToldStatus
        <3> QED
            BY <3>1 DEF Known
    <2>2. CASE answer = Row
        <3>1. ToldStatus(answer) = [is_open |-> election.is_open, seen |-> toggles]
            BY <2>2 DEF Row, ToldStatus
        <3> QED
            BY <3>1, WindowAssumption DEF Known, WindowInv
    <2> QED
        BY <2>1, <2>2
<1>5. TimesOK(answer)
    <2>1. CASE answer = Refusal
        BY <2>1 DEF Refusal, TimesOK, Fields
    <2>2. CASE answer = Row
        <3>1. ASSUME NEW f \in Fields
              PROVE  Row[f] = election[f] /\ Row.origin = origin
            BY <3>1 DEF Row, Fields
        <3> QED
            BY <2>2, <3>1 DEF TimesOK, WindowInv, OriginOK
    <2> QED
        BY <2>1, <2>2
<1> DEFINE answered == [post EXCEPT !.answer = answer]
<1>6. answered.kind = "load" /\ (answered.answer = answer \/ "answer" \notin DOMAIN post)
    BY <1>1
<1>7. PostOK(answered)
    BY <1>4, <1>5, <1>6 DEF PostOK, Toggles, AnswerOK
<1> HIDE DEF answered
<1>8. PostOK(answered)'
    BY <1>1, <1>7, PostKept
<1>9. \A p \in DOMAIN posts' : PostOK(p)'
    BY <1>2, <1>3, <1>8, AnswerInv DEF answered
<1>10. (badge # Unset => Known(badge))' /\ FormOK(form)'
    BY <1>1, RowStays DEF WindowInv, FormOK
<1> QED
    BY <1>1, <1>9, <1>10, RowStays DEF WindowInv

LEMMA SelectStatusInv ==
    ASSUME WindowInv, NEW post \in DOMAIN posts, SelectStatus(post),
           UNCHANGED <<clock, zone, form, badge>>
    PROVE  WindowInv'
<1>1. UNCHANGED <<election, clock, zone, form, badge, toggles, origin, voting>>
      /\ toggles' \in Nat
    BY DEF SelectStatus, WindowInv
<1>2. \A p \in DOMAIN posts : PostOK(p)'
    BY <1>1, PostKept DEF WindowInv
<1>3. PICK news : news = [is_open |-> election.is_open, seen |-> toggles]
    OBVIOUS
<1>4. news.is_open \in BOOLEAN /\ news.seen = toggles /\ news.is_open = election.is_open
    BY <1>3 DEF WindowInv, RowOK
<1> DEFINE serving == [post EXCEPT !.read = news]
<1>5. /\ serving.kind = post.kind /\ serving.answer = post.answer
      /\ serving.badge = post.badge /\ (serving.read = news \/ serving.read = post.read)
    OBVIOUS
<1>6. posts' = BagAdd(BagRemove(posts, post), serving)
    BY <1>3 DEF SelectStatus
<1> HIDE DEF serving
<1>7. PostOK(post) /\ Toggles(post) /\ post.read = Unset
    BY DEF WindowInv, SelectStatus
<1>8. ASSUME NEW told, Known(told)
      PROVE  ReadAfter(news, told)
    BY <1>4, <1>8 DEF ReadAfter, Known, WindowInv
<1>9. ToggleOK(serving)
    BY <1>4, <1>5, <1>7, <1>8 DEF PostOK, ToggleOK
<1>10. PostOK(serving)
    BY <1>5, <1>7, <1>9 DEF PostOK, Toggles, AnswerOK
<1>11. PostOK(serving)'
    BY <1>1, <1>10, PostKept
<1>12. \A p \in DOMAIN posts' : PostOK(p)'
    BY <1>2, <1>6, <1>11, AnswerInv
<1>13. (badge # Unset => Known(badge))' /\ FormOK(form)'
    BY <1>1, RowStays DEF WindowInv, FormOK
<1> QED
    BY <1>1, <1>12, <1>13, RowStays DEF WindowInv

LEMMA UpdateStatusInv ==
    ASSUME WindowInv, NEW post \in DOMAIN posts, UpdateStatus(post),
           UNCHANGED <<clock, zone, form, badge>>
    PROVE  WindowInv'
<1>1. /\ toggles' \in Nat /\ toggles' = toggles + 1
      /\ UNCHANGED <<clock, zone, form, badge, origin>>
      /\ election' = [election EXCEPT !.is_open = ~post.read.is_open]
    BY DEF UpdateStatus, WindowInv
<1>2. PostOK(post) /\ ToggleOK(post) /\ post.read.is_open \in BOOLEAN
    BY DEF UpdateStatus, WindowInv, PostOK, ToggleOK
<1>3. RowOK'
    BY <1>1 DEF WindowInv, RowOK
<1>4. /\ election'.start_time = election.start_time /\ election'.end_time = election.end_time
      /\ election'.is_open = ~post.read.is_open
    BY <1>1 DEF WindowInv, RowOK
<1>5. Begun'
    BY <1>1, <1>4 DEF UpdateStatus, WindowInv, Begun, NotYetStarted, Instant
<1>6. OriginOK'
    BY <1>1, <1>4 DEF WindowInv, OriginOK, Shifted, Fields
<1>7. FormOK(form)'
    BY <1>1 DEF WindowInv, FormOK, Shifted
<1>8. \A p \in DOMAIN posts : PostOK(p)'
    BY <1>1, PostKept DEF WindowInv
<1>9. (badge # Unset => Known(badge))'
    BY <1>1, KnownKept DEF WindowInv
<1>10. PICK n : n = toggles'
    OBVIOUS
<1> DEFINE answer   == ToggleAnswer(post.read.is_open, n)
           answered == [post EXCEPT !.answer = answer]
<1>11. post.kind # "load" /\ Toggles(post)
    BY DEF UpdateStatus, Toggles
<1>12. Known(ToldStatus(answer))'
    BY <1>1, <1>4, <1>10, WindowAssumption DEF ToggleAnswer, ToldStatus, Known
<1>13. /\ answered.kind = post.kind /\ answered.read = post.read
       /\ answered.badge = post.badge
       /\ answered.answer = answer \/ answered.answer = post.answer
    OBVIOUS
<1> HIDE DEF answer, answered
<1>14. PostOK(post)'
    BY <1>8
<1>15. PostOK(answered)'
    BY <1>11, <1>12, <1>13, <1>14 DEF PostOK, Toggles, ToggleOK, AnswerOK
<1>16. \/ posts' = BagAdd(BagRemove(posts, post), answered)
       \/ AnswersNothing(post)
    BY <1>10 DEF UpdateStatus, Answers, answer, answered
<1>17. \A p \in DOMAIN posts' : PostOK(p)'
    BY <1>8, <1>15, <1>16, AnswerInv
<1> QED
    BY <1>1, <1>3, <1>5, <1>6, <1>7, <1>9, <1>17 DEF WindowInv

LEMMA UpdateScheduleInv ==
    ASSUME WindowInv, NEW post \in DOMAIN posts, UpdateSchedule(post),
           UNCHANGED <<clock, zone, form, badge>>
    PROVE  WindowInv'
<1>1. /\ UNCHANGED <<toggles, clock, zone, form, badge>> /\ toggles' \in Nat
      /\ AnswersNothing(post) /\ post.kind = "schedule"
    BY DEF UpdateSchedule, WindowInv
<1>2. ScheduleOK(post)
    BY <1>1 DEF WindowInv, PostOK
<1>3. RowOK' /\ election'.is_open = election.is_open
    BY <1>2 DEF UpdateSchedule, ScheduleOK, Fields, StoredHour, WindowInv, RowOK
<1>4. Begun'
    BY DEF UpdateSchedule, WindowInv, Begun, NotYetStarted, Instant
<1>5. OriginOK'
    <2>1. CASE UNCHANGED <<election, origin>>
        BY <1>1, <2>1 DEF WindowInv, OriginOK, Shifted
    <2>2. CASE /\ election' = [election EXCEPT
                                  !.start_time = StoredHour(post.form["start_time"].text),
                                  !.end_time   = StoredHour(post.form["end_time"].text)]
               /\ origin' = [f \in Fields |-> [hour |-> post.form[f].hour,
                                               shifts |-> post.form[f].shifts]]
        <3>1. ASSUME NEW f \in Fields
              PROVE  election'[f] = post.form[f].text
            BY <2>2, <3>1 DEF StoredHour, Fields, WindowInv, RowOK
        <3>2. ASSUME NEW f \in Fields, election'[f] # Unset
              PROVE  Shifted(election'[f], origin'[f])
            <4>1. Shifted(post.form[f].text, post.form[f])
                BY <1>2, <3>1, <3>2 DEF ScheduleOK, FormOK
            <4> QED
                BY <2>2, <3>1, <4>1 DEF Shifted
        <3> QED
            BY <1>1, <3>2 DEF OriginOK, Shifted
    <2> QED
        BY <2>1, <2>2 DEF UpdateSchedule
<1>6. FormOK(form)'
    BY <1>1 DEF WindowInv, FormOK, Shifted
<1>7. \A p \in DOMAIN posts : PostOK(p)'
    BY <1>1, <1>3, PostKept DEF WindowInv
<1>8. \A p \in DOMAIN posts' : PostOK(p)'
    BY <1>1, <1>7, BagRemoveDomain DEF AnswersNothing
<1>9. (badge # Unset => Known(badge))'
    BY <1>1, <1>3, KnownKept DEF WindowInv
<1> QED
    BY <1>1, <1>3, <1>4, <1>5, <1>6, <1>8, <1>9 DEF WindowInv

LEMMA NextInv ==
    ASSUME WindowInv, [WindowNext]_windowVars
    PROVE  WindowInv'
<1>1. CASE UNCHANGED windowVars
    <2>1. UNCHANGED <<election, clock, zone, form, badge, posts, toggles, origin, voting>>
          /\ toggles' \in Nat
        BY <1>1 DEF windowVars, onPage, WindowInv
    <2>2. \A post \in DOMAIN posts' : PostOK(post)'
        BY <2>1, PostKept DEF WindowInv
    <2>3. (badge # Unset => Known(badge))' /\ FormOK(form)'
        BY <2>1, RowStays DEF WindowInv, FormOK
    <2> QED
        BY <2>1, <2>2, <2>3, RowStays DEF WindowInv
<1>2. CASE WindowNext
    <2>1. CASE \E post \in DOMAIN posts : PostServed(post)
        BY <2>1, GetSettingsInv, SelectStatusInv, UpdateStatusInv, UpdateScheduleInv
           DEF PostServed
    <2>2. CASE \E post \in DOMAIN posts : PostAnswered(post) \/ PostLost(post)
        BY <2>2, PostDoneInv
    <2> QED
        BY <1>2, <2>1, <2>2, VoteInv, ClockInv, PageInv DEF WindowNext
<1> QED
    BY <1>1, <1>2

LEMMA InvAlways == WindowSpec => []WindowInv
BY InitInv, NextInv, PTL DEF WindowSpec

\* Whatever the schedule, the zone and the toggles: once a vote was accepted,
\* isLedgerLocked refuses the candidate ledger until another schedule is saved,
\* although its criterion is not that of castVote.
THEOREM FrozenWhileVoting == WindowSpec => []CandidatesFrozen
<1>1. WindowInv => CandidatesFrozen
    BY DEF WindowInv, Begun, CandidatesFrozen, IsLedgerLocked
<1> QED
    BY <1>1, InvAlways, PTL

\* Whatever is clicked, here and elsewhere, answered late, refused or lost, by any
\* number of requests that overlap between their two statements: a click that
\* does the opposite of what the button read comes of a status written since, or
\* of a refused load taken for a closed election.
THEOREM ButtonMisleadsTheUninformed == WindowSpec => WrongClicksAreUninformed
<1> DEFINE Right(post) ==
        \/ election'.is_open # post.badge.is_open
        \/ post.badge.seen # Unset /\ post.badge.seen < post.read.seen
        \/ post.badge.seen = Unset /\ ~election'.is_open
<1>1. ASSUME WindowInv, NEW post \in DOMAIN posts, post.kind = "toggle", post.badge # Unset,
             UpdateStatus(post)
      PROVE  Right(post)
    <2>1. ToggleOK(post) /\ post.read # Unset
        BY <1>1 DEF UpdateStatus, WindowInv, PostOK
    <2>2. post.read.is_open \in BOOLEAN /\ ReadAfter(post.read, post.badge) /\ Known(post.badge)
        BY <1>1, <2>1 DEF ToggleOK
    <2>3. election'.is_open = ~post.read.is_open
        BY <1>1 DEF UpdateStatus, WindowInv, RowOK
    <2>4. CASE post.badge.seen = Unset
        BY <2>2, <2>3, <2>4 DEF Known
    <2>5. CASE post.badge.seen # Unset
        BY <2>2, <2>3, <2>5 DEF ReadAfter
    <2> QED
        BY <2>4, <2>5
<1> HIDE DEF Right
<1>2. WindowInv => [ \A post \in DOMAIN posts :
            post.kind = "toggle" /\ post.badge # Unset /\ UpdateStatus(post) => Right(post)
                ]_windowVars
    BY <1>1
<1> USE DEF Right
<1> QED
    BY <1>2, InvAlways, PTL DEF WrongClicksAreUninformed

\* For any zone, any hours and any number of loads, saves and refusals, answered
\* in any order: the schedule in force is off what was typed by the zone's hours
\* times the saves of a form as it had been loaded, and by nothing else.
THEOREM SchedulesShift == WindowSpec => []ScheduleShiftsByTheZone
<1>1. ASSUME WindowInv, NEW f \in Fields, election[f] # Unset
      PROVE  Instant(election[f]) = Instant(origin[f].hour) - zone * origin[f].shifts
    <2>1. Shifted(election[f], origin[f]) /\ zone \in Int
        BY <1>1 DEF WindowInv, OriginOK
    <2>2. zone * origin[f].shifts \in Int
        BY <2>1 DEF Shifted
    <2> QED
        BY <2>1, <2>2 DEF Shifted, Instant
<1>2. WindowInv => ScheduleShiftsByTheZone
    BY <1>1 DEF ScheduleShiftsByTheZone
<1> QED
    BY <1>2, InvAlways, PTL
================================================================================
