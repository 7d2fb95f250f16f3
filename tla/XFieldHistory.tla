--------------------------- MODULE XFieldHistory ---------------------------
(***************************************************************************)
(* The history of the aggregate public keys of the federation             *)
(* (src/xfieldhistory.cpp) and everything that reads or extends it: the    *)
(* proof checks of headers and blocks, ConnectTip and DisconnectTip, the   *)
(* copy of it in the block tree database, and the start of the node.       *)
(*                                                                         *)
(* The keys stand for XFieldAggPubKey values.  XField[b] is the key that   *)
(* block b announces, in force from the block after it on, or NoChange.    *)
(* All blocks are honest: signed with the key in force on their own chain. *)
(***************************************************************************)
EXTENDS Integers, Sequences, SequencesExt, BlockTree

CONSTANTS
    Keys,        \* aggregate public keys
    XField,      \* the key a block announces
    NoChange,    \* XFieldEmpty
    MaxHeaders,  \* bound: headers in a message
    MaxCrashes   \* bound: crashes of the node

ASSUME KeyAssumption ==
    /\ NoChange \notin Keys /\ XField \in [Blocks -> Keys \cup {NoChange}]
    /\ XField[Genesis] \in Keys
ASSUME BoundAssumption == MaxHeaders \in Nat /\ MaxCrashes \in Nat

VARIABLES
    index,          \* mapBlockIndex
    data,           \* blocks with BLOCK_HAVE_DATA
    tip,            \* chainActive.Tip()
    pblock,         \* the block ProcessNewBlock holds, checked; or the genesis block
    xfieldHistory,  \* CXFieldHistory
    xfieldDB,       \* what WriteXField wrote
    disk,           \* the flushed part of index, data and tip
    aborted,        \* AbortNode was called
    crashes

vars == <<index, data, tip, pblock, xfieldHistory, xfieldDB, disk, aborted, crashes>>

\* The key in force after a block, and the key its proof is made with.
KeyAfter[b \in Blocks] == IF XField[b] # NoChange THEN XField[b] ELSE KeyAfter[Parent[b]]
Signer(b) == KeyAfter[Parent[b]]

-----------------------------------------------------------------------------
(* CXFieldHistoryMap                                                       *)

XFieldChange(b) ==
    [value |-> XField[b], height |-> nHeight[b] + 1, block |-> b]

GenesisChange == [value |-> XField[Genesis], height |-> 0, block |-> Genesis]

\* Variant: a change applies to the block that announces it.
GetEarly(list, height) ==
    LET at == {i \in 1..Len(list) : list[i].height <= height + 1}
    IN  list[CHOOSE i \in at : \A j \in at : j <= i]

\* Variant: the key of the tip is used for every height.
GetLast(list, height) == Last(list)

\* Get(type, height)
Get(list, height) ==
    LET found == {i \in 1..Len(list) :
                    \/ height = list[i].height
                    \/ /\ list[i].height < height
                       /\ i < Len(list) /\ height < list[i + 1].height}
    IN  IF height = 0 \/ Len(list) = 1 THEN list[1]
        ELSE IF height > Last(list).height \/ found = {} THEN Last(list)
        ELSE list[CHOOSE i \in found : \A j \in found : i <= j]

\* GetLatest, and Get with the height -1 turned into the largest uint32_t
GetLatest(list) == Last(list)

\* Variant: every announcement is added.
AddAlways(list, change) == Append(list, change)

\* Add, after IsNew
Add(list, change) ==
    IF \E i \in 1..Len(list) : list[i] = change THEN list ELSE Append(list, change)

\* Variant: a key that was used before is not new.
IsXFieldUnknown(list, b) ==
    XField[b] # NoChange /\ \A i \in 1..Len(list) : list[i].value # XField[b]

\* IsXFieldNew
IsXFieldNew(list, b) == XField[b] # NoChange /\ XField[b] # Last(list).value

\* What ConnectTip and AcceptBlockHeader do with a block of the history.
Recorded(list, b) == IF IsXFieldNew(list, b) THEN Add(list, XFieldChange(b)) ELSE list

-----------------------------------------------------------------------------
Init ==
    /\ index = {Genesis} /\ data = {Genesis} /\ tip = Genesis /\ pblock = Genesis
    /\ xfieldHistory = <<GenesisChange>> /\ xfieldDB = <<>>
    /\ disk = [index |-> {Genesis}, data |-> {Genesis}, tip |-> Genesis]
    /\ aborted = FALSE /\ crashes = 0

\* The proof check by the height of the block.
ProofOk(b) == Get(xfieldHistory, nHeight[b]).value = Signer(b)

\* Headers that a peer may send in one message: consecutive blocks.
HeaderMessages ==
    {msg \in UNION {[1..n -> Blocks \ {Genesis}] : n \in 1..MaxHeaders} :
        \A i \in 2..Len(msg) : Parent[msg[i]] = msg[i - 1]}

\* AcceptBlockHeader, with the temporary history of the message.  A header that
\* is known is not checked and its change is not recorded.
AcceptHeader(st, b) ==
    IF ~st.ok \/ b \in st.index THEN st
    ELSE IF Parent[b] \in st.index /\ GetLatest(st.temp).value = Signer(b)
         THEN [st EXCEPT !.index = @ \cup {b}, !.temp = Recorded(@, b)]
         ELSE [st EXCEPT !.ok = FALSE]

\* The headers of a message, up to the first that is refused.
AcceptHeaders(st, msg) == FoldLeft(AcceptHeader, st, msg)

ProcessNewBlockHeaders(msg) ==
    /\ ~aborted
    /\ index' = AcceptHeaders([index |-> index, temp |-> xfieldHistory, ok |-> TRUE], msg).index
    /\ UNCHANGED <<data, tip, pblock, xfieldHistory, xfieldDB, disk, aborted, crashes>>

\* ProcessNewBlock up to ActivateBestChain: CheckBlock and AcceptBlock.  The
\* header of an unknown block is checked without a height.
ProcessNewBlock(b) ==
    /\ ~aborted /\ b \notin data
    /\ ProofOk(b)
    /\ b \in index \/ (Parent[b] \in index /\ GetLatest(xfieldHistory).value = Signer(b))
    /\ index' = index \cup {b} /\ data' = data \cup {b} /\ pblock' = b
    /\ UNCHANGED <<tip, xfieldHistory, xfieldDB, disk, aborted, crashes>>

\* FindMostWorkChain: a longest chain whose blocks are all there.
MostWork ==
    LET ready == {b \in data : Chain[b] \subseteq data} IN
    {b \in ready : \A c \in ready : nHeight[c] <= nHeight[b]}

\* Variant: the change is kept in memory only.
WriteXFieldLater(b) == xfieldDB

\* WriteXField
WriteXField(b) ==
    IF IsXFieldNew(xfieldHistory, b) THEN Add(xfieldDB, XFieldChange(b)) ELSE xfieldDB

\* ConnectTip: the block in hand was checked; one from disk is checked when read.
ConnectTip(b) ==
    /\ ~aborted
    /\ \E best \in MostWork :
          /\ nHeight[best] > nHeight[tip]
          /\ b \in Chain[best] \ {Genesis} /\ Parent[b] = tip
          /\ \E inHand \in BOOLEAN :
                /\ inHand => b = pblock /\ b = best
                /\ IF inHand \/ ProofOk(b)
                   THEN /\ tip' = b
                        /\ xfieldHistory' = Recorded(xfieldHistory, b)
                        /\ xfieldDB' = WriteXField(b)
                        /\ UNCHANGED aborted
                   ELSE aborted' = TRUE /\ UNCHANGED <<tip, xfieldHistory, xfieldDB>>
    /\ UNCHANGED <<index, data, pblock, disk, crashes>>

\* DisconnectTip: the block is read from disk, and the history is left alone.
DisconnectTip ==
    /\ ~aborted
    /\ \E best \in MostWork : nHeight[best] > nHeight[tip] /\ tip \notin Chain[best]
    /\ IF ProofOk(tip) THEN tip' = Parent[tip] /\ UNCHANGED aborted
       ELSE aborted' = TRUE /\ UNCHANGED tip
    /\ UNCHANGED <<index, data, pblock, xfieldHistory, xfieldDB, disk, crashes>>

\* Variant: the coins are flushed before the block index.
FlushCoinsFirst(full) ==
    /\ ~aborted
    /\ disk' = IF full THEN [disk EXCEPT !.tip = tip]
               ELSE [disk EXCEPT !.index = index, !.data = data]
    /\ UNCHANGED <<index, data, tip, pblock, xfieldHistory, xfieldDB, aborted, crashes>>

\* FlushStateToDisk: the block index alone, or the coins with it.
FlushStateToDisk(full) ==
    /\ ~aborted
    /\ disk' = [index |-> index, data |-> data, tip |-> IF full THEN tip ELSE disk.tip]
    /\ UNCHANGED <<index, data, tip, pblock, xfieldHistory, xfieldDB, aborted, crashes>>

\* The history at a start: it begins with the genesis block and what is in the
\* database is added to it.
ReadXFields(db) == FoldLeft(Add, <<GenesisChange>>, db)

\* The node stops without a flush and starts again.
Restart ==
    /\ crashes < MaxCrashes /\ crashes' = crashes + 1
    /\ index' = disk.index /\ data' = disk.data /\ tip' = disk.tip /\ pblock' = Genesis
    /\ xfieldHistory' = ReadXFields(xfieldDB)
    /\ aborted' = FALSE
    /\ UNCHANGED <<xfieldDB, disk>>

Next ==
    \/ \E msg \in HeaderMessages : ProcessNewBlockHeaders(msg)
    \/ \E b \in Blocks \ {Genesis} : ProcessNewBlock(b) \/ ConnectTip(b)
    \/ DisconnectTip \/ Restart
    \/ \E full \in BOOLEAN : FlushStateToDisk(full)

Spec == Init /\ [][Next]_vars

-----------------------------------------------------------------------------
Changes == [value : Keys, height : Nat, block : Blocks]

\* Type invariant; the flushed tip is a block whose data and index entry are
\* flushed too.
TypeOK ==
    /\ index \subseteq Blocks /\ data \subseteq index /\ tip \in data /\ pblock \in data
    /\ xfieldHistory \in Seq(Changes) /\ xfieldHistory # <<>> /\ xfieldDB \in Seq(Changes)
    /\ disk.index \subseteq Blocks /\ disk.data \subseteq disk.index /\ disk.tip \in disk.data
    /\ aborted \in BOOLEAN /\ crashes \in Nat

\* CheckBlockHeader: "Aggpubkey to verify blocks is read from temp xfieldhistory
\* if it is given in the argument list. otherwise it is read from the global list
\* according to the block height."  The key read for a block of the active chain,
\* or for the next one, is the key that the block is signed with.
KeyByHeight ==
    \A b \in Blocks \ {Genesis} : b \in Chain[tip] \/ Parent[b] = tip => ProofOk(b)

\* The changes that the blocks of the active chain made to the key.
ActiveChanges ==
    {XFieldChange(b) : b \in {c \in Chain[tip] \ {Genesis} :
                                  XField[c] # NoChange /\ XField[c] # Signer(c)}}

\* Every change of the active chain is in the history and in the database: a
\* change reaches the database before the block can be in the flushed chain.
ChangesStored ==
    \A c \in ActiveChanges : c \in ToSet(xfieldHistory) /\ c \in ToSet(xfieldDB)

\* Get looks for the first interval that holds the height, so the changes must
\* be in the order of their heights, also when they are read back.
HistorySorted ==
    \A i \in 2..Len(xfieldHistory) : xfieldHistory[i - 1].height < xfieldHistory[i].height

\* No block of the active branches fails its proof check when it is read from
\* disk to be connected or disconnected, which would stop the node.
NeverAborts == ~aborted

\* As long as the node did not crash, the header after the tip passes the check
\* against the latest key.
NextHeaderAccepted ==
    crashes = 0 => \A b \in Blocks \ {Genesis} :
                       Parent[b] = tip => GetLatest(xfieldHistory).value = Signer(b)
=============================================================================
