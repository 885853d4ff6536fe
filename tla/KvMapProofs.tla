---------------------------- MODULE KvMapProofs ----------------------------
(***************************************************************************)
(* Theorems about what the key-value store holds.  When no power failure   *)
(* cuts a collection MapInv is inductive and the store implements the      *)
(* durable map.  Wherever the power fails LossInv is, each key has one     *)
(* record between calls, and a restart may lose keys but revives no value. *)
(***************************************************************************)
EXTENDS KvProofs, FiniteSetTheorems

-----------------------------------------------------------------------------
(* The map that a reboot would find, when one block holds its records *)

\* No record counts but those of block b.
Home(b) == Kept(b) /\ (Kept(Other(b)) => \A s \in Slots : ~Good(Other(b), s))
Has(b, s, k) == Good(b, s) /\ item[b][s].key = k
In(b, s) == [blk |-> b, slot |-> s]

LEMMA PosParts ==
    ASSUME NEW p \in Pos
    PROVE  p.blk \in Blocks /\ p.slot \in Slots /\ p = In(p.blk, p.slot)
BY DEF Pos, In

LEMMA HomeCandidates ==
    ASSUME NEW b \in Blocks, Home(b), NEW k, NEW p
    PROVE  p \in Candidates(k) <=> \E s \in Slots : p = In(b, s) /\ Has(b, s, k)
<1>1. ASSUME p \in Candidates(k) PROVE \E s \in Slots : p = In(b, s) /\ Has(b, s, k)
  <2>1. p \in Pos /\ Kept(p.blk) /\ Good(p.blk, p.slot) /\ item[p.blk][p.slot].key = k
    BY <1>1 DEF Candidates, Good, At
  <2>2. p.blk = b
    BY <2>1, PosParts, OthersBlock DEF Home
  <2>3. QED
    BY <2>1, <2>2, PosParts DEF Has
<1>2. ASSUME NEW s \in Slots, p = In(b, s), Has(b, s, k) PROVE p \in Candidates(k)
  BY <1>2 DEF In, Pos, Has, Good, Home, Candidates, At
<1>3. QED
  BY <1>1, <1>2

LEMMA DictIs ==
    ASSUME NEW k \in Keys, NEW p \in Pos, Survivors(k) = {p}
    PROVE  Dict[k] = At(p).val
<1>1. ~Before(p, p)
  BY ConstantsAssumption DEF Before, Pos, Blocks, Slots
<1>2. First({p}) = {p}
  BY <1>1 DEF First
<1>3. QED
  BY <1>2 DEF Dict

DictEmptyRule ==
    (\A b \in Blocks, s \in Slots : Kept(b) => ~Good(b, s))
        => \A k \in Keys : Dict[k] = NoVal
LEMMA DictEmpty == DictEmptyRule
<1> SUFFICES ASSUME \A b \in Blocks, s \in Slots : Kept(b) => ~Good(b, s), NEW k \in Keys
             PROVE  Dict[k] = NoVal
  BY DEF DictEmptyRule
<1>1. Candidates(k) = {}
  BY PosParts DEF Candidates, Good, At
<1>2. Survivors(k) = {}
  BY <1>1 DEF Survivors
<1>3. QED
  BY <1>2 DEF Dict

DictNoneRule ==
    \A b \in Blocks, k \in Keys :
        Home(b) /\ (\A s \in Slots : ~Has(b, s, k)) => Dict[k] = NoVal
LEMMA DictNone == DictNoneRule
<1> SUFFICES ASSUME NEW b \in Blocks, NEW k \in Keys, Home(b), \A s \in Slots : ~Has(b, s, k)
             PROVE  Dict[k] = NoVal
  BY DEF DictNoneRule
<1>1. Candidates(k) = {}
  BY HomeCandidates
<1>2. Survivors(k) = {}
  BY <1>1 DEF Survivors
<1>3. QED
  BY <1>2 DEF Dict

DictOneRule ==
    \A b \in Blocks, k \in Keys, s \in Slots :
        Home(b) /\ Has(b, s, k) /\ (\A u \in Slots : Has(b, u, k) => u = s)
            => Dict[k] = item[b][s].val
LEMMA DictOne == DictOneRule
<1> SUFFICES ASSUME NEW b \in Blocks, NEW k \in Keys, NEW s \in Slots, Home(b), Has(b, s, k),
                    \A u \in Slots : Has(b, u, k) => u = s
             PROVE  Dict[k] = item[b][s].val
  BY DEF DictOneRule
<1>1. In(b, s) \in Pos /\ At(In(b, s)) = item[b][s]
  BY DEF Pos, In, At
<1>2. Candidates(k) = {In(b, s)}
  BY HomeCandidates
<1>3. Survivors(k) = {In(b, s)}
  BY <1>2 DEF Survivors, Replaces
<1>4. QED
  BY <1>1, <1>3, DictIs

\* Two records of a key: the later one counts, unless the earlier one would
\* replace it in turn.
DictPairRule ==
    \A b \in Blocks, k \in Keys, s, u \in Slots :
        /\ Home(b) /\ s < u /\ Has(b, s, k) /\ Has(b, u, k)
        /\ \A t \in Slots : Has(b, t, k) => t \in {s, u}
        /\ item[b][u].origin_off = In(b, s)
        => Dict[k] = IF item[b][s].origin_off = In(b, u) THEN item[b][s].val ELSE item[b][u].val
LEMMA DictPair == DictPairRule
<1> SUFFICES ASSUME NEW b \in Blocks, NEW k \in Keys, NEW s \in Slots, NEW u \in Slots,
                    Home(b), s < u, Has(b, s, k), Has(b, u, k),
                    \A t \in Slots : Has(b, t, k) => t \in {s, u},
                    item[b][u].origin_off = In(b, s)
             PROVE  Dict[k] = IF item[b][s].origin_off = In(b, u) THEN item[b][s].val
                                                                 ELSE item[b][u].val
  BY DEF DictPairRule
<1>1. PICK p \in Pos, q \in Pos : p = In(b, s) /\ q = In(b, u)
  BY DEF Pos, In
<1>2. At(p) = item[b][s] /\ At(q) = item[b][u] /\ Before(p, q) /\ ~Before(q, p) /\ p # q
  BY <1>1, ConstantsAssumption DEF In, At, Before, Slots, Blocks
<1>3. Candidates(k) = {p, q}
  BY <1>1, HomeCandidates
<1>4. Replaces(q, p) <=> At(p).origin_off # q
  BY <1>1, <1>2 DEF Replaces
<1>5. Replaces(p, q) <=> At(p).origin_off = q
  BY <1>1, <1>2 DEF Replaces
<1>6. ~Replaces(p, p) /\ ~Replaces(q, q)
  BY DEF Replaces
<1>7. Survivors(k) = IF At(p).origin_off = q THEN {p} ELSE {q}
  BY <1>2, <1>3, <1>4, <1>5, <1>6 DEF Survivors
<1>8. QED
  BY <1>1, <1>2, <1>7, DictIs

\* The same holds after a step.
LEMMA DictEmptyNext == DictEmptyRule'
BY DictEmpty, PTL
LEMMA DictNoneNext == DictNoneRule'
BY DictNone, PTL
LEMMA DictOneNext == DictOneRule'
BY DictOne, PTL
LEMMA DictPairNext == DictPairRule'
BY DictPair, PTL

-----------------------------------------------------------------------------
(* MapInv is inductive: which requests are served where *)

\* A step that is not a power failure between two writes of a collection.
Uncut == ~(Copying /\ pc' = "off")

LEMMA ServedSteps == ASSUME IInv, Served, Reserved, [Next]_vars PROVE Served'
<1> USE DEF IInv
<1>1. CASE UNCHANGED vars
  BY <1>1 DEF vars, Served, Live
<1>2. CASE Failure
  BY <1>2 DEF Failure, Crash, CutStore, CutCopy, PowerLoss, Served, OpPCs, GcPCs, BootPCs
<1>3. ASSUME NEW r \in Request, Call(r) PROVE Served'
  <2>1. r # NoReq /\ pc' \in {"find", "bulk", "factory0"} /\ ret' = "none"
    BY <1>3, ConstantsAssumption DEF Call, Served, OpPCs, GcPCs, BootPCs, Request
  <2>2. pc' = "factory0" => req'.op = "factory"
    BY <1>3 DEF Call, Request
  <2>3. QED
    BY <1>3, <2>1, <2>2 DEF Call, Served, OpPCs, GcPCs, BootPCs
<1>4. CASE Calls
  BY <1>3, <1>4 DEF Calls, CallSet, CallGet, CallDel, CallDelMatching, CallFactory, Request
<1>5. CASE Gc
  BY <1>5 DEF Gc, GcSkip, GcStart, GcCopy, GcPass, GcCopied, GcErase, GcHeader, GcUsed, Served,
              OpPCs, GcPCs, BootPCs, context
<1>6. CASE FindHit \/ FindMiss \/ Store \/ StoreNoSpace
  BY <1>6 DEF FindHit, FindMiss, Store, StoreNoSpace, OldRecord, Served, OpPCs, GcPCs, BootPCs
<1>7. CASE DelItem \/ MarkItemBlock
  BY <1>7 DEF DelItem, MarkItemBlock, AfterDelete, AfterOp, Served, OpPCs, GcPCs, BootPCs
<1>8. CASE BulkDelete \/ BulkMark \/ BulkPass \/ BulkNextBlock \/ Return
  BY <1>8 DEF BulkDelete, BulkMark, BulkPass, BulkNextBlock, Return, AfterDelete, Served, OpPCs,
              GcPCs, BootPCs
<1>9. CASE Factory0
  <2>1. hdr'[0] = "BAD"
    BY <1>9 DEF Factory0, SetHeader, TypeOK, Blocks
  <2>2. QED
    BY <1>9, <2>1 DEF Factory0, Served, OpPCs, GcPCs, BootPCs, context
<1>10. CASE Factory1
  <2>1. req \in Request /\ req.op = "factory"
    BY <1>10 DEF Factory1, Served, OpPCs
  <2>2. req = [op |-> "factory"]
    BY <2>1 DEF Request
  <2>3. \A b \in Blocks : ~Live(b)'
    BY <1>10 DEF Factory1, Served, SetHeader, TypeOK, Blocks, Live
  <2>4. QED
    BY <1>10, <2>2, <2>3 DEF Factory1, Served, OpPCs, GcPCs, BootPCs
<1>11. CASE Boot
  <2>1. CASE BootKeep \/ BootDrop \/ LastErase \/ LastHeader
    <3>1. CASE BootDrop
      BY <3>1 DEF BootDrop, Served, OpPCs, GcPCs, BootPCs, flash, Live
    <3>2. QED
      BY <2>1, <3>1 DEF BootKeep, LastErase, LastHeader, Reserved, LastPCs
  <2>2. CASE PowerOn
    BY <2>2 DEF PowerOn, Served, OpPCs, GcPCs, BootPCs, flash, Live
  <2>3. CASE BootDone
    BY <2>3 DEF BootDone, Served, OpPCs, GcPCs, BootPCs
  <2>4. ASSUME pc \in BootPCs, pc' \in BootPCs, UNCHANGED <<req, ret>>,
               \A b \in Blocks : Live(b)' => Live(b), pc' = "scan_erase" => hdr'[cur'.blk] = "BAD"
        PROVE  Served'
    BY <2>4 DEF Served, OpPCs, GcPCs, BootPCs
  <2>5. CASE BootRead \/ BootRecover \/ BootNextBlock
    BY <2>4, <2>5 DEF BootRead, BootRecover, BootNextBlock, AfterDelete, NextBlock, BootPCs, Live,
                      flash
  <2>6. CASE ScanErase \/ ScanHeader
    <3>1. \A b \in Blocks : Live(b)' => Live(b)
      BY <2>6 DEF ScanErase, ScanHeader, EraseBlock, WriteCleanHeader, SetHeader, TypeOK, Live
    <3>2. QED
      BY <2>4, <2>6, <3>1 DEF ScanErase, ScanHeader, NextBlock, BootPCs, context
  <2>7. CASE BootMark \/ BootPass
    <3>1. \A b \in Blocks : hdr'[b] = hdr[b] \/ blk_state[b] = "USED"
      BY <2>7 DEF BootMark, MarkOld, SetHeader, OldRecord, Pos, TypeOK, BootPass, PassInvalid, MarkDirty
    <3>2. \A b \in Blocks : Live(b)' => Live(b)
      BY <2>7, <3>1, UsedIsKnown DEF Live, BootMark, BootPass
    <3>3. QED
      BY <2>4, <2>7, <3>2 DEF BootMark, BootPass, BootPCs
  <2>8. QED
    BY <1>11, <2>1, <2>2, <2>3, <2>5, <2>6, <2>7 DEF Boot
<1>12. QED
  BY <1>1, <1>2, <1>4, <1>5, <1>6, <1>7, <1>8, <1>9, <1>10, <1>11 DEF Next, Step, Op

-----------------------------------------------------------------------------
(* MapInv is inductive: a CLEAN block is empty *)

LEMMA FilledRecords ==
    ASSUME NEW b \in Blocks, NEW e \in 1..Cap, Filled(b, e)
    PROVE  \A s \in Slots : IsItem(b, s) => s < e
BY ConstantsAssumption DEF Filled, IsItem, Slots

\* The slot and block a call writes to.
LEMMA WritePlace ==
    ASSUME IInv, pc \in RunPCs
    PROVE  \E b \in Blocks, s \in Slots :
              /\ Live(b) /\ Behind(b, s) /\ write_pos = In(b, s)
              /\ hdr[Other(b)] = "CLEAN" /\ ~Live(Other(b)) /\ s < Cap + 1
              /\ \A u \in Slots : IsItem(b, u) => u < s
<1>1. PICK b \in Blocks, s \in 1..Cap :
              /\ hdr[b] \in {"USED", "DIRTY"} /\ Behind(b, s) /\ hdr[Other(b)] = "CLEAN"
  BY DEF IInv, Running
<1>2. \A u \in Slots : IsItem(b, u) => u < s
  BY <1>1, FilledRecords DEF Behind
<1>3. QED
  BY <1>1, <1>2, ConstantsAssumption DEF Live, Behind, In, Slots

\* Once no collection runs, a block that is CLEAN was CLEAN before and its
\* slots are still erased.
LEMMA ReservedKept ==
    ASSUME Reserved, ~Copying, unclean' = {}, pc' \notin LastPCs,
           \A b \in Blocks : hdr'[b] = "CLEAN" => hdr[b] = "CLEAN",
           \A b \in Blocks : hdr[b] = "CLEAN" => (Filled(b, 1)' <=> Filled(b, 1))
    PROVE  Reserved'
BY DEF Reserved

LEMMA ReservedSteps ==
    ASSUME IInv, IInv', Served, Reserved, Uncut, [Next]_vars
    PROVE  Reserved'
<1> USE DEF IInv
<1>0. unclean = {} /\ pc \notin LastPCs
  BY DEF Reserved
<1>1. CASE UNCHANGED vars
  BY <1>1 DEF vars, Reserved, Copying, Filled
<1>2. CASE Calls \/ FindHit \/ FindMiss \/ StoreNoSpace \/ MarkItemBlock \/ BulkMark \/ BulkPass
           \/ BulkNextBlock \/ Return \/ GcSkip \/ Factory0 \/ Factory1 \/ PowerOn \/ BootRead
           \/ BootMark \/ BootPass
  <2>1. UNCHANGED <<item, unclean>> /\ ~Copying /\ pc' \notin LastPCs
    BY <1>2, <1>0 DEF Calls, CallSet, CallGet, CallDel, CallDelMatching, CallFactory, Call, FindHit, FindMiss, StoreNoSpace,
         MarkItemBlock, BulkMark, BulkPass, BulkNextBlock, Return, GcSkip, Factory0, Factory1, PowerOn,
         BootRead, BootMark, BootPass, flash, context, Copying, GcPCs, LastPCs, AfterOp
  <2>2. \A b \in Blocks : hdr'[b] = "CLEAN" => hdr[b] = "CLEAN"
    <3>1. CASE FindHit \/ FindMiss \/ BulkPass \/ BootPass
      <4>1. PICK B : MarkDirty(B)
        BY <3>1 DEF FindHit, FindMiss, Traverse, BulkPass, BootPass, PassInvalid
      <4>2. QED
        BY <4>1 DEF MarkDirty
    <3>2. CASE MarkItemBlock \/ BulkMark \/ BootMark
      BY <3>2 DEF MarkItemBlock, BulkMark, BootMark, MarkOld, SetHeader, TypeOK
    <3>3. CASE Factory0 \/ Factory1
      BY <3>3 DEF Factory0, Factory1, SetHeader, TypeOK
    <3>4. CASE UNCHANGED hdr
      BY <3>4
    <3>5. QED
      BY <1>2, <3>1, <3>2, <3>3, <3>4 DEF Calls, CallSet, CallGet, CallDel, CallDelMatching,
         CallFactory, Call, StoreNoSpace, BulkNextBlock, Return, GcSkip, PowerOn, BootRead, flash
  <2>3. \A b \in Blocks : Filled(b, 1)' <=> Filled(b, 1)
    BY <2>1 DEF Filled
  <2>4. QED
    BY <1>0, <2>1, <2>2, <2>3 DEF Reserved
<1>3. CASE DelItem \/ BulkDelete \/ BootRecover
  <2>1. UNCHANGED <<hdr, unclean>> /\ ~Copying /\ pc' \notin LastPCs
    BY <1>3, <1>0 DEF DelItem, BulkDelete, BootRecover, AfterDelete, AfterOp, Copying, GcPCs, LastPCs
  <2>2. \A b \in Blocks : Filled(b, 1) => Filled(b, 1)'
    <3>1. \A p \in Pos : Delete(p) /\ IsItem(p.blk, p.slot)
             => \A b \in Blocks : Filled(b, 1) => Filled(b, 1)'
      BY DeleteSlot DEF TypeOK, ItemType
    <3>2. CASE DelItem
      BY <3>1, <3>2 DEF DelItem, OldRecord
    <3>3. CASE UNCHANGED item
      BY <3>3 DEF Filled
    <3>4. CASE BulkDelete /\ ~UNCHANGED item
      <4>1. cur \in Pos /\ Delete(cur) /\ IsItem(cur.blk, cur.slot)
        BY <3>4, CursorAdvances DEF BulkDelete, TypeOK, Pos, Normal
      <4>2. QED
        BY <3>1, <4>1
    <3>5. CASE BootRecover /\ ~UNCHANGED item
      <4>1. cur \in Pos /\ At(cur) \in Item /\ Normal(cur.blk, cur.slot)
        BY <3>5, CursorAdvances DEF BootRecover, TypeOK, Pos, Normal, IsItem, At
      <4>2. PICK p : p \in Recovered(cur) /\ Delete(p)
        BY <3>5 DEF BootRecover
      <4>3. p \in Pos /\ IsItem(p.blk, p.slot)
        BY <4>1, <4>2 DEF Recovered, Item, Normal
      <4>4. QED
        BY <3>1, <4>2, <4>3
    <3>6. QED
      BY <1>3, <3>2, <3>3, <3>4, <3>5
  <2>3. QED
    BY <2>1, <2>2 DEF Reserved
<1>4. CASE Store \/ CutStore
  <2>1. /\ pc = "store" /\ UNCHANGED hdr /\ ~Copying /\ pc' \notin LastPCs /\ unclean' = {}
        /\ \E i : WriteItem(write_pos, i)
    BY <1>0, <1>4 DEF Store, CutStore, PowerLoss, Copying, GcPCs, LastPCs
  <2>2. PICK b \in Blocks, s \in Slots : Behind(b, s) /\ Live(b)
    BY <2>1, WritePlace DEF RunPCs
  <2>3. \A c \in Blocks, t \in Slots : c # b => item'[c][t] = item[c][t]
    BY <2>1, <2>2, WriteEffect
  <2>4. \A c \in Blocks : hdr[c] = "CLEAN" => (Filled(c, 1)' <=> Filled(c, 1))
    BY <2>2, <2>3 DEF Live, Filled
  <2>5. QED
    BY <2>1, <2>4, ReservedKept
<1>5. CASE GcStart \/ GcCopy \/ GcPass \/ GcCopied \/ GcErase \/ GcHeader
  <2>1. Copying' /\ UNCHANGED unclean /\ pc' \notin LastPCs
    BY <1>5 DEF GcStart, GcCopy, GcPass, GcCopied, GcErase, GcHeader, Copying, GcPCs, LastPCs, context
  <2>2. QED
    BY <1>0, <2>1 DEF Reserved
<1>6. CASE GcUsed
  <2>1. PICK b \in Blocks : b = cur.blk
    BY DEF TypeOK
  <2>2. Empty(b) /\ write_pos.blk = Other(b) /\ SetHeader(Other(b), "USED") /\ UNCHANGED <<item, unclean>>
        /\ pc' = "return"
    BY <1>6, <2>1 DEF GcUsed, Collecting, GcPCs, Behind, context
  <2>3. \A c \in Blocks : hdr'[c] = "CLEAN" => c = b
    BY <2>2, OthersBlock DEF SetHeader, TypeOK
  <2>4. QED
    BY <1>0, <2>2, <2>3 DEF Reserved, Empty, Filled, LastPCs
<1>7. CASE ScanErase
  <2>1. PICK b \in Blocks : b = cur.blk
    BY DEF TypeOK
  <2>2. EraseBlock(b) /\ ~Copying /\ UNCHANGED unclean /\ pc' = "scan_header"
    BY <1>7, <2>1 DEF ScanErase, Copying, GcPCs, context
  <2>3. \A c \in Blocks, t \in Slots : hdr'[c] = "CLEAN" => hdr[c] = "CLEAN" /\ item'[c][t] = item[c][t]
    BY <2>2, EraseEffect
  <2>4. QED
    BY <1>0, <2>2, <2>3 DEF Reserved, Filled, LastPCs
<1>8. CASE ScanHeader
  <2>1. PICK b \in Blocks : b = cur.blk
    BY DEF TypeOK
  <2>2. /\ Filled(b, 1) /\ SetHeader(b, "CLEAN") /\ ~Copying /\ UNCHANGED <<item, unclean>>
        /\ pc' \in {"boot_read", "boot_unclean"}
    BY <1>8, <2>1 DEF ScanHeader, WriteCleanHeader, Starting, BootPCs, Copying, GcPCs, NextBlock
  <2>3. \A c \in Blocks : hdr'[c] = "CLEAN" => c = b \/ hdr[c] = "CLEAN"
    BY <2>2 DEF SetHeader, TypeOK
  <2>4. QED
    BY <1>0, <2>2, <2>3 DEF Reserved, Filled, LastPCs
<1>9. CASE BootNextBlock
  <2>1. PICK b \in Blocks : b = cur.blk
    BY DEF TypeOK
  <2>2. pc = "boot_item" /\ UNCHANGED <<hdr, item>> /\ pc' \in {"boot_read", "boot_unclean"} /\ ~Copying
    BY <1>9 DEF BootNextBlock, NextBlock, flash, Copying, GcPCs
  <2>3. Unread(b)
    BY <2>1, <2>2, ConstantsAssumption DEF Starting, BootPCs, Scanned, ScanPCs, Blocks
  <2>4. blk_state[b] = hdr[b]
    BY <2>1, <2>2, <2>3 DEF Unread, Known
  <2>5. hdr[b] = "CLEAN" => SpaceOf(b) = Cap
    <3>1. SUFFICES ASSUME hdr[b] = "CLEAN" PROVE SpaceOf(b) = Cap
      OBVIOUS
    <3>2. Filled(b, 1)
      BY <2>2, <3>1 DEF Reserved
    <3>3. EndOf(b) = 1
      BY <3>2, EndOfFilled, ConstantsAssumption
    <3>4. QED
      BY <3>3, ConstantsAssumption DEF SpaceOf
  <2>6. unclean' = {}
    BY <1>0, <1>9, <2>1, <2>4, <2>5 DEF BootNextBlock
  <2>7. QED
    BY <2>2, <2>6 DEF Reserved, Filled, LastPCs
<1>10. CASE BootDrop
  <2>1. pc = "boot_unclean" /\ clean_blk_nums = 0
    BY <1>10 DEF BootDrop
  <2>2. \A b \in Blocks : ~Counted(b)
    BY <2>1, AllScanned DEF CleanBlocks, Blocks
  <2>3. \A b \in Blocks : hdr[b] \in {"USED", "DIRTY"}
    BY <1>0, <2>1, <2>2, AllScanned DEF Ready, Known, BlkStates
  <2>4. QED
    BY <2>3 DEF OneReserve
<1>11. CASE BootKeep \/ LastErase \/ LastHeader
  BY <1>0, <1>11 DEF BootKeep, LastErase, LastHeader, LastPCs
<1>12. CASE BootDone
  <2>1. ~Copying /\ pc' = "idle" /\ UNCHANGED <<item, unclean>>
    BY <1>12 DEF BootDone, Copying, GcPCs
  <2>2. \A b \in Blocks : hdr'[b] = "CLEAN" => hdr[b] = "CLEAN"
    BY <1>12 DEF BootDone, SetHeader, TypeOK
  <2>3. QED
    BY <1>0, <2>1, <2>2, ReservedKept DEF Filled, LastPCs
<1>13. CASE Crash
  <2>1. ~Copying /\ pc' = "off" /\ unclean' = {} /\ UNCHANGED flash
    BY <1>13 DEF Crash, PowerLoss, Uncut
  <2>2. QED
    BY <2>1, ReservedKept DEF flash, LastPCs, Filled
<1>14. CASE CutCopy
  BY <1>14 DEF CutCopy, PowerLoss, Uncut, Copying, GcPCs
<1>15. QED
  BY <1>1, <1>2, <1>3, <1>4, <1>5, <1>6, <1>7, <1>8, <1>9, <1>10, <1>11, <1>12, <1>13, <1>14
     DEF Next, Step, Op, Boot, Gc, Failure

-----------------------------------------------------------------------------
(* MapInv is inductive: one record for a key *)

LEMMA InSlots == \A s \in Slots : s \in Nat /\ s < Cap + 1 /\ ~(s >= Cap + 1)
BY ConstantsAssumption DEF Slots

LEMMA OneSaid ==
    ASSUME NEW b \in Blocks, One(b)
    PROVE  /\ \A s \in Slots : Normal(b, s) => item[b][s].crc
           /\ \A s, u \in Slots : ~(s < u /\ Normal(b, s) /\ Normal(b, u) /\ SameKey(b, s, u))
BY InSlots DEF One, ReadUpTo, Good

OneRule == \A b \in Blocks : One(b) => Paired(b)
LEMMA OneIsPaired == OneRule
<1> SUFFICES ASSUME NEW b \in Blocks, One(b) PROVE Paired(b)
  BY DEF OneRule
<1>1. \A s, u \in Slots : ~(s < u /\ Good(b, s) /\ Good(b, u) /\ SameKey(b, s, u))
  BY OneSaid DEF Good
<1>2. QED
  BY <1>1 DEF Paired
LEMMA OneIsPairedNext == OneRule'
BY OneIsPaired, PTL

\* Deleting records does not make a second one.
LEMMA ReadThinned ==
    ASSUME NEW b \in Blocks, NEW c, ReadUpTo(b, c),
           \A s \in Slots : item'[b][s] = item[b][s] \/ ~Normal(b, s)'
    PROVE  ReadUpTo(b, c)'
<1>1. \A s \in Slots : Normal(b, s)' => Normal(b, s) /\ item'[b][s] = item[b][s]
  BY DEF Normal, IsItem
<1>2. \A s \in Slots : Good(b, s)' => Good(b, s) /\ item'[b][s] = item[b][s]
  BY <1>1 DEF Good
<1>3. \A s \in Slots : s < c /\ Normal(b, s)' => item'[b][s].crc
  BY <1>1 DEF ReadUpTo
<1>4. ASSUME NEW s \in Slots, NEW u \in Slots, s < u, s < c, Normal(b, s)', Good(b, u)', SameKey(b, s, u)'
      PROVE  u >= c /\ item'[b][s].origin_off # [blk |-> b, slot |-> u]
  <2>1. Normal(b, s) /\ Good(b, u) /\ item'[b][s] = item[b][s] /\ item'[b][u] = item[b][u]
    BY <1>1, <1>2, <1>4
  <2>2. SameKey(b, s, u)
    BY <1>4, <2>1 DEF SameKey
  <2>3. QED
    BY <1>4, <2>1, <2>2 DEF ReadUpTo
<1>5. QED
  BY <1>3, <1>4 DEF ReadUpTo

LEMMA PairedThinned ==
    ASSUME NEW b \in Blocks, Paired(b),
           \A s \in Slots : item'[b][s] = item[b][s] \/ ~Good(b, s)'
    PROVE  Paired(b)'
<1>1. \A s \in Slots : Good(b, s)' => Good(b, s) /\ item'[b][s] = item[b][s]
  BY DEF Good, Normal, IsItem
<1>2. ASSUME NEW s \in Slots, NEW u \in Slots, s < u, Good(b, s)', Good(b, u)', SameKey(b, s, u)'
      PROVE  item'[b][u].origin_off = [blk |-> b, slot |-> s]
  <2>1. Good(b, s) /\ Good(b, u) /\ item'[b][s] = item[b][s] /\ item'[b][u] = item[b][u]
    BY <1>1, <1>2
  <2>2. SameKey(b, s, u)
    BY <1>2, <2>1 DEF SameKey
  <2>3. QED
    BY <1>2, <2>1, <2>2 DEF Paired
<1>3. QED
  BY <1>2 DEF Paired

\* Reading to the end of the records is reading the block.
LEMMA ReadToEnd ==
    ASSUME NEW b \in Blocks, NEW e \in 1..Cap, Filled(b, e), ReadUpTo(b, e)
    PROVE  One(b)
<1>1. \A s \in Slots : Normal(b, s) => s < e
  BY FilledRecords DEF Normal
<1>2. \A s, u \in Slots : s < u /\ Normal(b, s) /\ Good(b, u) => s < e /\ u < e
  BY <1>1 DEF Good
<1>3. QED
  BY <1>1, <1>2, ConstantsAssumption DEF One, ReadUpTo, Slots

LEMMA EmptyHasOne ==
    ASSUME NEW b \in Blocks, Filled(b, 1), NEW c
    PROVE  ReadUpTo(b, c) /\ Paired(b)
<1>1. \A s \in Slots : ~Normal(b, s)
  BY ConstantsAssumption DEF Filled, Normal, IsItem, Slots
<1>2. QED
  BY <1>1 DEF ReadUpTo, Paired, Good

\* Steps of a call that write no record.
LEMMA SingleServed ==
    ASSUME pc' \in RunPCs, \A b \in Blocks : Live(b)' => One(b)'
    PROVE  Single'
<1>1. \A b \in Blocks : Live(b)' => Paired(b)'
  BY OneIsPairedNext DEF OneRule
<1>2. pc' \notin BootPCs
  BY DEF RunPCs, BootPCs
<1>3. QED
  BY <1>1, <1>2 DEF Single

LEMMA SingleThinned ==
    ASSUME Single, pc \in RunPCs, ~(pc = "del" /\ req.op = "set"), pc' \in RunPCs,
           \A b \in Blocks : Live(b)' => Live(b),
           \A b \in Blocks, s \in Slots : item'[b][s] = item[b][s] \/ ~Normal(b, s)'
    PROVE  Single'
<1>1. \A b \in Blocks : Live(b)' => One(b)'
  <2>1. \A b \in Blocks : Live(b) => One(b)
    BY DEF Single
  <2>2. \A b \in Blocks : One(b) => One(b)'
    BY ReadThinned DEF One
  <2>3. QED
    BY <2>1, <2>2
<1>2. QED
  BY <1>1, SingleServed

\* A new record, whose key no record of the block had.
LEMMA OneWritten ==
    ASSUME IInv, NEW b \in Blocks, NEW s \in Slots, NEW i, One(b), Normal(b, s)' => i.crc,
           item'[b][s] = i, \A t \in Slots : t # s => item'[b][t] = item[b][t],
           \A t \in Slots : IsItem(b, t) => t < s,
           \A t \in Slots : Normal(b, t) => item[b][t].key # i.key
    PROVE  One(b)'
<1>1. \A t \in Slots : Normal(b, t)' => t = s \/ (t < s /\ Normal(b, t) /\ item'[b][t] = item[b][t])
  BY DEF Normal, IsItem
<1>2. \A t \in Slots : Normal(b, t)' => item'[b][t].crc
  BY <1>1, OneSaid
<1>3. ASSUME NEW t \in Slots, NEW u \in Slots, t < u, Normal(b, t)', Normal(b, u)', SameKey(b, t, u)'
      PROVE  FALSE
  <2>1. t < s /\ Normal(b, t) /\ item'[b][t] = item[b][t]
    BY <1>1, <1>3, InSlots
  <2>2. CASE u = s
    BY <1>3, <2>1, <2>2 DEF SameKey
  <2>3. CASE u # s
    <3>1. u < s /\ Normal(b, u) /\ item'[b][u] = item[b][u]
      BY <1>1, <1>3, <2>3
    <3>2. SameKey(b, t, u)
      BY <1>3, <2>1, <3>1 DEF SameKey
    <3>3. QED
      BY <1>3, <2>1, <3>1, <3>2, OneSaid
  <2>4. QED
    BY <2>2, <2>3
<1>4. QED
  BY <1>2, <1>3 DEF One, ReadUpTo, Good

\* What the store of a record does.
LEMMA StoreEffect ==
    ASSUME IInv, Store
    PROVE  \E b \in Blocks, s \in Slots, i \in Item :
              /\ Live(b) /\ ~Live(Other(b)) /\ write_pos = In(b, s) /\ write_pos' = In(b, s + 1)
              /\ \A t \in Slots : IsItem(b, t) => t < s
              /\ i.key = req.key /\ i.val = req.val /\ i.crc /\ i.origin_off = old
              /\ i.state = "NORMAL"
              /\ \A c \in Blocks, t \in Slots :
                    item'[c][t] = IF c = b /\ t = s THEN i ELSE item[c][t]
              /\ Normal(b, s)' /\ item[b][s] = Erased
<1> USE DEF IInv
<1>1. /\ pc = "store" /\ pc \in RunPCs /\ HasRoom /\ WriteItem(write_pos, NewItem(TRUE))
      /\ write_pos' = Advance(write_pos) /\ req \in Request /\ req.op = "set"
  BY DEF Store, RunPCs, OldRecord
<1>2. PICK b \in Blocks, s \in Slots :
              /\ Live(b) /\ Behind(b, s) /\ write_pos = In(b, s) /\ ~Live(Other(b))
              /\ \A u \in Slots : IsItem(b, u) => u < s
  BY <1>1, WritePlace
<1>3. write_pos' = In(b, s + 1)
  <2>1. s < Cap
    BY <1>1, <1>2, ConstantsAssumption DEF HasRoom, Behind, Slots
  <2>2. QED
    BY <1>1, <1>2, <2>1 DEF Advance, In
<1>4. PICK i : /\ WriteItem(write_pos, i) /\ i \in Item /\ i.state = "NORMAL"
               /\ i.key = req.key /\ i.val = req.val /\ i.crc /\ i.origin_off = old
  <2>1. /\ NewItem(TRUE) \in Item /\ NewItem(TRUE).state = "NORMAL"
        /\ NewItem(TRUE).key = req.key /\ NewItem(TRUE).val = req.val /\ NewItem(TRUE).crc
        /\ NewItem(TRUE).origin_off = old
    BY <1>1 DEF Request, TypeOK, Item, NewItem
  <2>2. QED
    BY <1>1, <2>1 DEF WriteItem
<1>5. /\ \A c \in Blocks, t \in Slots :
            item'[c][t] = IF c = b /\ t = s THEN i ELSE item[c][t]
      /\ item[b][s] = Erased
  BY <1>2, <1>4, WriteEffect
<1>6. Normal(b, s)'
  BY <1>4, <1>5, ConstantsAssumption DEF Normal, IsItem
<1>7. QED
  BY <1>2, <1>3, <1>4, <1>5, <1>6

LEMMA SingleStore ==
    ASSUME IInv, Single, Updating, Store
    PROVE  Single'
<1> USE DEF IInv
<1>1. pc = "store" /\ pc \in RunPCs /\ pc' \in RunPCs /\ UNCHANGED <<hdr, req, old>> /\ req.op = "set"
  BY DEF Store, RunPCs, OldRecord
<1>2. PICK b \in Blocks, s \in Slots, i \in Item :
              /\ Live(b) /\ ~Live(Other(b))
              /\ \A t \in Slots : IsItem(b, t) => t < s
              /\ i.key = req.key /\ i.crc /\ i.origin_off = old
              /\ \A c \in Blocks, t \in Slots :
                    item'[c][t] = IF c = b /\ t = s THEN i ELSE item[c][t]
  BY StoreEffect
<1>3. One(b) /\ \A c \in Blocks : Live(c)' => c = b
  BY <1>1, <1>2, OthersBlock DEF Single, Live
<1>4. CASE old = NoPos
  <2>1. \A t \in Slots : Normal(b, t) => item[b][t].key # i.key
    BY <1>1, <1>2, <1>4 DEF Updating
  <2>2. One(b)'
    BY <1>2, <1>3, <2>1, OneWritten
  <2>3. QED
    BY <1>1, <1>3, <2>2, SingleServed
<1>5. CASE old # NoPos
  <2>1. Live(old.blk) /\ Normal(old.blk, old.slot) /\ At(old).key = req.key /\ old \in Pos
    BY <1>1, <1>5 DEF Updating, OldRecord
  <2>2. PICK o \in Slots : old = In(b, o) /\ Normal(b, o) /\ item[b][o].key = req.key
    BY <1>2, <2>1, OthersBlock, PosParts DEF At
  <2>3. \A t \in Slots : Good(b, t)' => t = s \/ (t < s /\ Normal(b, t) /\ item'[b][t] = item[b][t])
    BY <1>2 DEF Good, Normal, IsItem
  <2>4. ASSUME NEW t \in Slots, NEW u \in Slots, t < u, Good(b, t)', Good(b, u)', SameKey(b, t, u)'
        PROVE  item'[b][u].origin_off = In(b, t)
    <3>1. t < s /\ Normal(b, t) /\ item'[b][t] = item[b][t]
      BY <2>3, <2>4, InSlots
    <3>2. u = s
      <4>1. SUFFICES ASSUME u # s PROVE FALSE
        OBVIOUS
      <4>2. Normal(b, u) /\ item'[b][u] = item[b][u]
        BY <2>3, <2>4, <4>1
      <4>3. SameKey(b, t, u)
        BY <2>4, <3>1, <4>2 DEF SameKey
      <4>4. QED
        BY <1>3, <2>4, <3>1, <4>2, <4>3, OneSaid
    <3>3. item[b][t].key = req.key
      BY <1>2, <2>4, <3>1, <3>2 DEF SameKey
    <3>4. t = o
      <4>1. SameKey(b, t, o) /\ SameKey(b, o, t)
        BY <2>2, <3>3 DEF SameKey
      <4>2. ~(t < o) /\ ~(o < t)
        BY <1>3, <2>2, <3>1, <4>1, OneSaid
      <4>3. QED
        BY <4>2, InSlots
    <3>5. QED
      BY <1>2, <2>2, <3>2, <3>4
  <2>5. Paired(b)'
    BY <2>4 DEF Paired, In
  <2>6. pc' = "del" /\ req'.op = "set"
    BY <1>1, <1>5 DEF Store
  <2>7. QED
    BY <1>3, <2>5, <2>6 DEF Single, BootPCs
<1>6. QED
  BY <1>4, <1>5

\* The old record of an update goes; its replacement stays.
LEMMA SingleDelItem ==
    ASSUME IInv, Single, Updating, DelItem
    PROVE  Single'
<1> USE DEF IInv
<1>1. /\ pc = "del" /\ pc \in RunPCs /\ pc' \in RunPCs /\ UNCHANGED <<hdr, req>> /\ Delete(old)
      /\ old \in Pos /\ IsItem(old.blk, old.slot)
  BY DEF DelItem, AfterDelete, AfterOp, RunPCs, OldRecord, ram
<1>2. \A b \in Blocks, s \in Slots :
         IF b = old.blk /\ s = old.slot THEN ~Normal(b, s)' ELSE item'[b][s] = item[b][s]
  BY <1>1, DeleteEffect
<1>3. CASE req.op # "set"
  BY <1>1, <1>2, <1>3, SingleThinned DEF Live
<1>4. CASE req.op = "set"
  <2>1. Live(old.blk) /\ old.blk \in Blocks
    BY <1>1 DEF Updating, Pos
  <2>2. PICK b \in Blocks : b = old.blk /\ Live(b) /\ \A c \in Blocks : Live(c)' => c = b
    BY <1>1, <2>1, OthersBlock DEF OneReserve, Live
  <2>3. PICK n \in Slots :
              /\ \A s \in Slots : Normal(b, s) => item[b][s].crc
              /\ \A s, u \in Slots :
                    s < u /\ Normal(b, s) /\ Normal(b, u) /\ SameKey(b, s, u) => s = old.slot /\ u = n
    BY <1>1, <1>4, <2>2 DEF Updating
  <2>4. \A s \in Slots : Normal(b, s)' => s # old.slot /\ Normal(b, s) /\ item'[b][s] = item[b][s]
    BY <1>2, <2>2 DEF Normal, IsItem
  <2>5. \A s, u \in Slots : ~(s < u /\ Normal(b, s)' /\ Normal(b, u)' /\ SameKey(b, s, u)')
    BY <2>3, <2>4 DEF SameKey
  <2>6. One(b)'
    BY <2>3, <2>4, <2>5 DEF One, ReadUpTo, Good
  <2>7. QED
    BY <1>1, <2>2, <2>6, SingleServed
<1>5. QED
  BY <1>3, <1>4

\* The record under a traversal's cursor.
LEMMA CursorPlace ==
    ASSUME IInv, pc \in {"bulk", "boot_item", "gc_copy"}, ~AtEnd, NextRecord
    PROVE  \E b \in Blocks, c \in Slots : cur = In(b, c) /\ cur' = In(b, c + 1)
<1>1. cur.slot \in Slots /\ cur.blk \in Blocks
  BY CursorAdvances DEF IInv, TypeOK
<1>2. cur = In(cur.blk, cur.slot) /\ cur' = In(cur.blk, cur.slot + 1)
  BY <1>1 DEF In, NextRecord, IInv, TypeOK
<1>3. QED
  BY <1>1, <1>2

\* While the start reads a block, that block is known, and it is in use if it
\* has records.
LEMMA ReadingPlace ==
    ASSUME IInv, Reserved, pc = "boot_item", NEW c \in Slots, Normal(cur.blk, c)
    PROVE  Live(cur.blk) /\ blk_state[cur.blk] # "NONE"
<1> USE DEF IInv
<1>1. PICK b \in Blocks : b = cur.blk
  BY DEF TypeOK
<1>2. ~Scanned(b)
  BY <1>1, ConstantsAssumption DEF Scanned, ScanPCs, Blocks
<1>3. Unread(b)
  BY <1>2 DEF Starting, BootPCs
<1>4. blk_state[b] = hdr[b] /\ hdr[b] \in BlkStates
  BY <1>1, <1>3 DEF Unread, Known
<1>5. hdr[b] # "CLEAN"
  <2>1. SUFFICES ASSUME hdr[b] = "CLEAN" PROVE FALSE
    OBVIOUS
  <2>2. Filled(b, 1)
    BY <2>1 DEF Reserved, Copying, GcPCs
  <2>3. QED
    BY <1>1, <2>2, ConstantsAssumption DEF Filled, Slots, Normal, IsItem
<1>6. QED
  BY <1>1, <1>4, <1>5 DEF Live, BlkStates

\* The recovery of the record at the cursor leaves no record that it replaces,
\* and deletes it if it is damaged.
LEMMA RecoverEffect ==
    ASSUME IInv, BootRecover
    PROVE  \E b \in Blocks, c \in Slots :
              /\ cur = In(b, c) /\ cur' = In(b, c + 1) /\ Normal(b, c)
              /\ \A d \in Blocks, s \in Slots : item'[d][s] = item[d][s] \/ ~Normal(d, s)'
              /\ ~item[b][c].crc => ~Normal(b, c)'
              /\ item[b][c].crc => \A s \in Slots :
                    s # c /\ Normal(b, s)' /\ item[b][s].key = item[b][c].key
                        => item[b][c].origin_off # In(b, s)
<1> USE DEF IInv
<1>1. pc = "boot_item" /\ ~AtEnd /\ Normal(cur.blk, cur.slot) /\ NextRecord
  BY DEF BootRecover
<1>2. PICK b \in Blocks, c \in Slots : cur = In(b, c) /\ cur' = In(b, c + 1)
  BY <1>1, CursorPlace
<1>3. Normal(b, c) /\ At(cur) = item[b][c] /\ cur \in Pos /\ item[b][c] \in Item
  <2>1. cur.blk = b /\ cur.slot = c /\ cur \in Pos
    BY <1>2 DEF In, Pos
  <2>2. Normal(b, c) /\ At(cur) = item[b][c]
    BY <1>1, <2>1 DEF At
  <2>3. item[b][c] \in Item
    BY <2>2 DEF Normal, IsItem, TypeOK
  <2>4. QED
    BY <2>1, <2>2, <2>3
<1>4. \A p \in Recovered(cur) : p \in Pos /\ IsItem(p.blk, p.slot)
  <2>1. ASSUME NEW p \in Recovered(cur) PROVE p \in Pos /\ IsItem(p.blk, p.slot)
    <3>1. p = cur \/ (p = item[b][c].origin_off /\ p # NoPos /\ Normal(p.blk, p.slot))
      BY <1>3, <2>1 DEF Recovered
    <3>2. item[b][c].origin_off \in Pos \cup {NoPos}
      BY <1>3 DEF Item
    <3>3. QED
      BY <1>1, <1>3, <3>1, <3>2 DEF Normal
  <2>2. QED
    BY <2>1
<1>5. CASE Recovered(cur) = {} /\ UNCHANGED item
  <2>1. item[b][c].crc
    BY <1>3, <1>5 DEF Recovered
  <2>2. ASSUME NEW s \in Slots, s # c, Normal(b, s)', item[b][s].key = item[b][c].key,
               item[b][c].origin_off = In(b, s)
        PROVE  FALSE
    <3>1. Normal(b, s) /\ In(b, s) # cur /\ In(b, s) # NoPos
      BY <1>2, <1>5, <2>2, InSlots DEF Normal, IsItem, In, NoPos, Slots
    <3>2. In(b, s) \in Recovered(cur)
      BY <1>3, <2>1, <2>2, <3>1 DEF Recovered, In, At
    <3>3. QED
      BY <1>5, <3>2
  <2>3. QED
    BY <1>2, <1>3, <1>5, <2>1, <2>2
<1>6. CASE \E p \in Recovered(cur) : Delete(p)
  <2>1. PICK p \in Recovered(cur) : Delete(p)
    BY <1>6
  <2>2. /\ p \in Pos
        /\ \A d \in Blocks, s \in Slots :
              IF d = p.blk /\ s = p.slot THEN ~Normal(d, s)' ELSE item'[d][s] = item[d][s]
    BY <1>4, <2>1, DeleteEffect
  <2>3. ~item[b][c].crc => ~Normal(b, c)'
    BY <1>2, <1>3, <2>1, <2>2 DEF Recovered, In
  <2>4. ASSUME NEW s \in Slots, Normal(b, s)', item[b][c].crc, item[b][c].origin_off = In(b, s)
        PROVE  FALSE
    <3>1. p = In(b, s)
      BY <1>3, <2>1, <2>4 DEF Recovered
    <3>2. QED
      BY <2>2, <2>4, <3>1 DEF In
  <2>5. QED
    BY <1>2, <1>3, <2>2, <2>3, <2>4
<1>7. QED
  BY <1>5, <1>6 DEF BootRecover

LEMMA RecoverReads ==
    ASSUME NEW b \in Blocks, NEW c \in Slots, ReadUpTo(b, c), Paired(b), Normal(b, c),
           \A s \in Slots : item'[b][s] = item[b][s] \/ ~Normal(b, s)',
           ~item[b][c].crc => ~Normal(b, c)',
           item[b][c].crc => \A s \in Slots :
              s # c /\ Normal(b, s)' /\ item[b][s].key = item[b][c].key
                  => item[b][c].origin_off # In(b, s)
    PROVE  ReadUpTo(b, c + 1)'
<1>1. \A s \in Slots : Normal(b, s)' => Normal(b, s) /\ item'[b][s] = item[b][s]
  BY DEF Normal, IsItem
<1>2. \A s \in Slots : Good(b, s)' => Good(b, s) /\ item'[b][s] = item[b][s] /\ Normal(b, s)'
  BY <1>1 DEF Good
<1>3. \A s \in Slots : s < c + 1 <=> s < c \/ s = c
  BY InSlots
<1>4. \A s \in Slots : s < c + 1 /\ Normal(b, s)' => item'[b][s].crc
  BY <1>1, <1>3 DEF ReadUpTo
<1>5. ASSUME NEW s \in Slots, NEW u \in Slots, s < u, s < c + 1, Normal(b, s)', Good(b, u)', SameKey(b, s, u)'
      PROVE  u >= c + 1 /\ item'[b][s].origin_off # In(b, u)
  <2>1. /\ Normal(b, s) /\ Good(b, u) /\ SameKey(b, s, u) /\ Normal(b, u)'
        /\ item'[b][s] = item[b][s] /\ item'[b][u] = item[b][u]
    BY <1>1, <1>2, <1>5 DEF SameKey
  <2>2. CASE s < c
    <3>1. u >= c /\ item[b][s].origin_off # In(b, u) /\ item[b][s].crc
      BY <1>5, <2>1, <2>2 DEF ReadUpTo, In
    <3>2. u # c
      <4>1. SUFFICES ASSUME u = c PROVE FALSE
        OBVIOUS
      <4>2. item[b][c].origin_off = In(b, s) /\ item[b][c].crc
        BY <1>5, <2>1, <3>1, <4>1 DEF Paired, Good, In
      <4>3. item[b][s].key = item[b][c].key /\ s # c
        BY <1>5, <2>1, <4>1, InSlots DEF SameKey
      <4>4. QED
        BY <1>5, <4>2, <4>3
    <3>3. QED
      BY <2>1, <3>1, <3>2, InSlots
  <2>3. CASE s = c
    <3>1. item[b][c].crc /\ item[b][u].key = item[b][c].key
      BY <1>5, <2>1, <2>3 DEF SameKey
    <3>2. item[b][c].origin_off # In(b, u)
      BY <1>5, <2>1, <2>3, <3>1, InSlots
    <3>3. QED
      BY <1>5, <2>1, <2>3, <3>2, InSlots
  <2>4. QED
    BY <1>3, <1>5, <2>2, <2>3
<1>6. QED
  BY <1>4, <1>5 DEF ReadUpTo, In

\* A block of a start that a step neither writes nor reads further.
ReadBlock(b) == Live(b) => /\ Paired(b)
                           /\ blk_state[b] # "NONE" => ReadUpTo(b, ReadTo(b))

LEMMA SingleInBoot ==
    ASSUME pc' \in BootPCs, \A b \in Blocks : ReadBlock(b)'
    PROVE  Single'
BY DEF Single, ReadBlock, ReadTo, RunPCs, BootPCs

LEMMA ReadBlocks ==
    ASSUME Single, pc \in BootPCs, NEW b \in Blocks
    PROVE  ReadBlock(b)
BY DEF Single, ReadBlock, ReadTo

LEMMA ReadBlockSame ==
    ASSUME NEW b \in Blocks, ReadBlock(b), Live(b)' => Live(b),
           blk_state'[b] # "NONE" => blk_state[b] # "NONE", UNCHANGED ReadTo(b),
           \A s \in Slots : item'[b][s] = item[b][s] \/ ~Normal(b, s)'
    PROVE  ReadBlock(b)'
<1>1. SUFFICES ASSUME Live(b)' PROVE Paired(b)' /\ (blk_state'[b] # "NONE" => ReadUpTo(b, ReadTo(b))')
  BY DEF ReadBlock
<1>2. Paired(b)'
  BY <1>1, PairedThinned DEF ReadBlock, Good
<1>3. ASSUME blk_state'[b] # "NONE" PROVE ReadUpTo(b, ReadTo(b))'
  <2>1. PICK c : c = ReadTo(b) /\ c = ReadTo(b)'
    OBVIOUS
  <2>2. ReadUpTo(b, c)
    BY <1>1, <1>3, <2>1 DEF ReadBlock
  <2>3. ReadUpTo(b, c)'
    BY <2>2, ReadThinned
  <2>4. QED
    BY <2>1, <2>3
<1>4. QED
  BY <1>2, <1>3

LEMMA SingleStart ==
    ASSUME IInv, Single, PowerOn \/ BootRead \/ ScanErase \/ ScanHeader
    PROVE  Single'
<1> USE DEF IInv
<1>1. CASE PowerOn
  <2>1. /\ pc' \in BootPCs /\ UNCHANGED <<hdr, item, blk_state>>
        /\ \A b \in Blocks : blk_state[b] = "NONE"
    BY <1>1 DEF PowerOn, BootPCs, flash, ram, Starting
  <2>2. \A b \in Blocks : Live(b)' => Paired(b)'
    <3>1. \A b \in Blocks : Live(b)' => Paired(b)
      BY <2>1 DEF Single, Live
    <3>2. \A b \in Blocks : Paired(b) => Paired(b)'
      BY <2>1, PairedThinned
    <3>3. QED
      BY <3>1, <3>2
  <2>3. QED
    BY <2>1, <2>2, SingleInBoot DEF ReadBlock
<1>2. PICK c \in Blocks : c = cur.blk
  BY DEF TypeOK
<1>3. CASE BootRead
  <2>1. pc = "boot_read" /\ pc' \in BootPCs /\ UNCHANGED <<hdr, item, cur>> /\ cur = Start(c)
    BY <1>2, <1>3 DEF BootRead, BootPCs, flash, Starting
  <2>2. ASSUME NEW b \in Blocks PROVE ReadBlock(b)'
    <3>1. ReadTo(b)' = ReadTo(b)
      BY <1>3, <2>1 DEF BootRead, ReadTo, Scanned, ScanPCs
    <3>2. CASE b # c
      <4>1. blk_state'[b] = blk_state[b]
        BY <1>2, <1>3, <3>2 DEF BootRead, SetState, TypeOK
      <4>2. QED
        BY <2>1, <3>1, <4>1, ReadBlocks, ReadBlockSame DEF BootPCs, Live
    <3>3. CASE b = c
      <4>1. ReadTo(b)' = 1
        BY <2>1, <3>1, <3>3, ConstantsAssumption DEF ReadTo, Scanned, ScanPCs, Start, Blocks
      <4>2. ReadUpTo(b, 1)'
        BY InSlots DEF ReadUpTo, Slots
      <4>3. Live(b)' => Paired(b)'
        <5>1. Live(b)' => Paired(b)
          BY <2>1 DEF Single, Live
        <5>2. Paired(b) => Paired(b)'
          BY <2>1, PairedThinned
        <5>3. QED
          BY <5>1, <5>2
      <4>4. QED
        BY <4>1, <4>2, <4>3 DEF ReadBlock
    <3>4. QED
      BY <3>2, <3>3
  <2>3. QED
    BY <2>1, <2>2, SingleInBoot
<1>4. CASE ScanErase \/ ScanHeader
  <2>1. /\ pc \in {"boot_read", "scan_erase", "scan_header"} /\ pc \in BootPCs /\ pc' \in BootPCs
        /\ ~Live(c)'
        /\ \A b \in Blocks : b # c => hdr'[b] = hdr[b] /\ blk_state'[b] = blk_state[b]
        /\ \A b \in Blocks, s \in Slots : b # c => item'[b][s] = item[b][s]
    <3>1. CASE ScanErase
      BY <1>2, <3>1, EraseEffect DEF ScanErase, BootPCs, ram, Live
    <3>2. CASE ScanHeader
      BY <1>2, <3>2 DEF ScanHeader, WriteCleanHeader, SetHeader, SetState, TypeOK, BootPCs, NextBlock, Live
    <3>3. QED
      BY <1>4, <3>1, <3>2
  <2>2. ASSUME NEW b \in Blocks, b # c PROVE ReadBlock(b)'
    <3>1. blk_state[b] # "NONE" => Scanned(b)
      BY <1>2, <1>4, <2>2 DEF Starting, BootPCs, Unread, ScanErase, ScanHeader
    <3>2. Scanned(b) => Scanned(b)'
      BY <1>2, <1>4 DEF ScanErase, ScanHeader, NextBlock, Scanned, ScanPCs, Blocks, Start, context
    <3>3. CASE blk_state[b] # "NONE"
      <4>1. ReadTo(b)' = ReadTo(b)
        BY <3>1, <3>2, <3>3 DEF ReadTo
      <4>2. QED
        BY <2>1, <2>2, <4>1, ReadBlocks, ReadBlockSame DEF Live
    <3>4. CASE blk_state[b] = "NONE"
      <4>1. Live(b)' => Paired(b)
        BY <2>1, <2>2 DEF Single, Live
      <4>2. Paired(b) => Paired(b)'
        BY <2>1, <2>2, PairedThinned
      <4>3. QED
        BY <2>1, <2>2, <3>4, <4>1, <4>2 DEF ReadBlock
    <3>5. QED
      BY <3>3, <3>4
  <2>3. ReadBlock(c)'
    BY <2>1 DEF ReadBlock
  <2>4. QED
    BY <2>1, <2>2, <2>3, SingleInBoot
<1>5. QED
  BY <1>1, <1>3, <1>4

\* The block at the cursor, read one record further.
LEMMA ReadOn ==
    ASSUME IInv, Single, pc = "boot_item", pc' \in {"boot_item", "boot_mark"},
           NEW b \in Blocks, NEW c \in Slots, cur = In(b, c), cur' = In(b, c + 1),
           \A d \in Blocks : Live(d)' => Live(d),
           \A d \in Blocks : blk_state'[d] # "NONE" => blk_state[d] # "NONE",
           \A d \in Blocks, s \in Slots : item'[d][s] = item[d][s] \/ ~Normal(d, s)',
           ReadUpTo(b, c) => ReadUpTo(b, c + 1)'
    PROVE  Single'
<1> USE DEF IInv
<1>1. cur.blk = b /\ cur.slot = c /\ cur'.blk = b /\ cur'.slot = c + 1
  BY DEF In
<1>2. ASSUME NEW d \in Blocks, d # b PROVE ReadBlock(d)'
  <2>1. Scanned(d)' <=> Scanned(d)
    BY <1>1 DEF Scanned, ScanPCs
  <2>2. ~Scanned(d) => blk_state[d] = "NONE"
    BY <1>1, <1>2 DEF Starting, BootPCs, Unread
  <2>3. CASE Scanned(d)
    <3>1. ReadTo(d)' = ReadTo(d)
      BY <2>1, <2>3 DEF ReadTo
    <3>2. QED
      BY <3>1, ReadBlocks, ReadBlockSame DEF BootPCs
  <2>4. CASE ~Scanned(d)
    <3>1. blk_state'[d] = "NONE"
      BY <2>2, <2>4
    <3>2. Live(d)' => Paired(d)
      BY DEF Single
    <3>3. Paired(d) => Paired(d)'
      BY PairedThinned DEF Good
    <3>4. QED
      BY <3>1, <3>2, <3>3 DEF ReadBlock
  <2>5. QED
    BY <2>3, <2>4
<1>3. ReadBlock(b)'
  <2>1. ReadTo(b) = c /\ ReadTo(b)' = c + 1
    BY <1>1, ConstantsAssumption DEF ReadTo, Scanned, ScanPCs, Blocks
  <2>2. SUFFICES ASSUME Live(b)' PROVE Paired(b)' /\ (blk_state'[b] # "NONE" => ReadUpTo(b, c + 1)')
    BY <2>1 DEF ReadBlock
  <2>3. ReadBlock(b) /\ Live(b)
    BY <2>2, ReadBlocks DEF BootPCs
  <2>4. Paired(b)'
    BY <2>3, PairedThinned DEF ReadBlock, Good
  <2>5. blk_state[b] # "NONE" => ReadUpTo(b, c)
    BY <2>1, <2>3 DEF ReadBlock
  <2>6. QED
    BY <2>4, <2>5
<1>4. QED
  BY <1>2, <1>3, SingleInBoot DEF BootPCs

LEMMA MarkingInBoot ==
    ASSUME IInv, BootMark \/ BootPass
    PROVE  /\ \A d \in Blocks : Live(d)' => Live(d)
           /\ \A d \in Blocks : blk_state'[d] # "NONE" => blk_state[d] # "NONE"
<1>1. \A b \in Blocks : \/ hdr'[b] = hdr[b] /\ blk_state'[b] = blk_state[b]
                        \/ blk_state[b] = "USED"
  BY DEF BootMark, MarkOld, SetHeader, SetState, OldRecord, Pos, IInv, TypeOK, BootPass, PassInvalid, MarkDirty
<1>2. QED
  BY <1>1, UsedIsKnown DEF Live, BootMark, BootPass

\* What makes the recovery of a block right: a later record of a key is an
\* update of the earlier one, in a CLEAN block with records too.
Orderly == \A b \in Blocks : hdr[b] \in BlkStates => Paired(b)

LEMMA ReservedOrderly == ASSUME Reserved, Single, ~Copying PROVE Orderly
<1>1. SUFFICES ASSUME NEW b \in Blocks, hdr[b] \in BlkStates PROVE Paired(b)
  BY DEF Orderly
<1>2. CASE Live(b)
  BY <1>2 DEF Single
<1>3. CASE hdr[b] = "CLEAN"
  BY <1>3, EmptyHasOne DEF Reserved
<1>4. QED
  BY <1>1, <1>2, <1>3 DEF Live, BlkStates

LEMMA SingleRecovery ==
    ASSUME IInv, Orderly, Single, BootRecover \/ BootMark \/ BootPass \/ BootNextBlock
    PROVE  Single'
<1> USE DEF IInv
<1>1. CASE BootRecover
  <2>1. PICK b \in Blocks, c \in Slots :
              /\ cur = In(b, c) /\ cur' = In(b, c + 1) /\ Normal(b, c)
              /\ \A d \in Blocks, s \in Slots : item'[d][s] = item[d][s] \/ ~Normal(d, s)'
              /\ ~item[b][c].crc => ~Normal(b, c)'
              /\ item[b][c].crc => \A s \in Slots :
                    s # c /\ Normal(b, s)' /\ item[b][s].key = item[b][c].key
                        => item[b][c].origin_off # In(b, s)
    BY <1>1, RecoverEffect
  <2>2. /\ pc = "boot_item" /\ pc' \in {"boot_item", "boot_mark"} /\ UNCHANGED <<hdr, blk_state>>
    BY <1>1 DEF BootRecover, AfterDelete, ram
  <2>3. Paired(b)
    <3>1. cur.blk = b
      BY <2>1 DEF In
    <3>2. Unread(b)
      BY <2>2, <3>1, ConstantsAssumption DEF Starting, BootPCs, Scanned, ScanPCs, Blocks
    <3>3. hdr[b] \in BlkStates
      BY <2>2, <3>1, <3>2 DEF Unread, Known
    <3>4. QED
      BY <3>3 DEF Orderly
  <2>4. ReadUpTo(b, c) => ReadUpTo(b, c + 1)'
    BY <2>1, <2>3, RecoverReads
  <2>5. \A d \in Blocks : Live(d)' => Live(d)
    BY <2>2 DEF Live
  <2>6. QED
    BY <2>1, <2>2, <2>4, <2>5, ReadOn
<1>2. CASE BootMark
  <2>1. pc = "boot_mark" /\ pc' = "boot_item" /\ UNCHANGED <<item, cur>>
    BY <1>2 DEF BootMark
  <2>2. \A b \in Blocks : ReadTo(b)' = ReadTo(b)
    BY <2>1 DEF ReadTo, Scanned, ScanPCs
  <2>3. \A b \in Blocks : ReadBlock(b)'
    BY <1>2, <2>1, <2>2, MarkingInBoot, ReadBlocks, ReadBlockSame DEF BootPCs
  <2>4. QED
    BY <2>1, <2>3, SingleInBoot DEF BootPCs
<1>3. CASE BootPass
  <2>1. pc = "boot_item" /\ pc' = pc /\ UNCHANGED item /\ ~AtEnd /\ ~Normal(cur.blk, cur.slot) /\ NextRecord
    BY <1>3 DEF BootPass, PassInvalid
  <2>2. PICK b \in Blocks, c \in Slots : cur = In(b, c) /\ cur' = In(b, c + 1)
    BY <2>1, CursorPlace
  <2>3. ~Normal(b, c)
    BY <2>1, <2>2 DEF In
  <2>4. ReadUpTo(b, c) => ReadUpTo(b, c + 1)
    <3>1. \A s \in Slots : s < c + 1 /\ Normal(b, s) => s < c
      BY <2>3, InSlots
    <3>2. \A u \in Slots : u >= c /\ Good(b, u) => u >= c + 1
      BY <2>3, InSlots DEF Good
    <3>3. QED
      BY <3>1, <3>2 DEF ReadUpTo
  <2>5. ReadUpTo(b, c + 1) => ReadUpTo(b, c + 1)'
    BY <2>1, ReadThinned
  <2>6. QED
    BY <1>3, <2>1, <2>2, <2>4, <2>5, MarkingInBoot, ReadOn
<1>4. CASE BootNextBlock
  <2>1. PICK b \in Blocks : b = cur.blk
    BY DEF TypeOK
  <2>2. /\ pc = "boot_item" /\ pc' \in BootPCs /\ UNCHANGED <<hdr, item, blk_state>> /\ AtEnd
        /\ NextBlock
    BY <1>4 DEF BootNextBlock, NextBlock, BootPCs, flash
  <2>3. ASSUME NEW d \in Blocks PROVE ReadBlock(d)'
    <3>1. SUFFICES ASSUME Live(d), blk_state[d] # "NONE" PROVE Paired(d)' /\ ReadUpTo(d, Cap + 1)'
      <4>1. Live(d)' => Paired(d)
        BY <2>2 DEF Single, Live
      <4>2. Paired(d) => Paired(d)'
        BY <2>2, PairedThinned
      <4>3. blk_state[d] # "NONE" => Scanned(d)'
        BY <2>1, <2>2 DEF Starting, BootPCs, Unread, NextBlock, Scanned, ScanPCs, Blocks, Start
      <4>4. QED
        BY <2>2, <3>1, <4>1, <4>2, <4>3 DEF ReadBlock, ReadTo, Live
    <3>2. Paired(d) /\ ReadUpTo(d, ReadTo(d))
      BY <2>2, <3>1, ReadBlocks DEF BootPCs, ReadBlock
    <3>3. ReadUpTo(d, Cap + 1)
      <4>1. CASE Scanned(d)
        BY <3>2, <4>1 DEF ReadTo
      <4>2. CASE ~Scanned(d)
        <5>1. d = b
          BY <2>1, <2>2, <3>1, <4>2 DEF Starting, BootPCs, Unread
        <5>2. PICK e \in 1..Cap : Filled(b, e) /\ e = cur.slot
          BY <2>1, <2>2, ContiguousEnd DEF AtEnd
        <5>3. ReadUpTo(b, e)
          BY <3>2, <4>2, <5>1, <5>2 DEF ReadTo
        <5>4. QED
          BY <5>1, <5>2, <5>3, ReadToEnd DEF One
      <4>3. QED
        BY <4>1, <4>2
    <3>4. QED
      BY <2>2, <3>2, <3>3, ReadThinned, PairedThinned
  <2>4. QED
    BY <2>2, <2>3, SingleInBoot
<1>5. QED
  BY <1>1, <1>2, <1>3, <1>4

LEMMA SingleBootDone ==
    ASSUME IInv, Reserved, Single, BootDone
    PROVE  Single'
<1> USE DEF IInv
<1>1. pc = "boot_unclean" /\ pc' = "idle" /\ UNCHANGED item
  BY DEF BootDone
<1>2. ASSUME NEW b \in Blocks, Live(b)' PROVE One(b)
  <2>1. blk_state[b] # "NONE" /\ Scanned(b)
    BY <1>1, AllScanned DEF Ready, Known, BlkStates
  <2>2. CASE Live(b)
    BY <1>1, <2>1, <2>2 DEF Single, BootPCs, One
  <2>3. CASE ~Live(b)
    <3>1. hdr[b] \in BlkStates
      BY <1>1, AllScanned DEF Ready, Known
    <3>2. Filled(b, 1)
      BY <1>1, <2>3, <3>1 DEF Reserved, Live, BlkStates, Copying, GcPCs
    <3>3. QED
      BY <3>2, EmptyHasOne DEF One
  <2>4. QED
    BY <2>2, <2>3
<1>3. \A b \in Blocks : One(b) => One(b)'
  BY <1>1, ReadThinned DEF One
<1>4. QED
  BY <1>1, <1>2, <1>3, SingleServed DEF RunPCs

-----------------------------------------------------------------------------
(* MapInv is inductive: a collection copies each record *)

\* What the records of block b are, when those of block a before slot c have
\* been copied to it.
CopiedTo(a, b, c) ==
    /\ One(a)
    /\ \A s \in Slots : s < c /\ Normal(a, s) => \E u \in Slots : item[b][u] = item[a][s]
    /\ \A u \in Slots : Normal(b, u) => \E s \in Slots : s < c /\ item[b][u] = item[a][s]
Complete(a, c) == \A s \in Slots : Normal(a, s) => s < c
CopiedRule ==
    \A a, b \in Blocks :
        /\ Copying /\ a = cur.blk /\ b = Other(a) /\ One(b)
        /\ pc \in {"gc_copy", "gc_erase"} => CopiedTo(a, b, cur.slot)
        /\ pc = "gc_erase" => Complete(a, cur.slot)
        => Copied
LEMMA CopiedIs == CopiedRule
BY DEF CopiedRule, CopiedTo, Complete, Copied
LEMMA CopiedIsNext == CopiedRule'
BY CopiedIs, PTL

LEMMA CopiedHas ==
    ASSUME Copied, Copying, NEW a \in Blocks, NEW b \in Blocks, a = cur.blk, b = Other(a)
    PROVE  /\ One(b)
           /\ pc \in {"gc_copy", "gc_erase"} => CopiedTo(a, b, cur.slot)
           /\ pc = "gc_erase" => Complete(a, cur.slot)
BY DEF CopiedTo, Complete, Copied

LEMMA CopiedSame ==
    ASSUME NEW a \in Blocks, NEW b \in Blocks, NEW c, CopiedTo(a, b, c), UNCHANGED item
    PROVE  CopiedTo(a, b, c)'
<1>1. One(a)'
  BY ReadThinned DEF CopiedTo, One
<1>2. QED
  BY <1>1 DEF CopiedTo, Normal, IsItem

\* The two blocks of a collection.
LEMMA CopyPlace ==
    ASSUME IInv, Copying
    PROVE  \E a, b \in Blocks : /\ a = cur.blk /\ b = Other(a) /\ a # b /\ a = Other(b)
                                /\ hdr[b] = "CLEAN" /\ ~Live(b)
                                /\ \E s \in Slots : /\ Behind(b, s)
                                                    /\ \A t \in Slots : IsItem(b, t) => t < s
<1>1. PICK a \in Blocks, b \in Blocks : a = cur.blk /\ b = Other(a) /\ a # b /\ a = Other(b)
  BY OthersBlock DEF IInv, TypeOK
<1>2. hdr[b] = "CLEAN" /\ \E s \in 1..Cap : Behind(b, s)
  BY <1>1 DEF IInv, Collecting, Copying
<1>3. PICK s \in Slots : Behind(b, s)
  BY <1>2 DEF Slots
<1>4. \A t \in Slots : IsItem(b, t) => t < s
  BY <1>3, FilledRecords DEF Behind, Slots
<1>5. QED
  BY <1>1, <1>2, <1>3, <1>4 DEF Live

LEMMA CopiedStart ==
    ASSUME IInv, Single, GcStart
    PROVE  Copied'
<1> USE DEF IInv
<1>1. pc = "gc_start" /\ Copying' /\ pc' = "gc_copy" /\ UNCHANGED <<hdr, item>> /\ blk_state = hdr
  BY DEF GcStart, Copying, GcPCs, flash, Running, RunPCs
<1>2. PICK a \in Blocks : cur' = Start(a) /\ hdr[a] = "DIRTY"
  BY <1>1 DEF GcStart, GcSources
<1>3. PICK b \in Blocks : b = Other(a) /\ b # a
  BY OthersBlock
<1>4. Filled(b, 1)
  <2>1. PICK c \in Blocks : hdr[c] \in {"USED", "DIRTY"} /\ hdr[Other(c)] = "CLEAN" /\ Empty(Other(c))
    BY <1>1 DEF Running, RunPCs
  <2>2. Other(c) = b
    BY <1>2, <1>3, <2>1, OthersBlock
  <2>3. QED
    BY <2>1, <2>2 DEF Empty
<1>5. One(b)'
  BY <1>1, <1>4, EmptyHasOne, ReadThinned DEF One
<1>6. One(a)'
  <2>1. One(a)
    BY <1>1, <1>2 DEF Single, RunPCs, Live
  <2>2. QED
    BY <1>1, <2>1, ReadThinned DEF One
<1>7. CopiedTo(a, b, 1)'
  <2>1. \A u \in Slots : ~Normal(b, u)'
    BY <1>1, <1>4, InSlots DEF Filled, Normal, IsItem, Slots
  <2>2. \A u \in Slots : ~(u < 1)
    BY DEF Slots
  <2>3. QED
    BY <1>6, <2>1, <2>2 DEF CopiedTo
<1>8. cur'.blk = a /\ cur'.slot = 1
  BY <1>2 DEF Start
<1>9. QED
  BY <1>1, <1>3, <1>5, <1>7, <1>8, CopiedIsNext DEF CopiedRule

LEMMA CopiedCopy ==
    ASSUME IInv, Copied, GcCopy
    PROVE  Copied'
<1> USE DEF IInv
<1>1. /\ pc = "gc_copy" /\ Copying /\ Copying' /\ ~AtEnd /\ Normal(cur.blk, cur.slot) /\ pc' = pc
      /\ WriteItem(write_pos, At(cur)) /\ NextRecord
  BY DEF GcCopy, Copying, GcPCs
<1>2. PICK a \in Blocks, c \in Slots : cur = In(a, c) /\ cur' = In(a, c + 1)
  BY <1>1, CursorPlace
<1>3. a = cur.blk /\ c = cur.slot /\ cur'.blk = a /\ cur'.slot = c + 1 /\ At(cur) = item[a][c] /\ Normal(a, c)
  BY <1>1, <1>2 DEF In, At
<1>4. PICK b \in Blocks, s \in Slots :
         /\ b = Other(a) /\ a # b /\ Behind(b, s) /\ \A t \in Slots : IsItem(b, t) => t < s
  BY <1>1, <1>3, CopyPlace
<1>5. PICK i : i = item[a][c]
  OBVIOUS
<1>6. /\ \A d \in Blocks, t \in Slots : item'[d][t] = IF d = b /\ t = s THEN i ELSE item[d][t]
      /\ item[b][s] = Erased
  BY <1>1, <1>3, <1>4, <1>5, WriteEffect
<1>7. One(a) /\ One(b) /\ CopiedTo(a, b, c)
  BY <1>1, <1>3, <1>4, CopiedHas DEF CopiedTo
<1>8. One(b)'
  <2>1. i.crc
    BY <1>3, <1>5, <1>7, OneSaid
  <2>2. ASSUME NEW t \in Slots, Normal(b, t), item[b][t].key = i.key PROVE FALSE
    <3>1. PICK s1 \in Slots : s1 < c /\ item[b][t] = item[a][s1]
      BY <1>7, <2>2 DEF CopiedTo
    <3>2. Normal(a, s1) /\ SameKey(a, s1, c)
      BY <1>5, <2>2, <3>1 DEF Normal, IsItem, SameKey
    <3>3. QED
      BY <1>3, <1>7, <3>1, <3>2, OneSaid
  <2>3. item'[b][s] = i /\ \A t \in Slots : t # s => item'[b][t] = item[b][t]
    BY <1>6
  <2>4. QED
    BY <1>4, <1>7, <2>1, <2>2, <2>3, OneWritten
<1>9. \A t \in Slots : item'[a][t] = item[a][t] /\ (Normal(a, t)' <=> Normal(a, t))
  BY <1>4, <1>6 DEF Normal, IsItem
<1>10. CopiedTo(a, b, c + 1)'
  <2>1. One(a)'
    BY <1>7, <1>9, ReadThinned DEF One
  <2>2. ASSUME NEW t \in Slots, t < c + 1, Normal(a, t)' PROVE \E u \in Slots : item'[b][u] = item'[a][t]
    <3>1. CASE t = c
      BY <1>5, <1>6, <1>9, <3>1
    <3>2. CASE t # c
      <4>1. t < c /\ Normal(a, t)
        BY <1>9, <2>2, <3>2, InSlots
      <4>2. PICK u \in Slots : item[b][u] = item[a][t]
        BY <1>7, <4>1 DEF CopiedTo
      <4>3. u # s
        BY <1>6, <4>1, <4>2 DEF Normal, IsItem
      <4>4. QED
        BY <1>6, <1>9, <4>2, <4>3
    <3>3. QED
      BY <3>1, <3>2
  <2>3. ASSUME NEW u \in Slots, Normal(b, u)' PROVE \E t \in Slots : t < c + 1 /\ item'[b][u] = item'[a][t]
    <3>1. CASE u = s
      BY <1>5, <1>6, <1>9, <3>1, InSlots
    <3>2. CASE u # s
      <4>1. Normal(b, u) /\ item'[b][u] = item[b][u]
        BY <1>6, <2>3, <3>2 DEF Normal, IsItem
      <4>2. PICK t \in Slots : t < c /\ item[b][u] = item[a][t]
        BY <1>7, <4>1 DEF CopiedTo
      <4>3. t < c + 1
        BY <4>2, InSlots
      <4>4. QED
        BY <1>9, <4>1, <4>2, <4>3
    <3>3. QED
      BY <3>1, <3>2
  <2>4. QED
    BY <2>1, <2>2, <2>3 DEF CopiedTo
<1>11. QED
  BY <1>1, <1>3, <1>4, <1>8, <1>10, CopiedIsNext DEF CopiedRule

LEMMA CopiedSteps ==
    ASSUME IInv, Single, Copied, [Next]_vars
    PROVE  Copied'
<1> USE DEF IInv
<1>1. SUFFICES ASSUME Copying', ~GcStart, ~GcCopy PROVE Copied'
  BY CopiedStart, CopiedCopy DEF Copied, Copying, GcPCs
<1>2. /\ Copying
      /\ GcPass \/ GcCopied \/ GcErase \/ GcHeader \/ UNCHANGED vars
  <2>1. pc' \in {"gc_copy", "gc_erase", "gc_header", "gc_used"}
    BY <1>1 DEF Copying, GcPCs
  <2>2. CASE Calls
    BY <2>1, <2>2 DEF Calls, CallSet, CallGet, CallDel, CallDelMatching, CallFactory, Call
  <2>3. CASE Boot
    BY <2>1, <2>3 DEF Boot, PowerOn, BootRead, ScanErase, ScanHeader, BootRecover, BootMark, BootPass,
       BootNextBlock, BootKeep, BootDrop, LastErase, LastHeader, BootDone, NextBlock, AfterDelete
  <2>4. CASE Op
    BY <2>1, <2>4 DEF Op, FindHit, FindMiss, Store, StoreNoSpace, DelItem, MarkItemBlock, BulkDelete,
       BulkMark, BulkPass, BulkNextBlock, Factory0, Factory1, Return, AfterOp, AfterDelete
  <2>5. CASE Failure
    BY <2>1, <2>5 DEF Failure, Crash, CutStore, CutCopy, PowerLoss
  <2>6. CASE Gc
    BY <1>1, <2>1, <2>6 DEF Gc, GcSkip, GcPass, GcCopied, GcErase, GcHeader, GcUsed, Copying, GcPCs
  <2>7. CASE UNCHANGED vars
    BY <1>1, <2>7 DEF vars, Copying
  <2>8. QED
    BY <2>2, <2>3, <2>4, <2>5, <2>6, <2>7 DEF Next, Step
<1>3. PICK a \in Blocks, b \in Blocks : a = cur.blk /\ b = Other(a) /\ a # b
  BY <1>2, CopyPlace
<1>4. One(b) /\ (pc \in {"gc_copy", "gc_erase"} => CopiedTo(a, b, cur.slot))
      /\ (pc = "gc_erase" => Complete(a, cur.slot))
  BY <1>2, <1>3, CopiedHas
<1>5. One(b)'
  <2>1. \A s \in Slots : item'[b][s] = item[b][s]
    BY <1>2, <1>3, EraseEffect DEF GcPass, GcCopied, GcErase, GcHeader, flash, vars
  <2>2. QED
    BY <1>4, <2>1, ReadThinned DEF One
<1>6. CASE GcErase \/ GcHeader
  <2>1. pc' \in {"gc_header", "gc_used"} /\ cur'.blk = a
    BY <1>3, <1>6 DEF GcErase, GcHeader, context
  <2>2. QED
    BY <1>1, <1>3, <1>5, <2>1, CopiedIsNext DEF CopiedRule
<1>7. CASE GcPass
  <2>1. pc = "gc_copy" /\ pc' = "gc_copy" /\ UNCHANGED item /\ ~AtEnd /\ NextRecord /\ ~Normal(cur.blk, cur.slot)
    BY <1>7 DEF GcPass, PassInvalid
  <2>2. PICK c \in Slots : cur.slot = c /\ cur'.slot = c + 1 /\ cur'.blk = a
    BY <1>3, <2>1, CursorPlace DEF In
  <2>3. CopiedTo(a, b, c)'
    BY <1>4, <2>1, <2>2, CopiedSame
  <2>4. \A s \in Slots : (s < c + 1 /\ Normal(a, s)' => s < c) /\ (s < c => s < c + 1)
    BY <1>3, <2>1, <2>2, InSlots DEF Normal, IsItem
  <2>5. CopiedTo(a, b, c + 1)'
    BY <2>3, <2>4 DEF CopiedTo
  <2>6. QED
    BY <1>1, <1>3, <1>5, <2>1, <2>2, <2>5, CopiedIsNext DEF CopiedRule
<1>8. CASE GcCopied
  <2>1. pc = "gc_copy" /\ pc' = "gc_erase" /\ UNCHANGED <<item, cur>> /\ AtEnd
    BY <1>8 DEF GcCopied, flash
  <2>2. CopiedTo(a, b, cur.slot)'
    BY <1>4, <2>1, CopiedSame
  <2>3. Complete(a, cur.slot)'
    <3>1. PICK e \in 1..Cap : Filled(a, e) /\ e = cur.slot
      BY <1>3, <2>1, ContiguousEnd DEF AtEnd
    <3>2. \A s \in Slots : Normal(a, s) => s < e
      BY <3>1, FilledRecords DEF Normal
    <3>3. QED
      BY <2>1, <3>1, <3>2 DEF Complete, Normal, IsItem
  <2>4. cur'.blk = a /\ cur'.slot = cur.slot
    BY <1>3, <2>1
  <2>5. QED
    BY <1>1, <1>3, <1>5, <2>1, <2>2, <2>3, <2>4, CopiedIsNext DEF CopiedRule
<1>9. CASE UNCHANGED vars
  <2>1. UNCHANGED <<pc, item, cur>>
    BY <1>9 DEF vars, flash, context
  <2>2. pc \in {"gc_copy", "gc_erase"} => CopiedTo(a, b, cur.slot)'
    BY <1>4, <2>1, CopiedSame
  <2>3. pc = "gc_erase" => Complete(a, cur.slot)'
    BY <1>4, <2>1 DEF Complete, Normal, IsItem
  <2>4. QED
    BY <1>1, <1>3, <1>5, <2>1, <2>2, <2>3, CopiedIsNext DEF CopiedRule
<1>10. QED
  BY <1>2, <1>6, <1>7, <1>8, <1>9

LEMMA SingleGc ==
    ASSUME IInv, IInv', Single, Copied, Copied', Gc
    PROVE  Single'
<1> USE DEF IInv
<1>1. CASE GcSkip
  BY <1>1, SingleThinned DEF GcSkip, flash, RunPCs, Live
<1>2. CASE GcUsed
  <2>1. PICK a \in Blocks, b \in Blocks : a = cur.blk /\ b = Other(a) /\ a # b
    BY OthersBlock DEF TypeOK
  <2>2. /\ pc = "gc_used" /\ pc' = "return" /\ Copying /\ UNCHANGED item
        /\ hdr[a] = "CLEAN" /\ SetHeader(b, "USED")
    BY <1>2, <2>1 DEF GcUsed, Collecting, Copying, GcPCs, Behind
  <2>3. \A d \in Blocks : Live(d)' => d = b
    BY <2>1, <2>2, OthersBlock DEF SetHeader, TypeOK, Live
  <2>4. One(b)'
    BY <2>1, <2>2, CopiedHas, ReadThinned DEF One
  <2>5. QED
    BY <2>2, <2>3, <2>4, SingleServed DEF RunPCs
<1>3. CASE ~GcSkip /\ ~GcUsed
  <2>1. Copying' /\ pc' \notin RunPCs \cup BootPCs
    BY <1>3 DEF Gc, GcStart, GcCopy, GcPass, GcCopied, GcErase, GcHeader, Copying, GcPCs, RunPCs, BootPCs
  <2>2. PICK a \in Blocks, b \in Blocks : a = cur'.blk /\ b = Other(a)
    BY OthersBlock DEF TypeOK
  <2>3. Live(b)' => One(b)'
    BY <2>1, <2>2 DEF Copied
  <2>4. Live(a)' => One(a)'
    <3>1. CASE pc' \in {"gc_copy", "gc_erase"}
      BY <2>2, <3>1 DEF Copied
    <3>2. CASE pc' \in {"gc_header", "gc_used"}
      BY <2>1, <2>2, <3>2 DEF Collecting, Copying, Live, GcPCs
    <3>3. QED
      BY <2>1, <3>1, <3>2 DEF Copying, GcPCs
  <2>5. \A d \in Blocks : Live(d)' => Paired(d)'
    BY <2>2, <2>3, <2>4, OthersBlock, OneIsPairedNext DEF OneRule
  <2>6. QED
    BY <2>1, <2>5 DEF Single
<1>4. QED
  BY <1>1, <1>2, <1>3

LEMMA CutStoreEffect ==
    ASSUME IInv, CutStore
    PROVE  \E b \in Blocks, s \in Slots :
              /\ Live(b)
              /\ \A c \in Blocks, t \in Slots : c # b \/ t # s => item'[c][t] = item[c][t]
              /\ ~Good(b, s)' /\ item[b][s] = Erased
<1>1. pc = "store" /\ \E i \in {Torn, NewItem(FALSE)} : WriteItem(write_pos, i)
  BY DEF CutStore
<1>2. PICK b \in Blocks, s \in Slots : Behind(b, s) /\ Live(b)
  BY <1>1, WritePlace DEF RunPCs
<1>3. PICK i : WriteItem(write_pos, i) /\ (i = Torn \/ ~i.crc)
  BY <1>1 DEF NewItem
<1>4. /\ \A c \in Blocks, t \in Slots :
            item'[c][t] = IF c = b /\ t = s THEN i ELSE item[c][t]
      /\ item[b][s] = Erased
  BY <1>2, <1>3, WriteEffect DEF IInv
<1>5. ~Good(b, s)'
  BY <1>3, <1>4 DEF Good, Normal, IsItem
<1>6. QED
  BY <1>2, <1>4, <1>5

LEMMA CutCopyEffect ==
    ASSUME IInv, CutCopy
    PROVE  \E a, b \in Blocks, c, s \in Slots :
              /\ a = cur.blk /\ b = Other(a) /\ a # b /\ ~Live(b) /\ c = cur.slot /\ Normal(a, c)
              /\ \A d \in Blocks, t \in Slots : d # b \/ t # s => item'[d][t] = item[d][t]
              /\ ~Good(b, s)' /\ item[b][s] = Erased
              /\ Normal(b, s)' => item'[b][s].key = item[a][c].key
<1>1. /\ pc = "gc_copy" /\ ~AtEnd /\ Normal(cur.blk, cur.slot)
      /\ \E i \in {Torn, [At(cur) EXCEPT !.crc = FALSE]} : WriteItem(write_pos, i)
  BY DEF CutCopy
<1>2. PICK a \in Blocks, b \in Blocks, s \in Slots :
         a = cur.blk /\ b = Other(a) /\ a # b /\ ~Live(b) /\ Behind(b, s)
  BY <1>1, CopyPlace DEF Copying, GcPCs
<1>3. PICK c \in Slots : c = cur.slot
  BY <1>1, CursorAdvances
<1>4. item[a][c] = At(cur) /\ item[a][c] \in Item
  BY <1>1, <1>2, <1>3 DEF At, Normal, IsItem, IInv, TypeOK
<1>5. PICK i : WriteItem(write_pos, i) /\ (i = Torn \/ (~i.crc /\ i.key = item[a][c].key))
  BY <1>1, <1>4 DEF Item
<1>6. /\ \A d \in Blocks, t \in Slots : item'[d][t] = IF d = b /\ t = s THEN i ELSE item[d][t]
      /\ item[b][s] = Erased
  BY <1>2, <1>5, WriteEffect DEF IInv
<1>7. ~Good(b, s)' /\ (Normal(b, s)' => item'[b][s].key = item[a][c].key)
  BY <1>5, <1>6 DEF Good, Normal, IsItem
<1>8. QED
  BY <1>1, <1>2, <1>3, <1>6, <1>7

LEMMA SingleFailure ==
    ASSUME IInv, Single, Failure
    PROVE  Single'
<1>1. pc' = "off" /\ UNCHANGED hdr
  BY DEF Failure, Crash, CutStore, CutCopy, PowerLoss, flash
<1>2. \A b \in Blocks, s \in Slots : item'[b][s] = item[b][s] \/ ~Good(b, s)'
  <2>1. CASE Crash
    BY <2>1 DEF Crash, flash
  <2>2. CASE CutStore
    BY <2>2, CutStoreEffect
  <2>3. CASE CutCopy
    BY <2>3, CutCopyEffect
  <2>4. QED
    BY <2>1, <2>2, <2>3 DEF Failure
<1>3. \A b \in Blocks : Live(b)' => Paired(b)'
  <2>1. \A b \in Blocks : Live(b)' => Paired(b)
    BY <1>1 DEF Single, Live
  <2>2. \A b \in Blocks : Paired(b) => Paired(b)'
    BY <1>2, PairedThinned
  <2>3. QED
    BY <2>1, <2>2
<1>4. QED
  BY <1>1, <1>3 DEF Single, RunPCs, BootPCs

LEMMA SingleCalls ==
    ASSUME IInv, Served, Single, Updating, Calls \/ Op
    PROVE  Single'
<1> USE DEF IInv
<1>1. CASE Store
  BY <1>1, SingleStore
<1>2. CASE DelItem
  BY <1>2, SingleDelItem
<1>3. CASE Factory1
  <2>1. pc' \in BootPCs /\ \A b \in Blocks : ~Live(b)'
    BY <1>3 DEF Factory1, Served, SetHeader, TypeOK, Blocks, Live, BootPCs
  <2>2. QED
    BY <2>1, SingleInBoot DEF ReadBlock
<1>4. CASE Factory0
  BY <1>4 DEF Factory0, Single, RunPCs, BootPCs, SetHeader, TypeOK, Live, Paired, Good, Normal, IsItem, SameKey
<1>5. CASE BulkDelete
  <2>1. pc = "bulk" /\ pc' \in RunPCs /\ UNCHANGED hdr /\ ~AtEnd /\ Normal(cur.blk, cur.slot)
    BY <1>5 DEF BulkDelete, AfterDelete, RunPCs
  <2>2. cur \in Pos /\ IsItem(cur.blk, cur.slot)
    BY <2>1, CursorAdvances DEF TypeOK, Pos, Normal
  <2>3. \A b \in Blocks, s \in Slots : item'[b][s] = item[b][s] \/ ~Normal(b, s)'
    <3>1. CASE Delete(cur)
      BY <2>2, <3>1, DeleteEffect
    <3>2. CASE UNCHANGED item
      BY <3>2
    <3>3. QED
      BY <1>5, <3>1, <3>2 DEF BulkDelete
  <2>4. QED
    BY <2>1, <2>3, SingleThinned DEF RunPCs, Live
<1>6. CASE FindHit \/ FindMiss \/ BulkPass
  <2>1. pc \in {"find", "bulk"} /\ pc' \in RunPCs /\ UNCHANGED item
    BY <1>6 DEF FindHit, FindMiss, BulkPass, RunPCs
  <2>2. \A b \in Blocks : hdr'[b] = hdr[b] \/ blk_state[b] = "USED"
    BY <1>6 DEF FindHit, FindMiss, Traverse, BulkPass, PassInvalid, MarkDirty
  <2>3. \A b \in Blocks : Live(b)' => Live(b)
    BY <2>1, <2>2, UsedIsKnown DEF Live, RunPCs
  <2>4. QED
    BY <2>1, <2>3, SingleThinned DEF RunPCs
<1>7. CASE MarkItemBlock \/ BulkMark
  <2>1. pc \in {"mark", "bulk_mark"} /\ pc' \in RunPCs /\ UNCHANGED item
    BY <1>7 DEF MarkItemBlock, BulkMark, AfterOp, RunPCs
  <2>2. \A b \in Blocks : hdr'[b] = hdr[b] \/ blk_state[b] = "USED"
    BY <1>7 DEF MarkItemBlock, BulkMark, MarkOld, SetHeader, OldRecord, Pos, TypeOK
  <2>3. \A b \in Blocks : Live(b)' => Live(b)
    BY <2>1, <2>2, UsedIsKnown DEF Live, RunPCs
  <2>4. QED
    BY <2>1, <2>3, SingleThinned DEF RunPCs
<1>8. CASE Calls \/ StoreNoSpace \/ BulkNextBlock \/ Return
  <2>1. UNCHANGED <<hdr, item>> /\ pc \in {"idle", "store", "bulk", "return"} /\ pc' \in RunPCs
    BY <1>8 DEF Calls, CallSet, CallGet, CallDel, CallDelMatching, CallFactory, Call, StoreNoSpace,
                BulkNextBlock, Return, flash, RunPCs
  <2>2. QED
    BY <2>1, SingleThinned DEF Live, RunPCs
<1>9. QED
  BY <1>1, <1>2, <1>3, <1>4, <1>5, <1>6, <1>7, <1>8 DEF Op

LEMMA SingleSteps ==
    ASSUME IInv, IInv', Served, Reserved, Single, Updating, Copied, Copied', [Next]_vars
    PROVE  Single'
<1>1. CASE Calls \/ Op
  BY <1>1, SingleCalls
<1>2. CASE Gc
  BY <1>2, SingleGc
<1>3. CASE Failure
  BY <1>3, SingleFailure
<1>4. CASE BootKeep \/ BootDrop \/ LastErase \/ LastHeader
  <2>1. CASE BootDrop
    BY <2>1 DEF BootDrop, Single, BootPCs, RunPCs, flash, ram, Live, ReadUpTo, Paired, Normal, IsItem,
                Good, SameKey, Scanned, ScanPCs
  <2>2. QED
    BY <1>4, <2>1 DEF BootKeep, LastErase, LastHeader, Reserved, LastPCs
<1>5. CASE Boot /\ ~(BootKeep \/ BootDrop \/ LastErase \/ LastHeader)
  <2>1. CASE BootRecover \/ BootMark \/ BootPass \/ BootNextBlock
    <3>1. ~Copying
      BY <2>1 DEF BootRecover, BootMark, BootPass, BootNextBlock, Copying, GcPCs
    <3>2. QED
      BY <2>1, <3>1, ReservedOrderly, SingleRecovery
  <2>2. QED
    BY <1>5, <2>1, SingleStart, SingleBootDone DEF Boot
<1>6. CASE UNCHANGED vars
  BY <1>6 DEF vars, Single, Live, ReadUpTo, Paired, Normal, IsItem, Good, SameKey, Scanned, One
<1>7. QED
  BY <1>1, <1>2, <1>3, <1>4, <1>5, <1>6 DEF Next, Step

-----------------------------------------------------------------------------
(* MapInv is inductive: the update and the deletion under way *)

LEMMA MatchPlace ==
    ASSUME IInv, pc \in RunPCs, NEW k
    PROVE  /\ \A p \in Matches(k) : p \in Pos /\ Live(p.blk) /\ Normal(p.blk, p.slot) /\ At(p).key = k
           /\ \A b \in Blocks, s \in Slots : Live(b) /\ Normal(b, s) /\ item[b][s].key = k
                 => In(b, s) \in Matches(k)
<1> USE DEF IInv
<1>1. blk_state = hdr /\ pc \in RunPCs
  BY DEF Running
<1>2. PICK w \in Blocks : Live(w) /\ hdr[Other(w)] = "CLEAN"
  BY <1>1, WritePlace
<1>3. ASSUME NEW p \in Matches(k)
      PROVE  p \in Pos /\ Live(p.blk) /\ Normal(p.blk, p.slot) /\ At(p).key = k
  <2>1. p \in Pos /\ hdr[p.blk] # "CLEAN" /\ Normal(p.blk, p.slot) /\ At(p).key = k
    BY <1>1, <1>3 DEF Matches
  <2>2. p.blk = w
    BY <1>2, <2>1, PosParts, OthersBlock
  <2>3. QED
    BY <1>2, <2>1, <2>2
<1>4. ASSUME NEW b \in Blocks, NEW s \in Slots, Live(b), Normal(b, s), item[b][s].key = k
      PROVE  In(b, s) \in Matches(k)
  <2>1. s < EndOf(b)
    <3>1. EndOf(b) \in 1..Cap /\ Filled(b, EndOf(b))
      BY ContiguousEnd
    <3>2. QED
      BY <1>4, <3>1, FilledRecords DEF Normal
  <2>2. In(b, s) \in Pos /\ In(b, s).blk = b /\ In(b, s).slot = s
    BY DEF In, Pos
  <2>3. QED
    BY <1>1, <1>4, <2>1, <2>2 DEF Matches, At, Live
<1>5. QED
  BY <1>3, <1>4

\* A search marks only a block in use.
LEMMA FindLive ==
    ASSUME IInv, FindHit \/ FindMiss
    PROVE  \A b \in Blocks : Live(b)' <=> Live(b)
<1>1. pc = "find" /\ \A b \in Blocks : hdr'[b] = hdr[b] \/ (blk_state[b] = "USED" /\ hdr'[b] = "DIRTY")
  BY DEF FindHit, FindMiss, Traverse, MarkDirty
<1>2. \A b \in Blocks : blk_state[b] = "USED" => hdr[b] = "USED"
  BY <1>1, UsedIsKnown DEF RunPCs
<1>3. QED
  BY <1>1, <1>2 DEF Live

LEMMA UpdatingSteps ==
    ASSUME IInv, IInv', Single, Updating, [Next]_vars
    PROVE  Updating'
<1> USE DEF IInv
<1>1. SUFFICES ASSUME pc' \in {"store", "del"} PROVE Updating'
  BY DEF Updating
<1>2. CASE FindMiss
  <2>1. pc = "find" /\ pc' = "store" /\ UNCHANGED <<item, req, old>> /\ Matches(req.key) = {} /\ old = NoPos
    BY <1>1, <1>2 DEF FindMiss, OldRecord
  <2>2. ASSUME NEW b \in Blocks, NEW s \in Slots, Live(b)', Normal(b, s)', item'[b][s].key = req'.key
        PROVE  FALSE
    <3>1. Live(b) /\ Normal(b, s) /\ item[b][s].key = req.key
      BY <1>2, <2>1, <2>2, FindLive DEF Normal, IsItem
    <3>2. QED
      BY <2>1, <3>1, MatchPlace DEF RunPCs
  <2>3. QED
    BY <2>1, <2>2 DEF Updating
<1>3. CASE FindHit
  <2>1. /\ pc = "find" /\ UNCHANGED <<item, req>> /\ old' \in Matches(req.key)
        /\ ~(pc' = "del" /\ req.op = "set")
    BY <1>1, <1>3 DEF FindHit, First
  <2>2. old' \in Pos /\ Live(old'.blk) /\ Normal(old'.blk, old'.slot) /\ At(old').key = req.key
    BY <2>1, MatchPlace DEF RunPCs
  <2>3. Live(old.blk)'
    BY <1>3, <2>2, FindLive, PosParts DEF Live
  <2>4. Normal(old.blk, old.slot)' /\ At(old)'.key = req'.key /\ old' # NoPos
    BY <2>1, <2>2, PosParts, InSlots DEF Normal, IsItem, At, NoPos, Slots
  <2>5. QED
    BY <2>1, <2>3, <2>4 DEF Updating
<1>4. CASE Store
  <2>1. pc = "store" /\ pc' = "del" /\ UNCHANGED <<hdr, req, old>> /\ old # NoPos /\ req.op = "set"
    BY <1>1, <1>4 DEF Store, OldRecord
  <2>2. PICK b \in Blocks, s \in Slots, i \in Item :
              /\ Live(b) /\ ~Live(Other(b)) /\ write_pos' = In(b, s + 1)
              /\ \A t \in Slots : IsItem(b, t) => t < s
              /\ i.key = req.key /\ i.val = req.val /\ i.crc /\ i.origin_off = old
              /\ \A c \in Blocks, t \in Slots :
                    item'[c][t] = IF c = b /\ t = s THEN i ELSE item[c][t]
              /\ Normal(b, s)' /\ item[b][s] = Erased
    BY <1>4, StoreEffect
  <2>3. One(b)
    BY <2>1, <2>2 DEF Single, RunPCs
  <2>4. Live(old.blk) /\ Normal(old.blk, old.slot) /\ At(old).key = req.key /\ old \in Pos
    BY <2>1 DEF Updating, OldRecord
  <2>5. PICK o \in Slots : /\ old = In(b, o) /\ old.blk = b /\ old.slot = o
                           /\ Normal(b, o) /\ item[b][o].key = req.key /\ o < s
    <3>1. old.blk = b
      BY <2>2, <2>4, OthersBlock, PosParts
    <3>2. QED
      BY <2>2, <2>4, <3>1, PosParts DEF At, Normal
  <2>6. \A t \in Slots : Normal(b, t)' => t = s \/ (t < s /\ Normal(b, t) /\ item'[b][t] = item[b][t])
    BY <2>2 DEF Normal, IsItem
  <2>7. \A t \in Slots : Normal(b, t)' => item'[b][t].crc
    BY <2>2, <2>3, <2>6, OneSaid
  <2>8. ASSUME NEW t \in Slots, NEW u \in Slots, t < u, Normal(b, t)', Normal(b, u)', SameKey(b, t, u)'
        PROVE  t = o /\ u = s
    <3>1. t < s /\ Normal(b, t) /\ item'[b][t] = item[b][t]
      BY <2>6, <2>8, InSlots
    <3>2. u = s
      <4>1. SUFFICES ASSUME u # s PROVE FALSE
        OBVIOUS
      <4>2. Normal(b, u) /\ item'[b][u] = item[b][u]
        BY <2>6, <2>8, <4>1
      <4>3. SameKey(b, t, u)
        BY <2>8, <3>1, <4>2 DEF SameKey
      <4>4. QED
        BY <2>3, <2>8, <3>1, <4>2, <4>3, OneSaid
    <3>3. item[b][t].key = req.key
      BY <2>2, <2>8, <3>1, <3>2 DEF SameKey
    <3>4. SameKey(b, t, o) /\ SameKey(b, o, t)
      BY <2>5, <3>3 DEF SameKey
    <3>5. ~(t < o) /\ ~(o < t)
      BY <2>3, <2>5, <3>1, <3>4, OneSaid
    <3>6. QED
      BY <3>2, <3>5, InSlots
  <2>9. Live(b)' /\ Normal(b, o)' /\ item'[b][o] = item[b][o]
    BY <2>1, <2>2, <2>5, InSlots DEF Normal, IsItem, Live
  <2>10. old'.blk = b /\ old'.slot = o /\ old' = old /\ req' = req
    BY <2>1, <2>5
  <2>11. \E n \in Slots :
            /\ write_pos' = [blk |-> b, slot |-> n + 1] /\ o < n
            /\ Normal(b, n)' /\ item'[b][n].key = req.key
            /\ item'[b][n].val = req.val /\ item'[b][n].origin_off = old
            /\ \A t \in Slots : Normal(b, t)' => item'[b][t].crc
            /\ \A t, u \in Slots : t < u /\ Normal(b, t)' /\ Normal(b, u)' /\ SameKey(b, t, u)' => t = o /\ u = n
    BY <2>2, <2>5, <2>7, <2>8 DEF In
  <2>12. Live(old.blk)' /\ Normal(old.blk, old.slot)' /\ At(old)'.key = req'.key
    BY <2>5, <2>9, <2>10 DEF Live, Normal, IsItem, At
  <2>13. \E n \in Slots :
              /\ write_pos' = [blk |-> old'.blk, slot |-> n + 1] /\ old'.slot < n
              /\ Normal(old.blk, n)' /\ item'[old'.blk][n].key = req'.key
              /\ item'[old'.blk][n].val = req'.val /\ item'[old'.blk][n].origin_off = old'
              /\ \A t \in Slots : Normal(old.blk, t)' => item'[old'.blk][t].crc
              /\ \A t, u \in Slots : t < u /\ Normal(old.blk, t)' /\ Normal(old.blk, u)' /\ SameKey(old.blk, t, u)'
                    => t = old'.slot /\ u = n
    BY <2>10, <2>11 DEF Normal, IsItem, SameKey
  <2>14. QED
    BY <2>1, <2>12, <2>13 DEF Updating
<1>5. CASE UNCHANGED vars
  <2>1. UNCHANGED <<hdr, item, write_pos, pc, req, old>>
    BY <1>5 DEF vars
  <2>2. QED
    BY <2>1 DEF Updating, Live, Normal, IsItem, SameKey, At
<1>6. CASE ~FindMiss /\ ~FindHit /\ ~Store /\ ~UNCHANGED vars
  <2>1. CASE Calls
    BY <1>1, <2>1 DEF Calls, CallSet, CallGet, CallDel, CallDelMatching, CallFactory, Call
  <2>2. CASE Boot
    BY <1>1, <2>2 DEF Boot, PowerOn, BootRead, ScanErase, ScanHeader, BootRecover, BootMark, BootPass,
       BootNextBlock, BootKeep, BootDrop, LastErase, LastHeader, BootDone, NextBlock, AfterDelete
  <2>3. CASE Op
    BY <1>1, <1>6, <2>3 DEF Op, StoreNoSpace, DelItem, MarkItemBlock, BulkDelete,
       BulkMark, BulkPass, BulkNextBlock, Factory0, Factory1, Return, AfterOp, AfterDelete
  <2>4. CASE Failure
    BY <1>1, <2>4 DEF Failure, Crash, CutStore, CutCopy, PowerLoss
  <2>5. CASE Gc
    BY <1>1, <2>5 DEF Gc, GcSkip, GcStart, GcCopy, GcPass, GcCopied, GcErase, GcHeader, GcUsed
  <2>6. QED
    BY <1>6, <2>1, <2>2, <2>3, <2>4, <2>5 DEF Next, Step
<1>7. QED
  BY <1>2, <1>3, <1>4, <1>5, <1>6

\* The traversal passes a record only once it is deleted, or if its key stays.
LEMMA DeletingOn ==
    ASSUME Deleting, pc \in {"bulk", "bulk_mark"}, UNCHANGED req,
           NEW b \in Blocks, NEW c \in Slots, cur = In(b, c), cur' = In(b, c + 1),
           \A d \in Blocks : Live(d)' => Live(d),
           \A d \in Blocks, s \in Slots : item'[d][s] = item[d][s] \/ ~Normal(d, s)',
           Normal(b, c)' => item[b][c].key \notin req.keys
    PROVE  Deleting'
<1>1. SUFFICES ASSUME NEW d \in Blocks, NEW s \in Slots, Live(d)', Normal(d, s)',
                      item'[d][s].key \in req.keys, Before(In(d, s), cur')
               PROVE  FALSE
  BY DEF Deleting, In
<1>2. Normal(d, s) /\ item'[d][s] = item[d][s]
  BY <1>1 DEF Normal, IsItem
<1>3. Before(In(d, s), cur) \/ (d = b /\ s = c)
  BY <1>1, InSlots, ConstantsAssumption DEF Before, In, Blocks
<1>4. QED
  BY <1>1, <1>2, <1>3 DEF Deleting, In

LEMMA DeletingSteps ==
    ASSUME IInv, Deleting, [Next]_vars
    PROVE  Deleting'
<1> USE DEF IInv
<1>1. SUFFICES ASSUME pc' \in {"bulk", "bulk_mark"} PROVE Deleting'
  BY DEF Deleting
<1>2. CASE Calls
  <2>1. cur' = Start(0)
    BY <1>1, <1>2 DEF Calls, CallSet, CallGet, CallDel, CallDelMatching, CallFactory, Call
  <2>2. \A b \in Blocks, s \in Slots : ~Before([blk |-> b, slot |-> s], Start(0))
    BY ConstantsAssumption DEF Before, Start, Blocks, Slots
  <2>3. QED
    BY <2>1, <2>2 DEF Deleting
<1>3. CASE BulkDelete
  <2>1. pc = "bulk" /\ UNCHANGED <<hdr, req>> /\ ~AtEnd /\ Normal(cur.blk, cur.slot) /\ NextRecord
    BY <1>3 DEF BulkDelete
  <2>2. PICK b \in Blocks, c \in Slots : cur = In(b, c) /\ cur' = In(b, c + 1)
    BY <2>1, CursorPlace
  <2>3. cur.blk = b /\ cur.slot = c /\ cur \in Pos /\ At(cur) = item[b][c]
    BY <2>2 DEF In, Pos, At
  <2>4. \A d \in Blocks : Live(d)' => Live(d)
    BY <2>1 DEF Live
  <2>5. CASE Delete(cur)
    <3>1. \A d \in Blocks, s \in Slots :
             IF d = b /\ s = c THEN ~Normal(d, s)' ELSE item'[d][s] = item[d][s]
      BY <2>1, <2>3, <2>5, DeleteEffect DEF Normal
    <3>2. QED
      BY <2>1, <2>2, <2>4, <3>1, DeletingOn
  <2>6. CASE At(cur).key \notin req.keys /\ UNCHANGED item
    BY <2>1, <2>2, <2>3, <2>4, <2>6, DeletingOn
  <2>7. QED
    BY <1>3, <2>5, <2>6 DEF BulkDelete
<1>4. CASE BulkPass
  <2>1. pc = "bulk" /\ UNCHANGED <<item, req>> /\ ~AtEnd /\ ~Normal(cur.blk, cur.slot) /\ NextRecord
    BY <1>4 DEF BulkPass, PassInvalid
  <2>2. PICK b \in Blocks, c \in Slots : cur = In(b, c) /\ cur' = In(b, c + 1)
    BY <2>1, CursorPlace
  <2>3. ~Normal(b, c)'
    BY <2>1, <2>2 DEF In, Normal, IsItem
  <2>4. \A d \in Blocks : hdr'[d] = hdr[d] \/ blk_state[d] = "USED"
    BY <1>4 DEF BulkPass, PassInvalid, MarkDirty
  <2>5. \A d \in Blocks : Live(d)' => Live(d)
    BY <2>1, <2>4, UsedIsKnown DEF Live, RunPCs
  <2>6. QED
    BY <2>1, <2>2, <2>3, <2>5, DeletingOn
<1>5. CASE BulkMark
  <2>1. pc = "bulk_mark" /\ UNCHANGED <<item, req, cur>>
    BY <1>5 DEF BulkMark
  <2>2. \A b \in Blocks : hdr'[b] = hdr[b] \/ blk_state[b] = "USED"
    BY <1>5 DEF BulkMark, MarkOld, SetHeader, OldRecord, Pos, TypeOK
  <2>3. \A b \in Blocks : Live(b)' => Live(b)
    BY <2>1, <2>2, UsedIsKnown DEF Live, RunPCs
  <2>4. QED
    BY <2>1, <2>3 DEF Deleting, Normal, IsItem
<1>6. CASE BulkNextBlock
  <2>1. pc = "bulk" /\ UNCHANGED <<hdr, item, req>> /\ AtEnd /\ cur.blk = 0 /\ cur' = Start(1)
    BY <1>1, <1>6 DEF BulkNextBlock, flash
  <2>2. PICK e \in 1..Cap : cur.slot = e /\ Filled(0, e)
    BY <2>1, ContiguousEnd DEF AtEnd, Blocks
  <2>3. \A s \in Slots : Normal(0, s) => Before([blk |-> 0, slot |-> s], cur)
    BY <2>1, <2>2, FilledRecords DEF Before, Blocks, Normal
  <2>4. \A b \in Blocks, s \in Slots : Before([blk |-> b, slot |-> s], Start(1)) => b = 0
    BY ConstantsAssumption DEF Before, Start, Blocks, Slots
  <2>5. QED
    BY <2>1, <2>3, <2>4 DEF Deleting, Normal, IsItem, Live
<1>7. CASE UNCHANGED vars
  BY <1>7 DEF vars, Deleting, Live, Normal, IsItem
<1>8. CASE ~BulkDelete /\ ~BulkPass /\ ~BulkMark /\ ~BulkNextBlock /\ ~Calls /\ ~UNCHANGED vars
  <2>1. CASE Boot
    BY <1>1, <2>1 DEF Boot, PowerOn, BootRead, ScanErase, ScanHeader, BootRecover, BootMark, BootPass,
       BootNextBlock, BootKeep, BootDrop, LastErase, LastHeader, BootDone, NextBlock, AfterDelete
  <2>2. CASE Op
    BY <1>1, <1>8, <2>2 DEF Op, FindHit, FindMiss, Store, StoreNoSpace, DelItem, MarkItemBlock,
       Factory0, Factory1, Return, AfterOp, AfterDelete
  <2>3. CASE Failure
    BY <1>1, <2>3 DEF Failure, Crash, CutStore, CutCopy, PowerLoss
  <2>4. CASE Gc
    BY <1>1, <2>4 DEF Gc, GcSkip, GcStart, GcCopy, GcPass, GcCopied, GcErase, GcHeader, GcUsed
  <2>5. QED
    BY <1>8, <2>1, <2>2, <2>3, <2>4 DEF Next, Step
<1>9. QED
  BY <1>2, <1>3, <1>4, <1>5, <1>6, <1>7, <1>8

\* The map invariant, for a store whose collections are not cut by a loss of
\* power.
LEMMA MapSteps == ASSUME IInv, IInv', MapInv, Uncut, [Next]_vars PROVE MapInv'
<1> USE DEF MapInv
<1>1. Served' /\ Reserved'
  BY ServedSteps, ReservedSteps
<1>2. Copied'
  BY CopiedSteps
<1>3. Single'
  BY <1>2, SingleSteps
<1>4. Updating' /\ Deleting'
  BY UpdatingSteps, DeletingSteps
<1>5. QED
  BY <1>1, <1>2, <1>3, <1>4

LEMMA InitMap == Init => MapInv
<1> SUFFICES ASSUME Init PROVE MapInv
  OBVIOUS
<1>1. pc = "off" /\ \A b \in Blocks : hdr[b] = "BAD"
  BY DEF Init
<1>2. QED
  BY <1>1 DEF Init, MapInv, Served, Reserved, Single, Updating, Deleting, Copied, Copying, Live,
              RunPCs, BootPCs, GcPCs, OpPCs, LastPCs

LEMMA CollectionsWhole == ASSUME CollectionsEnd, [Next]_vars PROVE Uncut
<1>1. CASE UNCHANGED vars
  BY <1>1 DEF vars, Uncut, Copying, GcPCs
<1>2. CASE Failure
  BY <1>2 DEF Failure, Crash, CutStore, CutCopy, PowerLoss, CollectionsEnd, Uncut, Copying
<1>3. CASE Calls
  BY <1>3 DEF Calls, CallSet, CallGet, CallDel, CallDelMatching, CallFactory, Call, Uncut, Copying, GcPCs
<1>4. CASE Boot \/ Op
  <2>1. pc \notin GcPCs
    BY <1>4 DEF Boot, PowerOn, BootRead, ScanErase, ScanHeader, BootRecover, BootMark, BootPass,
       BootNextBlock, BootKeep, BootDrop, LastErase, LastHeader, BootDone, Op, FindHit, FindMiss, Store,
       StoreNoSpace, DelItem, MarkItemBlock, BulkDelete, BulkMark, BulkPass, BulkNextBlock, Factory0,
       Factory1, Return, GcPCs
  <2>2. QED
    BY <2>1 DEF Uncut, Copying
<1>5. CASE Gc
  BY <1>5 DEF Gc, GcSkip, GcStart, GcCopy, GcPass, GcCopied, GcErase, GcHeader, GcUsed, Uncut, context
<1>6. QED
  BY <1>1, <1>2, <1>3, <1>4, <1>5 DEF Next, Step

\* While calls are served every key has one record, and while it is updated
\* two; a start and a collection keep it so.
THEOREM MapInductive == ASSUME CollectionsEnd PROVE Spec => []MapInv
<1>1. MapInv /\ IInv /\ IInv' /\ [Next]_vars => MapInv'
  BY MapSteps, CollectionsWhole
<1>2. QED
  BY <1>1, InitMap, Inductive, PTL DEF Spec

-----------------------------------------------------------------------------
(* The map while calls are served and during a start: the records of the one *)
(* block in use                                                              *)

\* A block in use is the only one whose records count.
HomeRule == OneReserve => \A b \in Blocks : Live(b) => Home(b)
LEMMA HomeLive == HomeRule
<1> SUFFICES ASSUME OneReserve, NEW b \in Blocks, Live(b) PROVE Home(b)
  BY DEF HomeRule
<1>1. ~Live(Other(b)) /\ Other(Other(b)) = b
  BY OthersBlock DEF OneReserve, Live
<1>2. ~Kept(Other(b))
  BY <1>1 DEF Kept, Live
<1>3. QED
  BY <1>2 DEF Home, Kept, Live
LEMMA HomeLiveNext == HomeRule'
BY HomeLive, PTL

\* Without a record in use the key is absent: a CLEAN block is empty.
AbsentRule ==
    OneReserve /\ Reserved /\ ~Copying =>
        \A k \in Keys : (\A b \in Blocks, s \in Slots : Live(b) => ~Has(b, s, k)) => Dict[k] = NoVal
LEMMA Absent == AbsentRule
<1> SUFFICES ASSUME OneReserve, Reserved, ~Copying, NEW k \in Keys,
                    \A b \in Blocks, s \in Slots : Live(b) => ~Has(b, s, k)
             PROVE  Dict[k] = NoVal
  BY DEF AbsentRule
<1>1. CASE \E b \in Blocks : Live(b)
  <2>1. PICK b \in Blocks : Live(b)
    BY <1>1
  <2>2. QED
    BY <2>1, HomeLive, DictNone DEF HomeRule, DictNoneRule
<1>2. CASE \A b \in Blocks : ~Live(b)
  <2>1. ASSUME NEW b \in Blocks, NEW s \in Slots, Kept(b) PROVE ~Good(b, s)
    <3>1. Filled(b, 1)
      BY <1>2, <2>1 DEF Kept, Live, Reserved
    <3>2. QED
      BY <3>1, ConstantsAssumption DEF Filled, Good, Normal, IsItem, Slots
  <2>2. QED
    BY <2>1, DictEmpty DEF DictEmptyRule
<1>3. QED
  BY <1>1, <1>2
LEMMA AbsentNext == AbsentRule'
BY Absent, PTL

\* With one record in use the key has its value.
PresentRule ==
    OneReserve =>
        \A b \in Blocks, k \in Keys, s \in Slots :
            Live(b) /\ One(b) /\ Normal(b, s) /\ item[b][s].key = k => Dict[k] = item[b][s].val
LEMMA Present == PresentRule
<1> SUFFICES ASSUME OneReserve, NEW b \in Blocks, NEW k \in Keys, NEW s \in Slots, Live(b), One(b),
                    Normal(b, s), item[b][s].key = k
             PROVE  Dict[k] = item[b][s].val
  BY DEF PresentRule
<1>1. Has(b, s, k)
  BY OneSaid DEF Has, Good
<1>2. ASSUME NEW u \in Slots, Has(b, u, k) PROVE u = s
  <2>1. SameKey(b, u, s) /\ SameKey(b, s, u) /\ Normal(b, u)
    BY <1>2 DEF Has, Good, SameKey
  <2>2. ~(u < s) /\ ~(s < u)
    BY <2>1, OneSaid
  <2>3. QED
    BY <2>2, InSlots
<1>3. QED
  BY <1>1, <1>2, HomeLive, DictOne DEF HomeRule, DictOneRule
LEMMA PresentNext == PresentRule'
BY Present, PTL

\* A step that leaves the records of a key alone, in the block whose records
\* count, leaves its value alone.
LEMMA HomeSame ==
    ASSUME NEW b \in Blocks, NEW k \in Keys, Home(b), Home(b)', Paired(b),
           \A s \in Slots : Has(b, s, k)' <=> Has(b, s, k),
           \A s \in Slots : Has(b, s, k) => item'[b][s] = item[b][s]
    PROVE  Dict'[k] = Dict[k]
<1>1. CASE \A s \in Slots : ~Has(b, s, k)
  BY <1>1, DictNone, DictNoneNext DEF DictNoneRule
<1>2. ASSUME NEW s \in Slots, Has(b, s, k), \A u \in Slots : Has(b, u, k) => u = s
      PROVE  Dict'[k] = Dict[k]
  <2>1. Dict[k] = item[b][s].val
    BY <1>2, DictOne DEF DictOneRule
  <2>2. Dict'[k] = item'[b][s].val
    BY <1>2, DictOneNext DEF DictOneRule
  <2>3. QED
    BY <1>2, <2>1, <2>2
<1>3. ASSUME NEW s \in Slots, NEW u \in Slots, s < u, Has(b, s, k), Has(b, u, k)
      PROVE  Dict'[k] = Dict[k]
  <2>1. \A x, y \in Slots : x < y /\ Has(b, x, k) /\ Has(b, y, k) => item[b][y].origin_off = In(b, x)
    BY DEF Paired, Has, SameKey, In
  <2>2. ASSUME NEW t \in Slots, Has(b, t, k) PROVE t \in {s, u}
    <3>1. \A x, y, z \in Slots : x < y /\ y < z => ~(Has(b, x, k) /\ Has(b, y, k) /\ Has(b, z, k))
      <4>1. SUFFICES ASSUME NEW x \in Slots, NEW y \in Slots, NEW z \in Slots, x < y, y < z,
                            Has(b, x, k), Has(b, y, k), Has(b, z, k)
                     PROVE  FALSE
        OBVIOUS
      <4>2. x < z
        BY <4>1, InSlots
      <4>3. In(b, x) = In(b, y)
        BY <2>1, <4>1, <4>2
      <4>4. x = y
        BY <4>3 DEF In
      <4>5. QED
        BY <4>1, <4>4, InSlots
    <3>2. t < s \/ t = s \/ (s < t /\ t < u) \/ t = u \/ u < t
      BY <1>3, InSlots
    <3>3. QED
      BY <1>3, <2>2, <3>1, <3>2
  <2>3. item[b][u].origin_off = In(b, s)
    BY <1>3, <2>1
  <2>4. Dict[k] = IF item[b][s].origin_off = In(b, u) THEN item[b][s].val ELSE item[b][u].val
    BY <1>3, <2>2, <2>3, DictPair DEF DictPairRule
  <2>5. item'[b][s] = item[b][s] /\ item'[b][u] = item[b][u] /\ Has(b, s, k)' /\ Has(b, u, k)'
    BY <1>3
  <2>6. Dict'[k] = IF item'[b][s].origin_off = In(b, u) THEN item'[b][s].val ELSE item'[b][u].val
    BY <1>3, <2>2, <2>3, <2>5, DictPairNext DEF DictPairRule, In
  <2>7. QED
    BY <2>4, <2>5, <2>6
<1>4. QED
  <2>1. SUFFICES ASSUME NEW s \in Slots, Has(b, s, k), NEW u \in Slots, Has(b, u, k), u # s
                 PROVE  Dict'[k] = Dict[k]
    BY <1>1, <1>2
  <2>2. s < u \/ u < s
    BY <2>1, InSlots
  <2>3. QED
    BY <1>3, <2>1, <2>2

\* The same for a step between two moments outside a collection.
InUseHas(b, s, k) == Live(b) /\ Has(b, s, k)
LEMMA DictStep ==
    ASSUME OneReserve, OneReserve', Reserved, Reserved', ~Copying, ~Copying', Single, NEW k \in Keys,
           \A b \in Blocks, s \in Slots : InUseHas(b, s, k)' <=> InUseHas(b, s, k),
           \A b \in Blocks, s \in Slots : InUseHas(b, s, k) => item'[b][s] = item[b][s]
    PROVE  Dict'[k] = Dict[k]
<1>1. CASE \A b \in Blocks, s \in Slots : ~InUseHas(b, s, k)
  BY <1>1, Absent, AbsentNext DEF AbsentRule, InUseHas
<1>2. CASE \E b \in Blocks, s \in Slots : InUseHas(b, s, k)
  <2>1. PICK b \in Blocks, s \in Slots : InUseHas(b, s, k)
    BY <1>2
  <2>2. Live(b) /\ Live(b)' /\ Paired(b)
    BY <2>1 DEF InUseHas, Single
  <2>3. Home(b) /\ Home(b)'
    BY <2>2, HomeLive, HomeLiveNext DEF HomeRule
  <2>4. \A t \in Slots : (Has(b, t, k)' <=> Has(b, t, k)) /\ (Has(b, t, k) => item'[b][t] = item[b][t])
    BY <2>2 DEF InUseHas
  <2>5. QED
    BY <2>2, <2>3, <2>4, HomeSame
<1>3. QED
  BY <1>1, <1>2

-----------------------------------------------------------------------------
(* Recovery keeps every value *)

\* The record that the recovery deletes: the damaged one at the cursor, or the
\* one that it replaces.
LEMMA RecoverDeletes ==
    ASSUME IInv, BootRecover, ~UNCHANGED item
    PROVE  \E b \in Blocks, c \in Slots, p \in Pos :
              /\ cur = In(b, c) /\ b = cur.blk /\ c = cur.slot /\ Normal(b, c)
              /\ \A d \in Blocks, s \in Slots :
                    IF d = p.blk /\ s = p.slot THEN ~Normal(d, s)' ELSE item'[d][s] = item[d][s]
              /\ IF item[b][c].crc
                 THEN p # In(b, c) /\ item[b][c].origin_off = p /\ At(p).key = item[b][c].key
                 ELSE p = In(b, c)
<1> USE DEF IInv
<1>1. /\ pc = "boot_item" /\ ~AtEnd /\ Normal(cur.blk, cur.slot) /\ NextRecord
      /\ \E p \in Recovered(cur) : Delete(p)
  BY DEF BootRecover
<1>2. PICK b \in Blocks, c \in Slots : cur = In(b, c)
  BY <1>1, CursorPlace
<1>3. /\ b = cur.blk /\ c = cur.slot /\ Normal(b, c) /\ At(cur) = item[b][c] /\ cur \in Pos
      /\ item[b][c] \in Item
  <2>1. cur.blk = b /\ cur.slot = c /\ cur \in Pos
    BY <1>2 DEF In, Pos
  <2>2. Normal(b, c) /\ At(cur) = item[b][c]
    BY <1>1, <2>1 DEF At
  <2>3. item[b][c] \in Item
    BY <2>2 DEF Normal, IsItem, TypeOK
  <2>4. QED
    BY <2>1, <2>2, <2>3
<1>4. PICK p \in Recovered(cur) : Delete(p)
  BY <1>1
<1>5. CASE ~item[b][c].crc
  <2>1. p = cur
    BY <1>3, <1>4, <1>5 DEF Recovered
  <2>2. cur.blk = b /\ cur.slot = c /\ cur = In(b, c)
    BY <1>2, <1>3
  <2>3. \A d \in Blocks, s \in Slots :
           IF d = cur.blk /\ s = cur.slot THEN ~Normal(d, s)' ELSE item'[d][s] = item[d][s]
    <3>1. Delete(cur)
      BY <1>4, <2>1
    <3>2. QED
      BY <1>1, <1>3, <3>1, DeleteEffect DEF Normal
  <2>4. QED
    BY <1>3, <1>5, <2>2, <2>3
<1>6. CASE item[b][c].crc
  <2>1. /\ p # cur /\ item[b][c].origin_off = p /\ p # NoPos /\ Normal(p.blk, p.slot)
        /\ At(p).key = item[b][c].key
    BY <1>3, <1>4, <1>6 DEF Recovered
  <2>2. p \in Pos
    BY <1>3, <2>1 DEF Item
  <2>3. \A d \in Blocks, s \in Slots :
           IF d = p.blk /\ s = p.slot THEN ~Normal(d, s)' ELSE item'[d][s] = item[d][s]
    BY <1>4, <2>1, <2>2, DeleteEffect DEF Normal
  <2>4. /\ cur = In(b, c) /\ b = cur.blk /\ c = cur.slot /\ Normal(b, c)
        /\ IF item[b][c].crc
           THEN p # In(b, c) /\ item[b][c].origin_off = p /\ At(p).key = item[b][c].key
           ELSE p = In(b, c)
    BY <1>2, <1>3, <1>6, <2>1
  <2>5. QED
    BY <2>2, <2>3, <2>4
<1>7. QED
  BY <1>5, <1>6

LEMMA RecoverKeeps ==
    ASSUME IInv, IInv', MapInv, MapInv', BootRecover, NEW k \in Keys
    PROVE  Dict'[k] = Dict[k]
<1> USE DEF IInv, MapInv
<1>0. pc = "boot_item" /\ UNCHANGED hdr /\ ~Copying /\ ~Copying'
  BY DEF BootRecover, AfterDelete, Copying, GcPCs
<1>1. CASE UNCHANGED item
  <2>1. \A b \in Blocks, s \in Slots : InUseHas(b, s, k)' <=> InUseHas(b, s, k)
    BY <1>0, <1>1 DEF InUseHas, Has, Good, Normal, IsItem, Live
  <2>2. QED
    BY <1>0, <1>1, <2>1, DictStep
<1>2. CASE ~UNCHANGED item
  <2>1. PICK b \in Blocks, c \in Slots, p \in Pos :
              /\ cur = In(b, c) /\ b = cur.blk /\ c = cur.slot /\ Normal(b, c)
              /\ \A d \in Blocks, s \in Slots :
                    IF d = p.blk /\ s = p.slot THEN ~Normal(d, s)' ELSE item'[d][s] = item[d][s]
              /\ IF item[b][c].crc
                 THEN p # In(b, c) /\ item[b][c].origin_off = p /\ At(p).key = item[b][c].key
                 ELSE p = In(b, c)
    BY <1>2, RecoverDeletes
  <2>2. \A d \in Blocks, s \in Slots : ~(d = p.blk /\ s = p.slot) => (InUseHas(d, s, k)' <=> InUseHas(d, s, k))
    <3>1. \A d \in Blocks, s \in Slots : ~(d = p.blk /\ s = p.slot) => item'[d][s] = item[d][s]
      BY <2>1
    <3>2. QED
      BY <1>0, <3>1 DEF InUseHas, Has, Good, Normal, IsItem, Live
  <2>3. CASE ~InUseHas(p.blk, p.slot, k)
    <3>1. \A d \in Blocks, s \in Slots : InUseHas(d, s, k)' <=> InUseHas(d, s, k)
      BY <2>1, <2>2, <2>3, PosParts DEF InUseHas, Has, Good
    <3>2. \A d \in Blocks, s \in Slots : InUseHas(d, s, k) => item'[d][s] = item[d][s]
      BY <2>1, <2>3
    <3>3. QED
      BY <1>0, <3>1, <3>2, DictStep
  <2>4. CASE InUseHas(p.blk, p.slot, k)
    <3>1. item[b][c].crc /\ item[b][c].origin_off = p /\ p # In(b, c) /\ At(p).key = item[b][c].key
      <4>1. p # In(b, c) \/ item[b][c].crc
        <5>1. ASSUME p = In(b, c) PROVE p.blk = b /\ p.slot = c
          BY <5>1 DEF In
        <5>2. item[p.blk][p.slot].crc
          BY <2>4 DEF InUseHas, Has, Good
        <5>3. QED
          BY <5>1, <5>2
      <4>2. QED
        BY <2>1, <4>1
    <3>2. Live(b) /\ blk_state[b] # "NONE" /\ Live(b)'
      BY <1>0, <2>1, ReadingPlace DEF Live
    <3>3. p.blk = b
      BY <2>4, <3>2, PosParts, OthersBlock DEF InUseHas, OneReserve, Live
    <3>4. PICK t \in Slots : p = In(b, t) /\ p.slot = t /\ t # c
      BY <3>1, <3>3, PosParts
    <3>5. Has(b, t, k) /\ Has(b, c, k) /\ Paired(b)
      BY <2>1, <2>4, <3>1, <3>2, <3>3, <3>4 DEF InUseHas, Has, Good, At, Single
    <3>6. item[b][c].origin_off = In(b, t)
      BY <3>1, <3>4
    <3>7. \A x, y \in Slots : x < y /\ Has(b, x, k) /\ Has(b, y, k) => item[b][y].origin_off = In(b, x)
      BY <3>5 DEF Paired, Has, SameKey, In
    <3>8. ASSUME NEW u \in Slots, Has(b, u, k) PROVE u \in {t, c}
      <4>1. SUFFICES ASSUME u # t, u # c PROVE FALSE
        OBVIOUS
      <4>2. \A x, y, z \in Slots : x < y /\ y < z => ~(Has(b, x, k) /\ Has(b, y, k) /\ Has(b, z, k))
        <5>1. SUFFICES ASSUME NEW x \in Slots, NEW y \in Slots, NEW z \in Slots, x < y, y < z,
                              Has(b, x, k), Has(b, y, k), Has(b, z, k)
                       PROVE  FALSE
          OBVIOUS
        <5>2. x < z
          BY <5>1, InSlots
        <5>3. In(b, x) = In(b, y)
          BY <3>7, <5>1, <5>2
        <5>4. x = y
          BY <5>3 DEF In
        <5>5. QED
          BY <5>1, <5>4, InSlots
      <4>3. \/ (u < t /\ t < c) \/ (u < c /\ c < t) \/ (t < u /\ u < c)
            \/ (c < u /\ u < t) \/ (t < c /\ c < u) \/ (c < t /\ t < u)
        BY <3>4, <4>1, InSlots
      <4>4. QED
        BY <3>5, <3>8, <4>2, <4>3
    <3>9. Dict[k] = item[b][c].val
      <4>1. Home(b)
        BY <3>2, HomeLive DEF HomeRule
      <4>2. CASE t < c
        <5>1. item[b][t].origin_off # In(b, c)
          <6>1. ReadUpTo(b, c)
            <7>1. ~Scanned(b)
              BY <1>0, <2>1, ConstantsAssumption DEF Scanned, ScanPCs, Blocks
            <7>2. QED
              BY <1>0, <2>1, <3>2, <7>1 DEF Single, BootPCs
          <6>2. Normal(b, t) /\ Good(b, c) /\ SameKey(b, t, c)
            BY <3>5 DEF Has, Good, SameKey
          <6>3. QED
            BY <4>2, <6>1, <6>2 DEF ReadUpTo, In
        <5>2. QED
          BY <3>5, <3>6, <3>8, <4>1, <4>2, <5>1, DictPair DEF DictPairRule
      <4>3. CASE c < t
        <5>1. item[b][t].origin_off = In(b, c)
          BY <3>5, <3>7, <4>3
        <5>2. QED
          BY <3>5, <3>6, <3>8, <4>1, <4>3, <5>1, DictPair DEF DictPairRule
      <4>4. QED
        BY <3>4, <4>2, <4>3, InSlots
    <3>10. Dict'[k] = item'[b][c].val
      <4>1. Home(b)'
        BY <3>2, HomeLiveNext DEF HomeRule
      <4>2. \A u \in Slots : Has(b, u, k)' <=> u = c
        <5>1. ~Has(b, t, k)'
          BY <2>1, <3>3, <3>4 DEF Has, Good
        <5>2. \A u \in Slots : u # t => (Has(b, u, k)' <=> Has(b, u, k))
          <6>1. \A u \in Slots : u # t => item'[b][u] = item[b][u]
            BY <2>1, <3>3, <3>4
          <6>2. QED
            BY <6>1 DEF Has, Good, Normal, IsItem
        <5>3. QED
          BY <3>4, <3>5, <3>8, <5>1, <5>2
      <4>3. QED
        BY <4>1, <4>2, DictOneNext DEF DictOneRule
    <3>11. item'[b][c] = item[b][c]
      BY <2>1, <3>4
    <3>12. QED
      BY <3>9, <3>10, <3>11
  <2>5. QED
    BY <2>3, <2>4
<1>3. QED
  BY <1>1, <1>2

-----------------------------------------------------------------------------
(* Steps that change no key *)

\* A step that leaves the records and the blocks in use as they are.
LEMMA LiveSame ==
    ASSUME IInv, IInv', MapInv, MapInv', ~Copying, ~Copying', UNCHANGED item,
           \A b \in Blocks : Live(b)' <=> Live(b), NEW k \in Keys
    PROVE  Dict'[k] = Dict[k]
<1>1. \A b \in Blocks, s \in Slots : InUseHas(b, s, k)' <=> InUseHas(b, s, k)
  BY DEF InUseHas, Has, Good, Normal, IsItem
<1>2. QED
  BY <1>1, DictStep DEF IInv, MapInv

LEMMA MarkKeepsLive ==
    ASSUME IInv, pc \in RunPCs, NEW B \in SUBSET Blocks, MarkDirty(B),
           \A b \in B : blk_state[b] = "USED"
    PROVE  \A b \in Blocks : Live(b)' <=> Live(b)
<1>1. \A b \in B : hdr[b] = "USED"
  BY DEF IInv, Running
<1>2. \A b \in Blocks : hdr'[b] = IF b \in B THEN "DIRTY" ELSE hdr[b]
  BY DEF MarkDirty
<1>3. QED
  BY <1>1, <1>2 DEF Live

\* Outside a collection, nearly all of the steps.
LEMMA QuietSteps ==
    ASSUME IInv, IInv', MapInv, MapInv', Uncut, NEW k \in Keys,
           \/ Calls \/ FindHit \/ FindMiss \/ StoreNoSpace \/ MarkItemBlock \/ BulkMark
           \/ BulkPass \/ BulkNextBlock \/ Return \/ GcSkip \/ PowerOn \/ BootRead
           \/ ScanHeader \/ BootMark \/ BootPass \/ BootNextBlock \/ Crash
           \/ (UNCHANGED flash /\ ~Copying /\ ~Copying')
    PROVE  Dict'[k] = Dict[k]
<1>1. CASE UNCHANGED flash /\ ~Copying /\ ~Copying'
  BY <1>1, LiveSame DEF flash, Live
<1>2. CASE FindHit \/ FindMiss
  <2>1. UNCHANGED item /\ ~Copying /\ ~Copying'
    BY <1>2 DEF FindHit, FindMiss, Copying, GcPCs
  <2>2. QED
    BY <1>2, <2>1, FindLive, LiveSame
<1>3. CASE MarkItemBlock \/ BulkMark
  <2>1. /\ UNCHANGED item /\ ~Copying /\ ~Copying' /\ MarkOld /\ pc \in {"mark", "bulk_mark"}
    BY <1>3 DEF MarkItemBlock, BulkMark, Copying, GcPCs, AfterOp
  <2>2. old.blk \in Blocks /\ hdr[old.blk] = "USED"
    BY <2>1 DEF IInv, OldRecord, Running, RunPCs, Pos
  <2>3. \A b \in Blocks : hdr'[b] = IF b = old.blk THEN "DIRTY" ELSE hdr[b]
    BY <2>1 DEF MarkOld, SetHeader, IInv, TypeOK
  <2>4. \A b \in Blocks : Live(b)' <=> Live(b)
    BY <2>2, <2>3 DEF Live
  <2>5. QED
    BY <2>1, <2>4, LiveSame
<1>4. CASE BulkPass
  <2>1. UNCHANGED item /\ ~Copying /\ ~Copying' /\ pc \in RunPCs
        /\ MarkDirty({b \in {cur.blk} : blk_state[b] = "USED"})
    BY <1>4 DEF BulkPass, PassInvalid, Copying, GcPCs, RunPCs
  <2>2. cur.blk \in Blocks
    BY DEF IInv, TypeOK
  <2>3. QED
    BY <2>1, <2>2, MarkKeepsLive, LiveSame
<1>5. CASE BootMark \/ BootPass
  <2>1. UNCHANGED item /\ ~Copying /\ ~Copying'
    BY <1>5 DEF BootMark, BootPass, Copying, GcPCs
  <2>2. \A b \in Blocks : hdr'[b] = "DIRTY" \/ hdr'[b] = hdr[b]
    BY <1>5 DEF BootMark, MarkOld, SetHeader, BootPass, PassInvalid, MarkDirty, IInv, TypeOK
  <2>3. \A b \in Blocks : Live(b)' <=> Live(b)
    BY <1>5, <2>2, MarkingInBoot DEF Live
  <2>4. QED
    BY <2>1, <2>3, LiveSame
<1>6. CASE ScanHeader
  <2>1. UNCHANGED item /\ ~Copying /\ ~Copying' /\ hdr[cur.blk] = "BAD"
    BY <1>6 DEF ScanHeader, Copying, GcPCs, NextBlock, IInv, Starting, BootPCs
  <2>2. \A b \in Blocks : hdr'[b] = IF b = cur.blk THEN "CLEAN" ELSE hdr[b]
    BY <1>6 DEF ScanHeader, WriteCleanHeader, SetHeader, IInv, TypeOK
  <2>3. \A b \in Blocks : Live(b)' <=> Live(b)
    BY <2>1, <2>2 DEF Live
  <2>4. QED
    BY <2>1, <2>3, LiveSame
<1>7. CASE Calls \/ StoreNoSpace \/ BulkNextBlock \/ Return \/ GcSkip \/ PowerOn \/ BootRead \/ BootNextBlock
  <2>1. UNCHANGED flash
    BY <1>7 DEF Calls, CallSet, CallGet, CallDel, CallDelMatching, CallFactory, Call, StoreNoSpace,
                BulkNextBlock, Return, GcSkip, PowerOn, BootRead, BootNextBlock, flash
  <2>2. ~Copying /\ ~Copying'
    BY <1>7 DEF Calls, CallSet, CallGet, CallDel, CallDelMatching, CallFactory, Call, StoreNoSpace,
                BulkNextBlock, Return, GcSkip, PowerOn, BootRead, BootNextBlock, NextBlock,
                Copying, GcPCs
  <2>3. QED
    BY <2>1, <2>2, LiveSame DEF flash, Live
<1>8. CASE Crash
  <2>1. UNCHANGED flash /\ ~Copying /\ ~Copying'
    BY <1>8 DEF Crash, PowerLoss, Uncut, Copying, GcPCs
  <2>2. QED
    BY <2>1, LiveSame DEF flash, Live
<1>9. QED
  BY <1>1, <1>2, <1>3, <1>4, <1>5, <1>6, <1>7, <1>8

\* The block that a start formats has an invalid header.
LEMMA ScanEraseKeeps ==
    ASSUME IInv, IInv', MapInv, MapInv', ScanErase, NEW k \in Keys
    PROVE  Dict'[k] = Dict[k]
<1>1. /\ ~Copying /\ ~Copying' /\ hdr[cur.blk] = "BAD" /\ cur.blk \in Blocks /\ EraseBlock(cur.blk)
  BY DEF ScanErase, Copying, GcPCs, MapInv, Served, IInv, TypeOK
<1>2. /\ \A b \in Blocks : hdr'[b] = IF b = cur.blk THEN "BAD" ELSE hdr[b]
      /\ \A b \in Blocks, s \in Slots : b # cur.blk => item'[b][s] = item[b][s]
  BY <1>1, EraseEffect DEF EraseBlock, SetHeader, IInv, TypeOK
<1>3. \A b \in Blocks, s \in Slots : InUseHas(b, s, k)' <=> InUseHas(b, s, k)
  BY <1>1, <1>2 DEF InUseHas, Has, Good, Normal, IsItem, Live
<1>4. \A b \in Blocks, s \in Slots : InUseHas(b, s, k) => item'[b][s] = item[b][s]
  BY <1>1, <1>2 DEF InUseHas, Live
<1>5. QED
  BY <1>1, <1>3, <1>4, DictStep DEF IInv, MapInv

\* A record write that is cut leaves a damaged record.
LEMMA CutStoreKeeps ==
    ASSUME IInv, IInv', MapInv, MapInv', CutStore, NEW k \in Keys
    PROVE  Dict'[k] = Dict[k]
<1>1. ~Copying /\ ~Copying' /\ UNCHANGED hdr
  BY DEF CutStore, PowerLoss, Copying, GcPCs
<1>2. PICK b \in Blocks, s \in Slots :
          /\ \A c \in Blocks, t \in Slots : c # b \/ t # s => item'[c][t] = item[c][t]
          /\ ~Good(b, s)' /\ item[b][s] = Erased
  BY CutStoreEffect
<1>3. ~Good(b, s)
  BY <1>2 DEF Good, Normal, IsItem
<1>4. \A c \in Blocks, t \in Slots : InUseHas(c, t, k)' <=> InUseHas(c, t, k)
  <2>1. \A c \in Blocks, t \in Slots : c # b \/ t # s => (Good(c, t)' <=> Good(c, t))
    BY <1>2 DEF Good, Normal, IsItem
  <2>2. QED
    BY <1>1, <1>2, <1>3, <2>1 DEF InUseHas, Has, Live
<1>5. \A c \in Blocks, t \in Slots : InUseHas(c, t, k) => item'[c][t] = item[c][t]
  BY <1>2, <1>3 DEF InUseHas, Has
<1>6. QED
  BY <1>1, <1>4, <1>5, DictStep DEF IInv, MapInv

\* The store of a new node, or after a factory reset, gets its first block.
LEMMA BootDoneKeeps ==
    ASSUME IInv, IInv', MapInv, MapInv', BootDone, NEW k \in Keys
    PROVE  Dict'[k] = Dict[k]
<1>1. UNCHANGED item /\ ~Copying /\ ~Copying' /\ pc = "boot_unclean"
  BY DEF BootDone, Copying, GcPCs
<1>2. CASE clean_blk_nums = 2
  <2>1. \A b \in Blocks : hdr[b] = "CLEAN"
    BY <1>1, <1>2, AllScanned DEF IInv, Starting, BootPCs, CleanBlocks, Counted, Ready, Known, Blocks
  <2>2. \A b \in Blocks : Filled(b, 1)
    BY <1>1, <2>1 DEF MapInv, Reserved
  <2>3. \A b \in Blocks, s \in Slots : ~Good(b, s) /\ ~Good(b, s)'
    BY <1>1, <2>2, ConstantsAssumption DEF Filled, Good, Normal, IsItem, Slots
  <2>4. QED
    BY <1>1, <2>3, DictStep DEF InUseHas, Has, IInv, MapInv
<1>3. CASE clean_blk_nums # 2
  BY <1>1, <1>3, LiveSame DEF BootDone, Live
<1>4. QED
  BY <1>2, <1>3

-----------------------------------------------------------------------------
(* A collection changes no key *)

\* While it copies, the records of its source count.
LEMMA SourceKeeps ==
    ASSUME IInv, IInv', MapInv, NEW a \in Blocks, Live(a), Live(a)',
           \A s \in Slots : item'[a][s] = item[a][s], NEW k \in Keys
    PROVE  Dict'[k] = Dict[k]
<1>1. Home(a) /\ Home(a)'
  BY HomeLive, HomeLiveNext DEF HomeRule, IInv
<1>2. Paired(a)
  BY DEF MapInv, Single
<1>3. \A s \in Slots : Has(a, s, k)' <=> Has(a, s, k)
  BY DEF Has, Good, Normal, IsItem
<1>4. QED
  BY <1>1, <1>2, <1>3, HomeSame

LEMMA GcCopyingKeeps ==
    ASSUME IInv, IInv', MapInv, GcStart \/ GcCopy \/ GcPass \/ GcCopied, NEW k \in Keys
    PROVE  Dict'[k] = Dict[k]
<1>1. CASE GcStart
  <2>1. PICK a \in GcSources : TRUE
    BY <1>1 DEF GcStart
  <2>2. a \in Blocks /\ Live(a) /\ UNCHANGED flash
    BY <1>1, <2>1 DEF GcStart, GcSources, IInv, Running, RunPCs, Live
  <2>3. QED
    BY <2>2, SourceKeeps DEF flash, Live
<1>2. CASE GcCopy \/ GcPass \/ GcCopied
  <2>1. pc = "gc_copy" /\ cur.blk \in Blocks /\ blk_state[cur.blk] = "DIRTY" /\ hdr[cur.blk] = "DIRTY"
    BY <1>2 DEF GcCopy, GcPass, GcCopied, IInv, TypeOK, Collecting, GcPCs
  <2>2. hdr'[cur.blk] = "DIRTY"
    BY <1>2, <2>1 DEF GcCopy, GcPass, GcCopied, PassInvalid, MarkDirty, flash
  <2>3. \A s \in Slots : item'[cur.blk][s] = item[cur.blk][s]
    <3>1. CASE GcPass \/ GcCopied
      BY <3>1 DEF GcPass, GcCopied, flash
    <3>2. CASE GcCopy
      <4>1. PICK a, b \in Blocks : a = cur.blk /\ a # b /\ \E s \in Slots : Behind(b, s)
        BY <2>1, CopyPlace DEF Copying, GcPCs
      <4>2. write_pos.blk = b /\ WriteItem(write_pos, At(cur))
        BY <3>2, <4>1 DEF GcCopy, Behind
      <4>3. item'[cur.blk] = item[cur.blk]
        BY <4>1, <4>2 DEF WriteItem, IInv, TypeOK
      <4>4. QED
        BY <4>3
    <3>3. QED
      BY <1>2, <3>1, <3>2
  <2>4. QED
    <3>1. Live(cur.blk) /\ cur.blk \in Blocks
      BY <2>1 DEF Live
    <3>2. PICK a \in Blocks : a = cur.blk
      BY <2>1
    <3>3. Live(a) /\ Live(a)' /\ \A s \in Slots : item'[a][s] = item[a][s]
      BY <2>1, <2>2, <2>3, <3>2 DEF Live
    <3>4. QED
      BY <3>3, SourceKeeps
<1>3. QED
  BY <1>1, <1>2

\* Behind the erasure its target does, with a copy of each record.
LEMMA GcEraseKeeps ==
    ASSUME IInv, IInv', MapInv, MapInv', GcErase, NEW k \in Keys
    PROVE  Dict'[k] = Dict[k]
<1>1. pc = "gc_erase" /\ Copying /\ EraseBlock(cur.blk)
  BY DEF GcErase, Copying, GcPCs
<1>2. PICK a, b \in Blocks : a = cur.blk /\ b = Other(a) /\ a # b /\ a = Other(b) /\ hdr[b] = "CLEAN"
  BY <1>1, CopyPlace
<1>3. One(a) /\ One(b) /\ CopiedTo(a, b, cur.slot) /\ Complete(a, cur.slot)
  BY <1>1, <1>2, CopiedHas DEF MapInv, CopiedTo
<1>4. /\ \A c \in Blocks : hdr'[c] = IF c = a THEN "BAD" ELSE hdr[c]
      /\ \A s \in Slots : item'[b][s] = item[b][s]
  BY <1>1, <1>2, EraseEffect DEF EraseBlock, SetHeader, IInv, TypeOK
<1>5. Live(a)
  BY <1>1, <1>2 DEF IInv, Collecting, GcPCs, Live
<1>6. Home(a)
  BY <1>5, HomeLive DEF HomeRule, IInv
<1>7. Home(b)'
  BY <1>2, <1>4 DEF Home, Kept
<1>8. \A s \in Slots : Has(b, s, k)' <=> Has(b, s, k)
  BY <1>4 DEF Has, Good, Normal, IsItem
<1>9. \A s \in Slots : (Has(a, s, k) <=> Normal(a, s) /\ item[a][s].key = k)
                       /\ (Has(b, s, k) <=> Normal(b, s) /\ item[b][s].key = k)
  BY <1>3, OneSaid DEF Has, Good
<1>10. \A s \in Slots : Has(a, s, k) => \E u \in Slots : Has(b, u, k) /\ item[b][u] = item[a][s]
  <2>1. ASSUME NEW s \in Slots, Has(a, s, k) PROVE \E u \in Slots : Has(b, u, k) /\ item[b][u] = item[a][s]
    <3>1. PICK u \in Slots : item[b][u] = item[a][s]
      BY <1>3, <1>9, <2>1 DEF CopiedTo, Complete
    <3>2. QED
      BY <1>9, <2>1, <3>1 DEF Has, Good, Normal, IsItem
  <2>2. QED
    BY <2>1
<1>11. \A u \in Slots : Has(b, u, k) => \E s \in Slots : Has(a, s, k)
  <2>1. ASSUME NEW u \in Slots, Has(b, u, k) PROVE \E s \in Slots : Has(a, s, k)
    <3>1. PICK s \in Slots : item[b][u] = item[a][s]
      BY <1>3, <1>9, <2>1 DEF CopiedTo
    <3>2. QED
      BY <1>9, <2>1, <3>1 DEF Has, Good, Normal, IsItem
  <2>2. QED
    BY <2>1
<1>12. CASE \A s \in Slots : ~Has(a, s, k)
  <2>1. Dict[k] = NoVal
    BY <1>6, <1>12, DictNone DEF DictNoneRule
  <2>2. Dict'[k] = NoVal
    BY <1>7, <1>8, <1>11, <1>12, DictNoneNext DEF DictNoneRule
  <2>3. QED
    BY <2>1, <2>2
<1>13. ASSUME NEW s \in Slots, Has(a, s, k) PROVE Dict'[k] = Dict[k]
  <2>1. \A c \in Blocks, x, y \in Slots :
           One(c) /\ Normal(c, x) /\ Normal(c, y) /\ item[c][x].key = k /\ item[c][y].key = k => x = y
    <3>1. SUFFICES ASSUME NEW c \in Blocks, NEW x \in Slots, NEW y \in Slots, One(c), Normal(c, x),
                          Normal(c, y), SameKey(c, x, y), SameKey(c, y, x)
                   PROVE  x = y
      BY DEF SameKey
    <3>2. ~(x < y) /\ ~(y < x)
      BY <3>1, OneSaid
    <3>3. QED
      BY <3>2, InSlots
  <2>2. Dict[k] = item[a][s].val
    BY <1>3, <1>6, <1>9, <1>13, <2>1, DictOne DEF DictOneRule
  <2>3. PICK u \in Slots : Has(b, u, k) /\ item[b][u] = item[a][s]
    BY <1>10, <1>13
  <2>4. Dict'[k] = item'[b][u].val
    BY <1>3, <1>7, <1>8, <1>9, <2>1, <2>3, DictOneNext DEF DictOneRule
  <2>5. QED
    BY <1>4, <2>2, <2>3, <2>4
<1>14. QED
  BY <1>12, <1>13

\* From then on they are the only ones.
LEMMA TargetHome ==
    ASSUME IInv, pc \in {"gc_header", "gc_used"}, NEW a \in Blocks, NEW b \in Blocks,
           a = cur.blk, b = Other(a), a = Other(b)
    PROVE  Home(b)
<1>1. hdr[b] = "CLEAN" /\ (hdr[a] = "BAD" \/ (hdr[a] = "CLEAN" /\ Filled(a, 1)))
  BY DEF IInv, Collecting, GcPCs, Empty
<1>2. hdr[a] = "CLEAN" => \A s \in Slots : ~Good(a, s)
  BY <1>1, ConstantsAssumption DEF Filled, Good, Normal, IsItem, Slots
<1>3. QED
  BY <1>1, <1>2 DEF Home, Kept

LEMMA GcEndKeeps ==
    ASSUME IInv, IInv', MapInv, GcHeader \/ GcUsed, NEW k \in Keys
    PROVE  Dict'[k] = Dict[k]
<1>1. pc \in {"gc_header", "gc_used"} /\ Copying /\ UNCHANGED item
  BY DEF GcHeader, GcUsed, Copying, GcPCs
<1>2. PICK a, b \in Blocks : a = cur.blk /\ b = Other(a) /\ a # b /\ a = Other(b) /\ hdr[b] = "CLEAN"
                             /\ \E s \in Slots : Behind(b, s)
  BY <1>1, CopyPlace
<1>3. Home(b)
  BY <1>1, <1>2, TargetHome
<1>4. One(b) /\ Paired(b)
  BY <1>1, <1>2, CopiedHas, OneIsPaired DEF MapInv, OneRule
<1>5. Filled(a, 1)
  BY <1>1, <1>2 DEF IInv, Collecting, GcPCs, Empty
<1>6. \A s \in Slots : ~Good(a, s)'
  BY <1>1, <1>5, ConstantsAssumption DEF Filled, Good, Normal, IsItem, Slots
<1>7. hdr'[a] = "CLEAN" /\ hdr'[b] \in {"CLEAN", "USED"}
  <2>1. CASE GcHeader
    BY <1>2, <2>1 DEF GcHeader, WriteCleanHeader, SetHeader, IInv, TypeOK
  <2>2. CASE GcUsed
    <3>1. write_pos.blk = b /\ hdr[a] = "CLEAN"
      BY <1>2, <2>2 DEF GcUsed, Behind, IInv, Collecting, GcPCs
    <3>2. QED
      BY <1>2, <2>2, <3>1 DEF GcUsed, SetHeader, IInv, TypeOK
  <2>3. QED
    BY <2>1, <2>2
<1>8. Home(b)'
  BY <1>2, <1>6, <1>7 DEF Home, Kept
<1>9. \A s \in Slots : Has(b, s, k)' <=> Has(b, s, k)
  BY <1>1 DEF Has, Good, Normal, IsItem
<1>10. QED
  BY <1>1, <1>3, <1>4, <1>8, <1>9, HomeSame

-----------------------------------------------------------------------------
(* The store implements the durable map *)

DictRule == Dict = [k \in Keys |-> Dict[k]]
LEMMA DictFunction == DictRule
BY DEF DictRule, Dict
LEMMA DictFunctionNext == DictRule'
BY DictFunction, PTL

LEMMA DictSame == ASSUME \A k \in Keys : Dict'[k] = Dict[k] PROVE Dict' = Dict
BY DictFunction, DictFunctionNext DEF DictRule
LEMMA DictUpdated ==
    ASSUME NEW x \in Keys, NEW v, Dict'[x] = v, \A k \in Keys : k # x => Dict'[k] = Dict[k]
    PROVE  Dict' = [Dict EXCEPT ![x] = v]
<1>1. \A k \in Keys : Dict'[k] = [Dict EXCEPT ![x] = v][k]
  BY DictFunction DEF DictRule
<1>2. [Dict EXCEPT ![x] = v] = [k \in Keys |-> [Dict EXCEPT ![x] = v][k]]
  BY DictFunction DEF DictRule
<1>3. QED
  BY <1>1, <1>2, DictFunctionNext DEF DictRule
LEMMA DictRemoved ==
    ASSUME NEW K, \A k \in Keys : Dict'[k] = IF k \in K THEN NoVal ELSE Dict[k]
    PROVE  Dict' = [k \in Keys |-> IF k \in K THEN NoVal ELSE Dict[k]]
BY DictFunctionNext DEF DictRule

\* The phase of a call, by what the program knows of its result.
PhaseRule ==
    /\ pc = "idle" => Phase = "idle"
    /\ pc = "off" \/ (pc # "idle" /\ req = NoReq) => Phase = "down"
    /\ pc \notin {"idle", "off"} /\ req # NoReq =>
          Phase = IF ret = "none"
                  THEN IF req.op \in {"del_matching", "factory"} \/ pc = "del"
                       THEN "committed" ELSE "called"
                  ELSE IF ret = "ok" THEN "ok" ELSE "refused"
LEMMA PhaseIs == PhaseRule
BY DEF PhaseRule, Phase
LEMMA PhaseNext == PhaseRule'
BY PhaseIs, PTL

OutRule ==
    /\ req = NoReq \/ req.op # "get" \/ ret # "ok" => Out = NoVal
    /\ req # NoReq /\ req.op = "get" /\ ret = "ok" => Out = At(old).val
LEMMA OutIs == OutRule
BY DEF OutRule, Out
LEMMA OutNext == OutRule'
BY OutIs, PTL

\* The steps of the map.
LEMMA MapStutters ==
    ASSUME \A k \in Keys : Dict'[k] = Dict[k], UNCHANGED <<req, Phase, Out>>
    PROVE  [Map!Next]_(Map!vars)
<1>1. Dict' = Dict
  BY DictSame
<1>2. QED
  BY <1>1 DEF Map!vars

LEMMA MapTakes ==
    ASSUME Phase \in {"called", "committed"}, Phase' = "committed", UNCHANGED <<req, Out>>,
           NEW K \in SUBSET Map!Removed(req),
           \A k \in Keys : Dict'[k] = IF k \in K THEN NoVal ELSE Dict[k]
    PROVE  [Map!Next]_(Map!vars)
<1>1. Map!Effect(req, Dict')
  BY DictRemoved DEF Map!Effect
<1>2. QED
  BY <1>1 DEF Map!Next, Map!TakeEffect

LEMMA RequestNotNone == NoReq \notin Request
BY ConstantsAssumption

\* Serving a request.
LEMMA MapCalls ==
    ASSUME IInv, IInv', MapInv, MapInv', Uncut, Calls
    PROVE  [Map!Next]_(Map!vars)
<1>1. PICK r \in Request : Call(r)
  BY ConstantsAssumption DEF Calls, CallSet, CallGet, CallDel, CallDelMatching, CallFactory, Request
<1>2. /\ pc = "idle" /\ req' = r /\ ret = "none" /\ ret' = "none"
      /\ pc' \in {"find", "bulk", "factory0"}
  <2>1. r.op \in {"set", "get", "del", "del_matching", "factory"}
    BY DEF Request
  <2>2. QED
    BY <1>1, <2>1 DEF Call, MapInv, Served, GcPCs
<1>3. Phase = "idle" /\ Phase' = IF r.op \in {"del_matching", "factory"} THEN "committed" ELSE "called"
  BY <1>2, PhaseIs, PhaseNext, RequestNotNone DEF PhaseRule
<1>4. Out = NoVal /\ Out' = NoVal
  BY <1>2, OutIs, OutNext DEF OutRule
<1>5. Dict' = Dict
  BY QuietSteps, DictSame
<1>6. QED
  BY <1>1, <1>2, <1>3, <1>4, <1>5 DEF Map!Next, Map!Call

LEMMA MapReturn ==
    ASSUME IInv, IInv', MapInv, MapInv', Uncut, Return
    PROVE  [Map!Next]_(Map!vars)
<1>1. /\ pc = "return" /\ pc' = "idle" /\ req' = NoReq /\ ret # "none" /\ req \in Request
  BY DEF Return, MapInv, Served, OpPCs, GcPCs
<1>2. Phase \in {"ok", "refused"} /\ Phase' = "idle" /\ Out' = NoVal
  BY <1>1, PhaseIs, PhaseNext, OutNext, RequestNotNone DEF PhaseRule, OutRule
<1>3. Dict' = Dict
  BY QuietSteps, DictSame
<1>4. QED
  BY <1>1, <1>2, <1>3 DEF Map!Next, Map!Return

LEMMA MapFind ==
    ASSUME IInv, IInv', MapInv, MapInv', Uncut, FindHit \/ FindMiss
    PROVE  [Map!Next]_(Map!vars)
<1>1. /\ pc = "find" /\ UNCHANGED <<req, item>> /\ req \in Request /\ req # NoReq /\ ret = "none"
      /\ req.op \in {"set", "get", "del"} /\ req.key \in Keys
  <2>1. pc = "find" /\ UNCHANGED <<req, item>>
    BY DEF FindHit, FindMiss
  <2>2. req \in Request /\ ret = "none" /\ req.op \in {"set", "get", "del"}
    BY <2>1 DEF MapInv, Served, OpPCs, GcPCs, IInv, OldRecord
  <2>3. QED
    BY <2>1, <2>2, RequestNotNone DEF Request
<1>2. Phase = "called" /\ Out = NoVal
  BY <1>1, PhaseIs, OutIs DEF PhaseRule, OutRule
<1>3. Dict' = Dict /\ \A k \in Keys : Dict'[k] = Dict[k]
  BY QuietSteps, DictSame
<1>4. Map!Removed(req) = IF req.op = "del" THEN {req.key} ELSE {}
  BY <1>1 DEF Map!Removed
<1>5. CASE FindHit
  <2>1. PICK p \in First(Matches(req.key)) :
          /\ old' = p
          /\ \/ req.op = "get" /\ ret' = "ok" /\ pc' = "return"
             \/ req.op = "del" /\ pc' = "del" /\ UNCHANGED ret
             \/ req.op = "set" /\ At(p).val = req.val /\ ret' = "ok" /\ pc' = "gc_start"
             \/ req.op = "set" /\ At(p).val # req.val /\ pc' = "store" /\ UNCHANGED ret
    BY <1>5 DEF FindHit
  <2>2. p \in Pos /\ Live(p.blk) /\ Normal(p.blk, p.slot) /\ At(p).key = req.key
    BY <1>1, <2>1, MatchPlace DEF First, RunPCs
  <2>3. One(p.blk)
    BY <1>1, <2>2, PosParts DEF MapInv, Single, RunPCs
  <2>4. Dict[req.key] = At(p).val
    BY <1>1, <2>2, <2>3, PosParts, Present DEF PresentRule, IInv, At
  <2>5. CASE req.op = "get"
    <3>1. ret' = "ok" /\ pc' = "return" /\ Phase' = "ok" /\ Out' = At(p).val
      BY <1>1, <2>1, <2>5, PhaseNext, OutNext DEF PhaseRule, OutRule, At
    <3>2. Map!InPlace(req, Dict')
      BY <1>4, <2>5 DEF Map!InPlace
    <3>3. QED
      BY <1>1, <1>2, <1>3, <2>4, <2>5, <3>1, <3>2 DEF Map!Next, Map!Acknowledge
  <2>6. CASE req.op = "del"
    <3>1. Phase' = "committed" /\ Out' = NoVal
      BY <1>1, <2>1, <2>6, PhaseNext, OutNext DEF PhaseRule, OutRule
    <3>2. {} \in SUBSET Map!Removed(req)
      OBVIOUS
    <3>3. QED
      BY <1>1, <1>2, <1>3, <3>1, <3>2, MapTakes
  <2>7. CASE req.op = "set" /\ At(p).val = req.val
    <3>1. ret' = "ok" /\ pc' = "gc_start"
      BY <2>1, <2>7
    <3>2. Phase' = "ok" /\ Out' = NoVal
      BY <1>1, <2>7, <3>1, PhaseNext, OutNext DEF PhaseRule, OutRule
    <3>3. Map!InPlace(req, Dict')
      BY <1>1, <1>3, <1>4, <2>4, <2>7 DEF Map!InPlace
    <3>4. QED
      BY <1>1, <1>2, <1>3, <2>7, <3>2, <3>3 DEF Map!Next, Map!Acknowledge
  <2>8. CASE req.op = "set" /\ At(p).val # req.val
    <3>1. UNCHANGED ret /\ pc' = "store"
      BY <2>1, <2>8
    <3>2. Phase' = "called" /\ Out' = NoVal
      BY <1>1, <2>8, <3>1, PhaseNext, OutNext DEF PhaseRule, OutRule
    <3>3. QED
      BY <1>1, <1>2, <1>3, <3>2, MapStutters
  <2>9. QED
    BY <1>1, <2>5, <2>6, <2>7, <2>8
<1>6. CASE FindMiss
  <2>1. CASE req.op = "set"
    <3>1. UNCHANGED ret /\ pc' = "store"
      BY <1>6, <2>1 DEF FindMiss
    <3>2. Phase' = "called" /\ Out' = NoVal
      BY <1>1, <2>1, <3>1, PhaseNext, OutNext DEF PhaseRule, OutRule
    <3>3. QED
      BY <1>1, <1>2, <1>3, <3>2, MapStutters
  <2>2. CASE req.op # "set"
    <3>1. ret' = "not_found" /\ pc' = "return"
      BY <1>6, <2>2 DEF FindMiss
    <3>2. Phase' = "refused" /\ Out' = NoVal
      BY <1>1, <2>2, <3>1, PhaseNext, OutNext DEF PhaseRule, OutRule
    <3>3. \A b \in Blocks, s \in Slots : Live(b) => ~Has(b, s, req.key)
      BY <1>1, <1>6, MatchPlace DEF FindMiss, RunPCs, Has, Good
    <3>4. Dict[req.key] = NoVal
      BY <1>1, <3>3, Absent DEF AbsentRule, IInv, MapInv, Copying, GcPCs
    <3>5. QED
      BY <1>1, <1>2, <1>3, <2>2, <3>2, <3>4 DEF Map!Next, Map!Refuse
  <2>3. QED
    BY <2>1, <2>2
<1>7. QED
  BY <1>5, <1>6

-----------------------------------------------------------------------------
(* The refinement: calls that write *)

\* What a call is known to be while it is served.
LEMMA Serving ==
    ASSUME MapInv, pc \in OpPCs
    PROVE  /\ req \in Request /\ req # NoReq
           /\ req.op \in {"set", "get", "del"} => req.key \in Keys
           /\ req.op = "set" => req.val \in Vals
           /\ req.op = "del_matching" => req.keys \in SUBSET Keys
<1>1. req \in Request /\ req # NoReq
  BY RequestNotNone DEF MapInv, Served
<1>2. QED
  BY <1>1, ConstantsAssumption DEF Request

LEMMA MapStore ==
    ASSUME IInv, IInv', MapInv, MapInv', Store
    PROVE  [Map!Next]_(Map!vars)
<1>1. pc = "store" /\ UNCHANGED <<req, hdr, old>> /\ req.op = "set" /\ ret = "none" /\ ~Copying /\ ~Copying'
  BY DEF Store, IInv, OldRecord, Copying, GcPCs, MapInv, Served
<1>2. req \in Request /\ req # NoReq /\ req.key \in Keys
  BY <1>1, Serving DEF OpPCs
<1>3. PICK b \in Blocks, s \in Slots, i \in Item :
          /\ Live(b) /\ ~Live(Other(b))
          /\ \A t \in Slots : IsItem(b, t) => t < s
          /\ i.key = req.key /\ i.val = req.val /\ i.crc /\ i.origin_off = old
          /\ \A c \in Blocks, t \in Slots : item'[c][t] = IF c = b /\ t = s THEN i ELSE item[c][t]
          /\ Normal(b, s)' /\ item[b][s] = Erased
  BY StoreEffect
<1>4. ~Has(b, s, req.key) /\ Has(b, s, req.key)'
  <2>1. item'[b][s] = i /\ ~IsItem(b, s)
    BY <1>3 DEF IsItem
  <2>2. QED
    BY <1>1, <1>3, <2>1 DEF Has, Good, Normal
<1>5. Live(b)' /\ Home(b) /\ Home(b)'
  BY <1>1, <1>3, HomeLive, HomeLiveNext DEF HomeRule, IInv, Live
<1>6. Phase = "called" /\ Out = NoVal /\ Out' = NoVal
  BY <1>1, <1>2, PhaseIs, OutIs, OutNext DEF PhaseRule, OutRule
<1>7. ASSUME NEW k \in Keys, k # req.key PROVE Dict'[k] = Dict[k]
  <2>1. ~Has(b, s, k) /\ ~Has(b, s, k)'
    BY <1>3, <1>7 DEF Has, Good, Normal, IsItem
  <2>2. \A t \in Slots : t # s => (Has(b, t, k)' <=> Has(b, t, k))
    BY <1>3 DEF Has, Good, Normal, IsItem
  <2>3. \A t \in Slots : Has(b, t, k) => item'[b][t] = item[b][t]
    BY <1>3, <2>1
  <2>4. Paired(b)
    BY <1>3 DEF MapInv, Single
  <2>5. QED
    BY <1>5, <2>1, <2>2, <2>3, <2>4, HomeSame
<1>8. Map!Removed(req) = {}
  BY <1>1 DEF Map!Removed
<1>9. ASSUME Dict'[req.key] = req.val
      PROVE  Map!Effect(req, Dict')
  BY <1>1, <1>2, <1>7, <1>9, DictUpdated DEF Map!Effect
<1>10. CASE old = NoPos
  <2>1. \A t \in Slots : Has(b, t, req.key)' <=> t = s
    <3>1. \A t \in Slots : ~Has(b, t, req.key)
      BY <1>1, <1>3, <1>10 DEF MapInv, Updating, Has, Good
    <3>2. \A t \in Slots : t # s => (Has(b, t, req.key)' <=> Has(b, t, req.key))
      BY <1>1, <1>3 DEF Has, Good, Normal, IsItem
    <3>3. QED
      BY <1>1, <1>4, <3>1, <3>2
  <2>2. Dict'[req.key] = req.val
    BY <1>1, <1>2, <1>3, <1>5, <2>1, DictOneNext DEF DictOneRule
  <2>3. Phase' = "ok"
    <3>1. ret' = "ok" /\ pc' = "gc_start"
      BY <1>10 DEF Store
    <3>2. QED
      BY <1>1, <1>2, <3>1, PhaseNext DEF PhaseRule
  <2>4. Map!InPlace(req, Dict')
    BY <1>8, <2>2 DEF Map!InPlace
  <2>5. QED
    BY <1>1, <1>6, <1>9, <2>2, <2>3, <2>4 DEF Map!Next, Map!Acknowledge
<1>11. CASE old # NoPos
  <2>1. Phase' = "committed"
    <3>1. UNCHANGED ret /\ pc' = "del"
      BY <1>11 DEF Store
    <3>2. QED
      BY <1>1, <1>2, <3>1, PhaseNext DEF PhaseRule
  <2>2. old \in Pos /\ Live(old.blk) /\ Normal(old.blk, old.slot) /\ At(old).key = req.key
    BY <1>1, <1>11 DEF MapInv, Updating, IInv, OldRecord
  <2>3. PICK o \in Slots : old = In(b, o) /\ old.slot = o /\ old.blk = b /\ o < s
    <3>1. old.blk = b
      BY <1>3, <2>2, PosParts, OthersBlock DEF IInv, OneReserve, Live
    <3>2. QED
      BY <1>3, <2>2, <3>1, PosParts DEF Normal
  <2>4. One(b)
    BY <1>1, <1>3 DEF MapInv, Single, RunPCs
  <2>5. \A t \in Slots : Has(b, t, req.key) <=> t = o
    <3>1. Has(b, o, req.key)
      BY <2>2, <2>3, <2>4, OneSaid DEF Has, Good, At
    <3>2. ASSUME NEW t \in Slots, Has(b, t, req.key) PROVE t = o
      <4>1. SameKey(b, t, o) /\ SameKey(b, o, t) /\ Normal(b, t) /\ Normal(b, o)
        BY <3>1, <3>2 DEF Has, Good, SameKey
      <4>2. ~(t < o) /\ ~(o < t)
        BY <2>4, <4>1, OneSaid
      <4>3. QED
        BY <4>2, InSlots
    <3>3. QED
      BY <3>1, <3>2
  <2>6. Dict[req.key] = item[b][o].val
    BY <1>2, <1>5, <2>5, DictOne DEF DictOneRule
  <2>7. \A t \in Slots : Has(b, t, req.key)' <=> t \in {o, s}
    <3>1. \A t \in Slots : t # s => (Has(b, t, req.key)' <=> Has(b, t, req.key))
      BY <1>1, <1>3 DEF Has, Good, Normal, IsItem
    <3>2. QED
      BY <1>1, <1>4, <2>5, <3>1
  <2>8. item'[b][o] = item[b][o] /\ item'[b][s] = i
    BY <1>3, <2>3, InSlots
  <2>9. Dict'[req.key] = IF item'[b][o].origin_off = In(b, s) THEN item'[b][o].val ELSE item'[b][s].val
    <3>1. Has(b, o, req.key)' /\ Has(b, s, req.key)' /\ \A t \in Slots : Has(b, t, req.key)' => t \in {o, s}
      BY <2>7
    <3>2. item'[b][s].origin_off = In(b, o)
      BY <1>3, <2>3, <2>8
    <3>3. QED
      BY <1>1, <1>2, <1>5, <2>3, <3>1, <3>2, DictPairNext DEF DictPairRule, In
  <2>10. CASE Dict'[req.key] = req.val
    BY <1>1, <1>6, <1>9, <2>1, <2>10 DEF Map!Next, Map!TakeEffect
  <2>11. CASE Dict'[req.key] # req.val
    <3>1. \A k \in Keys : Dict'[k] = Dict[k]
      BY <1>2, <1>3, <1>7, <2>6, <2>8, <2>9, <2>11
    <3>2. {} \in SUBSET Map!Removed(req)
      OBVIOUS
    <3>3. QED
      BY <1>1, <1>6, <2>1, <3>1, <3>2, MapTakes
  <2>12. QED
    BY <2>10, <2>11
<1>12. QED
  BY <1>10, <1>11

LEMMA MapNoSpace ==
    ASSUME IInv, IInv', MapInv, MapInv', Uncut, StoreNoSpace
    PROVE  [Map!Next]_(Map!vars)
<1>1. /\ pc = "store" /\ UNCHANGED req /\ req.op = "set" /\ ret = "none"
      /\ pc' = "gc_start" /\ ret' = "no_space"
  BY DEF StoreNoSpace, IInv, OldRecord, MapInv, Served, GcPCs
<1>2. req # NoReq
  BY <1>1, Serving DEF OpPCs
<1>3. Phase = "called" /\ Phase' = "refused" /\ Out = NoVal /\ Out' = NoVal
  BY <1>1, <1>2, PhaseIs, PhaseNext, OutIs, OutNext DEF PhaseRule, OutRule
<1>4. Dict' = Dict
  BY QuietSteps, DictSame
<1>5. QED
  BY <1>1, <1>3, <1>4 DEF Map!Next, Map!Refuse

\* The old record of an update, or the one of a del.
LEMMA MapDelItem ==
    ASSUME IInv, IInv', MapInv, MapInv', DelItem
    PROVE  [Map!Next]_(Map!vars)
<1>1. /\ pc = "del" /\ UNCHANGED <<req, hdr>> /\ req.op \in {"set", "del"} /\ ret = "none"
      /\ ~Copying /\ ~Copying' /\ ret' = "ok" /\ pc' \in {"mark", "gc_start", "return"}
      /\ Delete(old)
  BY DEF DelItem, AfterDelete, AfterOp, Copying, GcPCs, MapInv, Served
<1>2. req \in Request /\ req # NoReq /\ req.key \in Keys
  BY <1>1, Serving DEF OpPCs
<1>3. old \in Pos /\ IsItem(old.blk, old.slot) /\ Live(old.blk) /\ Normal(old.blk, old.slot)
      /\ At(old).key = req.key
  BY <1>1 DEF IInv, OldRecord, MapInv, Updating
<1>4. PICK b \in Blocks, o \in Slots : old = In(b, o) /\ old.blk = b /\ old.slot = o
  BY <1>3, PosParts
<1>5. \A c \in Blocks, t \in Slots :
         IF c = b /\ t = o THEN ~Normal(c, t)' ELSE item'[c][t] = item[c][t]
  BY <1>1, <1>3, <1>4, DeleteEffect DEF IInv
<1>6. Phase = "committed" /\ Phase' = "ok" /\ Out = NoVal /\ Out' = NoVal
  BY <1>1, <1>2, PhaseIs, PhaseNext, OutIs, OutNext DEF PhaseRule, OutRule
<1>7. ASSUME NEW k \in Keys, k # req.key PROVE Dict'[k] = Dict[k]
  <2>1. ~Has(b, o, k) /\ ~Has(b, o, k)'
    BY <1>3, <1>4, <1>5, <1>7 DEF Has, Good, At
  <2>2. \A c \in Blocks, t \in Slots : ~(c = b /\ t = o) => (Has(c, t, k)' <=> Has(c, t, k))
    BY <1>5 DEF Has, Good, Normal, IsItem
  <2>3. \A c \in Blocks, t \in Slots : InUseHas(c, t, k)' <=> InUseHas(c, t, k)
    BY <1>1, <2>1, <2>2 DEF InUseHas, Live
  <2>4. \A c \in Blocks, t \in Slots : InUseHas(c, t, k) => item'[c][t] = item[c][t]
    BY <1>5, <2>1 DEF InUseHas
  <2>5. QED
    BY <1>1, <2>3, <2>4, DictStep DEF IInv, MapInv
<1>8. Home(b)'
  BY <1>1, <1>3, <1>4, HomeLiveNext DEF HomeRule, IInv, Live
<1>9. \A t \in Slots : t # o => (Has(b, t, req.key)' <=> Has(b, t, req.key))
  BY <1>1, <1>5 DEF Has, Good, Normal, IsItem
<1>10. ~Has(b, o, req.key)'
  BY <1>5 DEF Has, Good
<1>11. CASE req.op = "set"
  <2>1. PICK n \in Slots :
              /\ o < n /\ Normal(b, n) /\ item[b][n].key = req.key /\ item[b][n].val = req.val
              /\ \A s \in Slots : Normal(b, s) => item[b][s].crc
              /\ \A s, u \in Slots :
                    s < u /\ Normal(b, s) /\ Normal(b, u) /\ SameKey(b, s, u) => s = o /\ u = n
    BY <1>1, <1>4, <1>11 DEF MapInv, Updating
  <2>2. n # o /\ Has(b, n, req.key)
    BY <2>1, InSlots DEF Has, Good
  <2>3. ASSUME NEW t \in Slots, Has(b, t, req.key), t # o PROVE t = n
    <3>1. SameKey(b, t, n) /\ SameKey(b, n, t) /\ Normal(b, t)
      BY <2>1, <2>3 DEF Has, Good, SameKey
    <3>2. ~(t < n) /\ ~(n < t)
      BY <2>1, <2>2, <2>3, <3>1
    <3>3. QED
      BY <3>2, InSlots
  <2>4. \A t \in Slots : Has(b, t, req.key)' <=> t = n
    BY <1>1, <1>9, <1>10, <2>2, <2>3
  <2>5. Dict'[req.key] = req.val
    <3>1. item'[b][n].val = req.val
      BY <1>5, <2>1, <2>2
    <3>2. QED
      BY <1>1, <1>2, <1>8, <2>4, <3>1, DictOneNext DEF DictOneRule
  <2>6. Map!Effect(req, Dict')
    BY <1>2, <1>7, <1>11, <2>5, DictUpdated DEF Map!Effect
  <2>7. Map!InPlace(req, Dict')
    BY <1>11, <2>5 DEF Map!InPlace, Map!Removed
  <2>8. QED
    BY <1>1, <1>6, <1>11, <2>6, <2>7 DEF Map!Next, Map!Acknowledge
<1>12. CASE req.op = "del"
  <2>1. One(b)
    BY <1>1, <1>3, <1>4, <1>12 DEF MapInv, Single, RunPCs
  <2>2. ASSUME NEW t \in Slots, Has(b, t, req.key) PROVE t = o
    <3>1. SameKey(b, t, o) /\ SameKey(b, o, t) /\ Normal(b, t) /\ Normal(b, o)
      BY <1>3, <1>4, <2>2 DEF Has, Good, SameKey, At
    <3>2. ~(t < o) /\ ~(o < t)
      BY <2>1, <3>1, OneSaid
    <3>3. QED
      BY <3>2, InSlots
  <2>3. \A t \in Slots : ~Has(b, t, req.key)'
    BY <1>9, <1>10, <2>2
  <2>4. Dict'[req.key] = NoVal
    BY <1>1, <1>2, <1>8, <2>3, DictNoneNext DEF DictNoneRule
  <2>5. Map!Removed(req) = {req.key}
    BY <1>12 DEF Map!Removed
  <2>6. Map!Effect(req, Dict')
    <3>1. \A k \in Keys : Dict'[k] = IF k \in {req.key} THEN NoVal ELSE Dict[k]
      BY <1>7, <2>4
    <3>2. Dict' = [k \in Keys |-> IF k \in {req.key} THEN NoVal ELSE Dict[k]]
      BY <3>1, DictRemoved
    <3>3. {req.key} \in SUBSET Map!Removed(req)
      BY <2>5
    <3>4. QED
      BY <3>2, <3>3 DEF Map!Effect
  <2>7. Map!InPlace(req, Dict')
    BY <1>12, <2>4, <2>5 DEF Map!InPlace
  <2>8. QED
    BY <1>1, <1>6, <1>12, <2>6, <2>7 DEF Map!Next, Map!Acknowledge
<1>13. QED
  BY <1>1, <1>11, <1>12

-----------------------------------------------------------------------------
(* The refinement: the removal of many keys *)

\* What a traversal deletes is a key of the request, gone from then on.
LEMMA MapBulkDelete ==
    ASSUME IInv, IInv', MapInv, MapInv', Uncut, BulkDelete
    PROVE  [Map!Next]_(Map!vars)
<1>1. /\ pc = "bulk" /\ ~AtEnd /\ NextRecord /\ Normal(cur.blk, cur.slot)
      /\ UNCHANGED <<req, hdr, ret>> /\ req.op = "del_matching" /\ ret = "none"
      /\ ~Copying /\ ~Copying' /\ pc' \in {"bulk", "bulk_mark"}
  BY DEF BulkDelete, AfterDelete, Copying, GcPCs, MapInv, Served, IInv, OldRecord, ram
<1>2. req \in Request /\ req # NoReq /\ req.keys \in SUBSET Keys
  BY <1>1, Serving DEF OpPCs
<1>3. Phase = "committed" /\ Phase' = "committed" /\ Out = NoVal /\ Out' = NoVal
  BY <1>1, <1>2, PhaseIs, PhaseNext, OutIs, OutNext DEF PhaseRule, OutRule
<1>4. CASE UNCHANGED item
  <2>1. \A k \in Keys : Dict'[k] = Dict[k]
    BY <1>1, <1>4, LiveSame DEF Live
  <2>2. QED
    BY <1>1, <1>3, <2>1, MapStutters
<1>5. CASE At(cur).key \in req.keys /\ Delete(cur)
  <2>1. PICK b \in Blocks, o \in Slots : cur = In(b, o) /\ cur.blk = b /\ cur.slot = o
    BY <1>1, CursorPlace DEF In
  <2>2. \A c \in Blocks, t \in Slots :
           IF c = b /\ t = o THEN ~Normal(c, t)' ELSE item'[c][t] = item[c][t]
    <3>1. cur \in Pos
      BY <2>1 DEF In, Pos
    <3>2. QED
      BY <1>1, <1>5, <2>1, <3>1, DeleteEffect DEF IInv, Normal
  <2>3. PICK x \in Keys : x = At(cur).key /\ x \in req.keys
    BY <1>2, <1>5
  <2>4. Live(b)
    <3>1. ~Filled(b, 1)
      BY <1>1, <2>1, ConstantsAssumption DEF Filled, Normal, IsItem, Slots
    <3>2. hdr[b] \in {"USED", "DIRTY", "CLEAN"}
      BY <1>1, OthersBlock DEF IInv, Running, RunPCs, Blocks, Other
    <3>3. QED
      BY <1>1, <3>1, <3>2 DEF MapInv, Reserved, Live
  <2>5. One(b)
    BY <1>1, <2>4 DEF MapInv, Single, RunPCs
  <2>6. ASSUME NEW k \in Keys, k # x PROVE Dict'[k] = Dict[k]
    <3>1. ~Has(b, o, k) /\ ~Has(b, o, k)'
      BY <2>1, <2>2, <2>3, <2>6 DEF Has, Good, At
    <3>2. \A c \in Blocks, t \in Slots : ~(c = b /\ t = o) => (Has(c, t, k)' <=> Has(c, t, k))
      BY <2>2 DEF Has, Good, Normal, IsItem
    <3>3. \A c \in Blocks, t \in Slots : InUseHas(c, t, k)' <=> InUseHas(c, t, k)
      BY <1>1, <3>1, <3>2 DEF InUseHas, Live
    <3>4. \A c \in Blocks, t \in Slots : InUseHas(c, t, k) => item'[c][t] = item[c][t]
      BY <2>2, <3>1 DEF InUseHas
    <3>5. QED
      BY <1>1, <3>3, <3>4, DictStep DEF IInv, MapInv
  <2>7. ASSUME NEW t \in Slots, Has(b, t, x) PROVE t = o
    <3>1. SameKey(b, t, o) /\ SameKey(b, o, t) /\ Normal(b, t) /\ Normal(b, o)
      BY <1>1, <2>1, <2>3, <2>7 DEF Has, Good, SameKey, At
    <3>2. ~(t < o) /\ ~(o < t)
      BY <2>5, <3>1, OneSaid
    <3>3. QED
      BY <3>2, InSlots
  <2>8. \A t \in Slots : ~Has(b, t, x)'
    <3>1. \A t \in Slots : t # o => (Has(b, t, x)' <=> Has(b, t, x))
      BY <2>2 DEF Has, Good, Normal, IsItem
    <3>2. ~Has(b, o, x)'
      BY <2>2 DEF Has, Good
    <3>3. QED
      BY <2>7, <3>1, <3>2
  <2>9. Home(b)'
    BY <1>1, <2>4, HomeLiveNext DEF HomeRule, IInv, Live
  <2>10. Dict'[x] = NoVal
    BY <2>8, <2>9, DictNoneNext DEF DictNoneRule
  <2>11. {x} \in SUBSET Map!Removed(req)
    BY <1>1, <2>3 DEF Map!Removed
  <2>12. \A k \in Keys : Dict'[k] = IF k \in {x} THEN NoVal ELSE Dict[k]
    BY <2>6, <2>10
  <2>13. QED
    BY <1>1, <1>3, <2>11, <2>12, MapTakes
<1>6. QED
  BY <1>4, <1>5 DEF BulkDelete

\* When the last block has been read, no key of the request is left.
LEMMA MapBulkDone ==
    ASSUME IInv, IInv', MapInv, MapInv', Uncut, BulkNextBlock
    PROVE  [Map!Next]_(Map!vars)
<1>1. /\ pc = "bulk" /\ AtEnd /\ UNCHANGED <<req, item>> /\ req.op = "del_matching" /\ ret = "none"
      /\ ~Copying
  BY DEF BulkNextBlock, flash, Copying, GcPCs, MapInv, Served, IInv, OldRecord
<1>2. req \in Request /\ req # NoReq /\ req.keys \in SUBSET Keys
  BY <1>1, Serving DEF OpPCs
<1>3. Phase = "committed" /\ Out = NoVal /\ Out' = NoVal
  BY <1>1, <1>2, PhaseIs, OutIs, OutNext DEF PhaseRule, OutRule
<1>4. Dict' = Dict /\ \A k \in Keys : Dict'[k] = Dict[k]
  BY QuietSteps, DictSame
<1>5. CASE UNCHANGED <<pc, ret>>
  <2>1. Phase' = "committed"
    BY <1>1, <1>2, <1>5, PhaseNext DEF PhaseRule
  <2>2. QED
    BY <1>1, <1>3, <1>4, <2>1, MapStutters
<1>6. CASE cur.blk = 1 /\ pc' = "return" /\ ret' = "ok"
  <2>1. Phase' = "ok"
    BY <1>1, <1>2, <1>6, PhaseNext DEF PhaseRule
  <2>2. ASSUME NEW k \in req.keys PROVE Dict[k] = NoVal
    <3>1. ASSUME NEW b \in Blocks, NEW s \in Slots, Live(b), Has(b, s, k) PROVE FALSE
      <4>1. ~Before([blk |-> b, slot |-> s], cur)
        BY <1>1, <2>2, <3>1 DEF MapInv, Deleting, Has, Good
      <4>2. PICK e \in 1..Cap : Filled(b, e)
        BY DEF IInv, Contiguous
      <4>3. s < e
        BY <3>1, <4>2, FilledRecords DEF Has, Good, Normal
      <4>4. EndOf(b) = e
        BY <4>2, EndOfFilled
      <4>5. b = 0 \/ b = 1
        BY DEF Blocks
      <4>6. QED
        BY <1>1, <1>6, <4>1, <4>3, <4>4, <4>5 DEF Before, AtEnd
    <3>2. QED
      BY <1>1, <1>2, <3>1, Absent DEF AbsentRule, IInv, MapInv
  <2>3. Map!InPlace(req, Dict')
    BY <1>1, <1>4, <2>2 DEF Map!InPlace, Map!Removed
  <2>4. QED
    BY <1>1, <1>3, <1>4, <2>1, <2>3 DEF Map!Next, Map!Acknowledge
<1>7. QED
  BY <1>5, <1>6 DEF BulkNextBlock

\* The two headers of a factory reset.
LEMMA MapFactory ==
    ASSUME IInv, IInv', MapInv, MapInv', Uncut, Factory0 \/ Factory1
    PROVE  [Map!Next]_(Map!vars)
<1>1. /\ pc \in {"factory0", "factory1"} /\ UNCHANGED <<req, item, ret>> /\ req.op = "factory"
      /\ ret = "none" /\ ~Copying /\ ~Copying' /\ pc' \in {"factory1", "boot_read"}
  BY DEF Factory0, Factory1, context, Copying, GcPCs, MapInv, Served
<1>2. req \in Request /\ req # NoReq
  BY <1>1, Serving DEF OpPCs
<1>3. Phase = "committed" /\ Phase' = "committed" /\ Out = NoVal /\ Out' = NoVal
  BY <1>1, <1>2, PhaseIs, PhaseNext, OutIs, OutNext DEF PhaseRule, OutRule
<1>4. Map!Removed(req) = Keys
  BY <1>1 DEF Map!Removed
<1>5. \A b \in Blocks, s \in Slots, k \in Keys : Has(b, s, k)' <=> Has(b, s, k)
  BY <1>1 DEF Has, Good, Normal, IsItem
<1>6. CASE \A b \in Blocks : ~Live(b)'
  <2>1. \A k \in Keys : Dict'[k] = NoVal
    BY <1>1, <1>6, AbsentNext DEF AbsentRule, IInv, MapInv
  <2>2. Keys \in SUBSET Map!Removed(req)
    BY <1>4
  <2>3. \A k \in Keys : Dict'[k] = IF k \in Keys THEN NoVal ELSE Dict[k]
    BY <2>1
  <2>4. QED
    BY <1>1, <1>3, <2>2, <2>3, MapTakes
<1>7. CASE \E b \in Blocks : Live(b)'
  <2>1. Factory0
    BY <1>1, <1>7, OthersBlock DEF Factory1, SetHeader, Live, MapInv, Served, IInv, TypeOK, Blocks
  <2>2. \A b \in Blocks : hdr'[b] = IF b = 0 THEN "BAD" ELSE hdr[b]
    BY <2>1 DEF Factory0, SetHeader, IInv, TypeOK
  <2>3. Live(1)
    BY <1>7, <2>2 DEF Live, Blocks
  <2>4. ~Live(0)
    BY <2>3 DEF IInv, OneReserve, Live, Blocks
  <2>5. \A b \in Blocks : Live(b)' <=> Live(b)
    BY <2>2, <2>4 DEF Live
  <2>6. \A k \in Keys : Dict'[k] = Dict[k]
    BY <1>1, <2>5, LiveSame
  <2>7. {} \in SUBSET Map!Removed(req) /\ \A k \in Keys : Dict'[k] = IF k \in {} THEN NoVal ELSE Dict[k]
    BY <2>6
  <2>8. QED
    BY <1>1, <1>3, <2>7, MapTakes
<1>8. QED
  BY <1>6, <1>7

-----------------------------------------------------------------------------
(* The refinement: what the caller does not see *)

LEMMA MapMarks ==
    ASSUME IInv, IInv', MapInv, MapInv', Uncut, MarkItemBlock \/ BulkMark \/ BulkPass
    PROVE  [Map!Next]_(Map!vars)
<1>1. /\ UNCHANGED <<req, ret>> /\ req \in Request /\ req # NoReq
      /\ pc \in {"mark", "bulk", "bulk_mark"} /\ pc' \in {"gc_start", "return", "bulk"}
      /\ req.op \in {"set", "del", "del_matching"}
      /\ ret = "none" <=> pc # "mark"
      /\ ret = "none" => req.op = "del_matching" /\ pc' = "bulk"
  <2>1. /\ UNCHANGED <<req, ret>> /\ pc \in {"mark", "bulk", "bulk_mark"}
        /\ pc' = IF pc = "mark" THEN AfterOp ELSE "bulk"
    BY DEF MarkItemBlock, BulkMark, BulkPass
  <2>2. req \in Request /\ req # NoReq
    BY <2>1, Serving DEF OpPCs
  <2>3. ret = "none" <=> pc # "mark"
    BY <2>1 DEF MapInv, Served, GcPCs
  <2>4. IF pc = "mark" THEN req.op \in {"set", "del"} ELSE req.op = "del_matching"
    BY <2>1 DEF MapInv, Served, IInv, OldRecord
  <2>5. QED
    BY <2>1, <2>2, <2>3, <2>4 DEF AfterOp
<1>2. Phase' = Phase /\ Out = NoVal /\ Out' = NoVal
  BY <1>1, PhaseIs, PhaseNext, OutIs, OutNext DEF PhaseRule, OutRule
<1>3. \A k \in Keys : Dict'[k] = Dict[k]
  BY QuietSteps
<1>4. QED
  BY <1>1, <1>2, <1>3, MapStutters

LEMMA MapGc ==
    ASSUME IInv, IInv', MapInv, MapInv', Uncut, Gc
    PROVE  [Map!Next]_(Map!vars)
<1>1. /\ UNCHANGED <<req, ret>> /\ pc \in GcPCs /\ pc' \in GcPCs \cup {"return"}
  BY DEF Gc, GcSkip, GcStart, GcCopy, GcPass, GcCopied, GcErase, GcHeader, GcUsed, GcPCs, context
<1>2. req \in Request /\ req # NoReq /\ req.op = "set" /\ ret # "none"
  BY <1>1, RequestNotNone DEF MapInv, Served
<1>3. Phase' = Phase /\ Out = NoVal /\ Out' = NoVal
  BY <1>1, <1>2, PhaseIs, PhaseNext, OutIs, OutNext DEF PhaseRule, OutRule, GcPCs
<1>4. \A k \in Keys : Dict'[k] = Dict[k]
  BY QuietSteps, GcCopyingKeeps, GcEraseKeeps, GcEndKeeps DEF Gc
<1>5. QED
  BY <1>1, <1>3, <1>4, MapStutters

\* A start of the store changes no key, and leaves none after a factory reset.
LEMMA BootKeepsDict ==
    ASSUME IInv, IInv', MapInv, MapInv', Uncut, Boot, NEW k \in Keys
    PROVE  Dict'[k] = Dict[k]
<1>1. ~BootKeep
  BY DEF BootKeep, MapInv, Reserved
<1>2. ~BootDrop
  BY DEF BootDrop, LastPCs, MapInv, Reserved
<1>3. ~LastErase /\ ~LastHeader
  BY DEF LastErase, LastHeader, LastPCs, MapInv, Reserved
<1>4. QED
  BY <1>1, <1>2, <1>3, QuietSteps, ScanEraseKeeps, RecoverKeeps, BootDoneKeeps DEF Boot

LEMMA MapBoot ==
    ASSUME IInv, IInv', MapInv, MapInv', Uncut, Boot
    PROVE  [Map!Next]_(Map!vars)
<1>1. \A k \in Keys : Dict'[k] = Dict[k]
  BY BootKeepsDict
<1>2. pc \in BootPCs \cup {"off"} /\ ret = "none" /\ (req = NoReq \/ req.op = "factory")
  <2>1. pc \in BootPCs \cup {"off"}
    BY DEF Boot, PowerOn, BootRead, ScanErase, ScanHeader, BootRecover, BootMark, BootPass,
           BootNextBlock, BootKeep, BootDrop, LastErase, LastHeader, BootDone, BootPCs
  <2>2. QED
    BY <2>1 DEF MapInv, Served, BootPCs, GcPCs
<1>3. Out = NoVal
  BY <1>2, OutIs DEF OutRule
<1>4. CASE BootDone
  <2>1. pc = "boot_unclean" /\ pc' = "idle" /\ req' = NoReq /\ ret' = "none"
    BY <1>4 DEF BootDone
  <2>2. Phase' = "idle" /\ Out' = NoVal
    BY <2>1, PhaseNext, OutNext DEF PhaseRule, OutRule
  <2>3. Dict' = Dict
    BY <1>1, DictSame
  <2>4. CASE req = NoReq
    <3>1. Phase = "down"
      BY <2>1, <2>4, PhaseIs DEF PhaseRule
    <3>2. QED
      BY <1>3, <2>1, <2>2, <2>3, <2>4, <3>1 DEF Map!Next, Map!Recover
  <2>5. CASE req # NoReq
    <3>1. Phase = "committed" /\ req.op = "factory"
      BY <1>2, <2>1, <2>5, PhaseIs DEF PhaseRule
    <3>2. \A k \in Keys : Dict[k] = NoVal
      <4>1. \A b \in Blocks : ~Live(b)
        BY <2>1, <2>5 DEF MapInv, Served, BootPCs
      <4>2. QED
        BY <2>1, <4>1, Absent DEF AbsentRule, IInv, MapInv, Copying, GcPCs
    <3>3. Map!InPlace(req, Dict)
      BY <3>1, <3>2 DEF Map!InPlace, Map!Removed
    <3>4. QED
      BY <1>3, <2>1, <2>2, <2>3, <3>1, <3>3 DEF Map!Next, Map!Restarted
  <2>6. QED
    BY <2>4, <2>5
<1>5. CASE ~BootDone
  <2>1. pc' \in BootPCs /\ UNCHANGED <<req, ret>> /\ (pc = "off" => req = NoReq)
    BY <1>5 DEF Boot, PowerOn, BootRead, ScanErase, ScanHeader, BootRecover, BootMark, BootPass,
           BootNextBlock, BootKeep, BootDrop, LastErase, LastHeader, BootPCs, context, ram,
           NextBlock, AfterDelete, MapInv, Served
  <2>2. Phase' = Phase /\ Out' = NoVal
    BY <1>2, <2>1, PhaseIs, PhaseNext, OutNext DEF PhaseRule, OutRule, BootPCs
  <2>3. QED
    BY <1>1, <1>3, <2>1, <2>2, MapStutters
<1>6. QED
  BY <1>4, <1>5

\* A power failure forgets the request and nothing else.
LEMMA MapFailure ==
    ASSUME IInv, IInv', MapInv, MapInv', Uncut, Failure
    PROVE  [Map!Next]_(Map!vars)
<1>1. pc # "off" /\ pc' = "off" /\ req' = NoReq
  BY DEF Failure, Crash, CutStore, CutCopy, PowerLoss
<1>2. ~CutCopy
  BY DEF CutCopy, PowerLoss, Uncut, Copying, GcPCs
<1>3. \A k \in Keys : Dict'[k] = Dict[k]
  BY <1>2, QuietSteps, CutStoreKeeps DEF Failure
<1>4. Phase' = "down" /\ Out' = NoVal
  BY <1>1, PhaseNext, OutNext DEF PhaseRule, OutRule
<1>5. CASE pc # "idle" /\ req = NoReq
  <2>1. Phase = "down" /\ Out = NoVal
    BY <1>5, PhaseIs, OutIs DEF PhaseRule, OutRule
  <2>2. QED
    BY <1>1, <1>3, <1>4, <1>5, <2>1, MapStutters
<1>6. CASE pc = "idle" \/ req # NoReq
  <2>1. Phase # "down"
    BY <1>1, <1>6, PhaseIs DEF PhaseRule
  <2>2. Dict' = Dict
    BY <1>3, DictSame
  <2>3. QED
    BY <1>1, <1>4, <2>1, <2>2 DEF Map!Next, Map!LosePower
<1>7. QED
  BY <1>5, <1>6

\* Nothing happens.
LEMMA DictStays ==
    ASSUME IInv, IInv', MapInv, MapInv', UNCHANGED vars, NEW k \in Keys
    PROVE  Dict'[k] = Dict[k]
<1>1. UNCHANGED <<hdr, item, pc, cur>>
  BY DEF vars
<1>2. CASE ~Copying
  BY <1>1, <1>2, LiveSame DEF Live, Copying
<1>3. CASE Copying
  <2>1. PICK a, b \in Blocks : a = cur.blk /\ b = Other(a) /\ a = Other(b)
    BY <1>3, CopyPlace
  <2>2. CASE pc \in {"gc_copy", "gc_erase"}
    <3>1. Live(a) /\ Live(a)'
      BY <1>1, <2>1, <2>2 DEF IInv, Collecting, GcPCs, Live
    <3>2. QED
      BY <1>1, <3>1, SourceKeeps
  <2>3. CASE pc \in {"gc_header", "gc_used"}
    <3>1. Home(b)
      BY <2>1, <2>3, TargetHome
    <3>2. Home(b)' /\ \A s \in Slots : Has(b, s, k)' <=> Has(b, s, k)
      BY <1>1, <3>1 DEF Home, Kept, Has, Good, Normal, IsItem
    <3>3. Paired(b)
      BY <1>3, <2>1, CopiedHas, OneIsPaired DEF MapInv, OneRule
    <3>4. QED
      BY <1>1, <3>1, <3>2, <3>3, HomeSame
  <2>4. QED
    BY <1>3, <2>2, <2>3 DEF Copying, GcPCs
<1>4. QED
  BY <1>2, <1>3

LEMMA MapNext ==
    ASSUME IInv, IInv', MapInv, MapInv', Uncut, [Next]_vars
    PROVE  [Map!Next]_(Map!vars)
<1>1. CASE UNCHANGED vars
  <2>1. \A k \in Keys : Dict'[k] = Dict[k]
    BY <1>1, DictStays
  <2>2. UNCHANGED <<req, Phase, Out>>
    BY <1>1 DEF vars, Phase, Out, At
  <2>3. QED
    BY <2>1, <2>2, MapStutters
<1>2. CASE Calls
  BY <1>2, MapCalls
<1>3. CASE Boot
  BY <1>3, MapBoot
<1>4. CASE Gc
  BY <1>4, MapGc
<1>5. CASE Op
  BY <1>5, MapFind, MapStore, MapNoSpace, MapDelItem, MapMarks, MapBulkDelete, MapBulkDone,
     MapFactory, MapReturn DEF Op
<1>6. CASE Failure
  BY <1>6, MapFailure
<1>7. QED
  BY <1>1, <1>2, <1>3, <1>4, <1>5, <1>6 DEF Next, Step

LEMMA MapStarts == Init => Map!Init
<1> SUFFICES ASSUME Init PROVE Map!Init
  OBVIOUS
<1>1. \A b \in Blocks, s \in Slots : ~Good(b, s)
  BY DEF Init, Good, Normal, IsItem
<1>2. \A k \in Keys : Dict[k] = NoVal
  BY <1>1, DictEmpty DEF DictEmptyRule
<1>3. Dict = [k \in Keys |-> NoVal]
  BY <1>2, DictFunction DEF DictRule
<1>4. Phase = "down" /\ Out = NoVal
  BY PhaseIs, OutIs DEF Init, PhaseRule, OutRule
<1>5. QED
  BY <1>3, <1>4 DEF Init, Map!Init

\* Every behaviour of the store is one of the durable map: a set that was
\* acknowledged is never lost, one that was refused or cut has no effect or its
\* own, and neither collecting garbage nor starting again changes a key, as
\* long as no power failure comes between two writes of a collection.
THEOREM DurableAlways == ASSUME CollectionsEnd PROVE Spec => Durable
<1>1. IInv /\ IInv' /\ MapInv /\ MapInv' /\ [Next]_vars => [Map!Next]_(Map!vars)
  BY MapNext, CollectionsWhole
<1>2. QED
  BY <1>1, MapStarts, Inductive, MapInductive, PTL DEF Spec, Durable, Map!Spec

\* Recovering changes no key, in any start that follows a power failure.
THEOREM RecoveryAlways == ASSUME CollectionsEnd PROVE Spec => RecoveryPreserves
<1>1. ASSUME IInv, IInv', MapInv, MapInv', [Next]_vars, pc \in BootPCs, req = NoReq
      PROVE  Dict' = Dict
  <2>0. Uncut
    BY <1>1, CollectionsWhole
  <2>1. ASSUME NEW k \in Keys PROVE Dict'[k] = Dict[k]
    <3>1. CASE UNCHANGED vars
      BY <1>1, <3>1, DictStays
    <3>2. CASE Boot
      BY <1>1, <2>0, <3>2, BootKeepsDict
    <3>3. CASE Crash
      BY <1>1, <2>0, <3>3, QuietSteps
    <3>4. QED
      BY <1>1, <3>1, <3>2, <3>3
         DEF Next, Calls, CallSet, CallGet, CallDel, CallDelMatching, CallFactory, Call, Step,
             Op, FindHit, FindMiss, Store, StoreNoSpace, DelItem, MarkItemBlock, BulkDelete,
             BulkMark, BulkPass, BulkNextBlock, Factory0, Factory1, Return, Gc, GcSkip, GcStart,
             GcCopy, GcPass, GcCopied, GcErase, GcHeader, GcUsed, Failure, CutStore, CutCopy, BootPCs
  <2>2. QED
    BY <2>1, DictSame
<1>2. IInv /\ IInv' /\ MapInv /\ MapInv' /\ [Next]_vars
         => [(pc \in BootPCs /\ req = NoReq) => Dict' = Dict]_flash
  BY <1>1
<1>3. QED
  BY <1>2, Inductive, MapInductive, PTL DEF Spec, RecoveryPreserves

-----------------------------------------------------------------------------
(* LossInv is inductive, power failures within a collection included *)

\* A block with at most one record of each key, damaged ones included.
OnceRule == \A b \in Blocks : /\ One(b) => Once(b)
                              /\ Filled(b, 1) => Once(b)
                              /\ Once(b) => Paired(b)
LEMMA OnceSaid == OnceRule
<1> SUFFICES ASSUME NEW b \in Blocks
             PROVE  /\ One(b) => Once(b)
                    /\ Filled(b, 1) => Once(b)
                    /\ Once(b) => Paired(b)
  BY DEF OnceRule
<1>1. One(b) => Once(b)
  BY OneSaid DEF Once
<1>2. Filled(b, 1) => Once(b)
  BY ConstantsAssumption DEF Filled, Once, Normal, IsItem, Slots
<1>3. Once(b) => Paired(b)
  BY DEF Once, Paired, Good
<1>4. QED
  BY <1>1, <1>2, <1>3
LEMMA OnceSaidNext == OnceRule'
BY OnceSaid, PTL

LEMMA OnceThinned ==
    ASSUME NEW b \in Blocks, Once(b),
           \A s \in Slots : item'[b][s] = item[b][s] \/ ~Normal(b, s)'
    PROVE  Once(b)'
<1>1. \A s \in Slots : Normal(b, s)' => Normal(b, s) /\ item'[b][s] = item[b][s]
  BY DEF Normal, IsItem
<1>2. QED
  BY <1>1 DEF Once, SameKey

\* What a start knows of the records of an abandoned target.
Checked(t) == pc \in BootPCs /\ blk_state[t] # "NONE" =>
                 \A s \in Slots : s < ReadTo(t) /\ Normal(t, s) => item[t][s].crc
AbandonedRule ==
    \A t \in Blocks :
        Abandoned(t) <=> /\ hdr[t] = "CLEAN" /\ unclean \subseteq {t}
                         /\ Once(t) /\ Once(Other(t))
                         /\ ~Live(Other(t)) => Filled(Other(t), 1)
                         /\ Checked(t)
                         /\ pc \in LastPCs => t = cur.blk
LEMMA AbandonedIs == AbandonedRule
BY DEF AbandonedRule, Abandoned, Checked, ReadTo
LEMMA AbandonedIsNext == AbandonedRule'
BY AbandonedIs, PTL

LEMMA CheckedSame ==
    ASSUME NEW t \in Blocks, Checked(t), pc \in BootPCs,
           blk_state'[t] # "NONE" => blk_state[t] # "NONE", UNCHANGED ReadTo(t),
           \A s \in Slots : item'[t][s] = item[t][s] \/ ~Normal(t, s)'
    PROVE  Checked(t)'
<1>1. \A s \in Slots : Normal(t, s)' => Normal(t, s) /\ item'[t][s] = item[t][s]
  BY DEF Normal, IsItem
<1>2. QED
  BY <1>1 DEF Checked

LEMMA AbandonedOrderly ==
    ASSUME NEW t \in Blocks, Abandoned(t)
    PROVE  Orderly
BY OnceSaid, OthersBlock DEF Orderly, OnceRule, Abandoned

\* A step that leaves the target as it is and the source in use, or empty.
LEMMA AbandonedStays ==
    ASSUME NEW t \in Blocks, Abandoned(t), hdr'[t] = "CLEAN", unclean' \subseteq {t},
           \A b \in Blocks, s \in Slots : item'[b][s] = item[b][s] \/ ~Normal(b, s)',
           ~Live(Other(t))' => Filled(Other(t), 1)', Checked(t)',
           pc' \in LastPCs => t = cur'.blk
    PROVE  Abandoned(t)'
<1>1. Once(t)' /\ Once(Other(t))'
  BY OnceThinned, OthersBlock DEF Abandoned
<1>2. QED
  BY <1>1, AbandonedIsNext DEF AbandonedRule

LEMMA FilledSame ==
    ASSUME NEW b \in Blocks, NEW e, Filled(b, e), \A s \in Slots : item'[b][s] = item[b][s]
    PROVE  Filled(b, e)'
BY DEF Filled

\* The steps of a start that finds an abandoned target, until it is kept or
\* formatted.
LEMMA AbandonedRead ==
    ASSUME IInv, Served, NEW t \in Blocks, Abandoned(t), Crash \/ PowerOn \/ BootRead
    PROVE  Abandoned(t)'
<1> USE DEF IInv
<1>1. /\ UNCHANGED <<hdr, item>> /\ unclean' \subseteq {t} /\ hdr[t] = "CLEAN" /\ Checked(t)
      /\ pc' \notin LastPCs
  BY AbandonedIs DEF Crash, PowerLoss, PowerOn, BootRead, flash, AbandonedRule, LastPCs
<1>2. ~Live(Other(t))' => Filled(Other(t), 1)'
  BY <1>1, FilledSame, OthersBlock DEF Live, Abandoned
<1>3. Checked(t)'
  <2>1. CASE Crash
    BY <2>1 DEF Crash, PowerLoss, BootPCs, Checked
  <2>2. CASE PowerOn
    BY <2>2 DEF PowerOn, Starting, Checked, ram
  <2>3. CASE BootRead
    <3>1. /\ pc \in ScanPCs /\ pc' \in ScanPCs /\ pc \in BootPCs /\ UNCHANGED cur
          /\ cur.blk \in Blocks /\ cur = Start(cur.blk)
      BY <2>3 DEF BootRead, ScanPCs, BootPCs, TypeOK, Starting
    <3>2. ReadTo(t)' = ReadTo(t)
      BY <3>1 DEF ReadTo, Scanned
    <3>3. CASE t = cur.blk
      <4>1. ReadTo(t)' = 1
        BY <3>1, <3>2, <3>3, ConstantsAssumption DEF ReadTo, Scanned, Start, Blocks
      <4>2. QED
        BY <4>1 DEF Checked, Slots
    <3>4. CASE t # cur.blk
      <4>1. blk_state'[t] = blk_state[t]
        BY <2>3, <3>1, <3>4 DEF BootRead, SetState, TypeOK
      <4>2. QED
        BY <1>1, <3>1, <3>2, <4>1, CheckedSame
    <3>5. QED
      BY <3>3, <3>4
  <2>4. QED
    BY <2>1, <2>2, <2>3
<1>4. QED
  BY <1>1, <1>2, <1>3, AbandonedStays

LEMMA AbandonedScan ==
    ASSUME IInv, Served, NEW t \in Blocks, Abandoned(t), ScanErase \/ ScanHeader
    PROVE  Abandoned(t)' /\ ~Live(Other(t)) /\ ~Live(Other(t))'
<1> USE DEF IInv
<1>1. PICK o \in Blocks : o = Other(t) /\ o # t /\ t = Other(o) /\ \A b \in Blocks : b = o \/ b = t
  BY OthersBlock
<1>2. /\ hdr[t] = "CLEAN" /\ unclean \subseteq {t} /\ Checked(t) /\ cur.blk \in Blocks
      /\ pc \in {"scan_erase", "scan_header"} /\ UNCHANGED unclean
      /\ pc' \in {"scan_header", "boot_read", "boot_unclean"}
  BY AbandonedIs DEF AbandonedRule, TypeOK, ScanErase, ScanHeader, NextBlock, context
<1>3. hdr[cur.blk] = "BAD" /\ cur.blk = o
  BY <1>1, <1>2 DEF Served, Starting, BootPCs
<1>4. /\ \A s \in Slots : item'[t][s] = item[t][s]
      /\ hdr'[t] = "CLEAN" /\ ~Live(o)' /\ Filled(o, 1)'
      /\ blk_state'[t] = blk_state[t]
  <2>1. CASE ScanErase
    BY <1>1, <1>2, <1>3, <2>1, EraseEffect DEF ScanErase, Live, Filled, Slots, ram
  <2>2. CASE ScanHeader
    BY <1>1, <1>2, <1>3, <2>2 DEF ScanHeader, WriteCleanHeader, SetHeader, SetState, TypeOK, Live, Filled,
       Starting, BootPCs
  <2>3. QED
    BY <2>1, <2>2
<1>5. Checked(t)'
  <2>1. blk_state[t] # "NONE" => Scanned(t)
    BY <1>2 DEF Starting, BootPCs, Unread
  <2>2. Scanned(t) => Scanned(t)'
    BY <1>2, ConstantsAssumption
       DEF ScanErase, ScanHeader, NextBlock, Scanned, ScanPCs, Blocks, Start, context
  <2>3. CASE blk_state[t] # "NONE"
    <3>1. ReadTo(t)' = ReadTo(t)
      BY <2>1, <2>2, <2>3 DEF ReadTo
    <3>2. QED
      BY <1>2, <1>4, <3>1, CheckedSame DEF BootPCs
  <2>4. CASE blk_state[t] = "NONE"
    BY <1>4, <2>4 DEF Checked
  <2>5. QED
    BY <2>3, <2>4
<1>6. Once(t)' /\ Once(o)'
  BY <1>1, <1>4, OnceThinned, OnceSaidNext DEF Abandoned, OnceRule
<1>7. Abandoned(t)'
  BY <1>1, <1>2, <1>4, <1>5, <1>6, AbandonedIsNext DEF AbandonedRule, LastPCs
<1>8. QED
  BY <1>1, <1>3, <1>4, <1>7 DEF Live

LEMMA RecoverFills ==
    ASSUME IInv, BootRecover, NEW b \in Blocks, Filled(b, 1)
    PROVE  Filled(b, 1)'
<1>1. PICK d \in Blocks, c \in Slots : Normal(d, c) /\ cur = In(d, c)
  BY RecoverEffect
<1>2. item[d][c] \in Item /\ At(cur) = item[d][c] /\ cur \in Pos
  BY <1>1 DEF Normal, IsItem, IInv, TypeOK, At, In, Pos
<1>3. ASSUME NEW p \in Recovered(cur), Delete(p) PROVE Filled(b, 1)'
  <2>1. p \in Pos /\ IsItem(p.blk, p.slot)
    BY <1>1, <1>2, <1>3 DEF Recovered, Normal, Item, In
  <2>2. p.blk # b
    BY <2>1, ConstantsAssumption DEF Filled, IsItem, Pos, Slots
  <2>3. \A s \in Slots : item'[b][s] = item[b][s]
    BY <1>3, <2>1, <2>2, DeleteEffect DEF IInv
  <2>4. QED
    BY <2>3, FilledSame
<1>4. CASE UNCHANGED item
  BY <1>4, FilledSame
<1>5. QED
  BY <1>3, <1>4 DEF BootRecover

\* The record at the cursor has been read.
LEMMA CheckedOn ==
    ASSUME IInv, pc = "boot_item", pc' \in {"boot_item", "boot_mark"}, NEW t \in Blocks, Checked(t),
           NEW b \in Blocks, NEW c \in Slots, cur = In(b, c), cur' = In(b, c + 1),
           blk_state'[t] # "NONE" => blk_state[t] # "NONE",
           \A s \in Slots : item'[t][s] = item[t][s] \/ ~Normal(t, s)',
           Normal(b, c)' => item[b][c].crc
    PROVE  Checked(t)'
<1> USE DEF IInv
<1>1. cur.blk = b /\ cur.slot = c /\ cur'.blk = b /\ cur'.slot = c + 1 /\ pc \in BootPCs
  BY DEF In, BootPCs
<1>2. Scanned(t)' <=> Scanned(t)
  BY <1>1 DEF Scanned, ScanPCs
<1>3. CASE t # b
  <2>1. ~Scanned(t) => blk_state[t] = "NONE"
    BY <1>1, <1>3 DEF Starting, Unread
  <2>2. CASE Scanned(t)
    <3>1. ReadTo(t)' = ReadTo(t)
      BY <1>2, <2>2 DEF ReadTo
    <3>2. QED
      BY <1>1, <3>1, CheckedSame
  <2>3. CASE ~Scanned(t)
    BY <2>1, <2>3 DEF Checked
  <2>4. QED
    BY <2>2, <2>3
<1>4. CASE t = b
  <2>1. ReadTo(t) = c /\ ReadTo(t)' = c + 1
    BY <1>1, <1>4, ConstantsAssumption DEF ReadTo, Scanned, ScanPCs, Blocks
  <2>2. \A s \in Slots : Normal(t, s)' => Normal(t, s) /\ item'[t][s] = item[t][s]
    BY DEF Normal, IsItem
  <2>3. \A s \in Slots : s < c + 1 <=> s < c \/ s = c
    BY InSlots
  <2>4. SUFFICES ASSUME blk_state'[t] # "NONE", NEW s \in Slots, s < c + 1, Normal(t, s)'
                 PROVE  item'[t][s].crc
    BY <2>1 DEF Checked
  <2>5. CASE s < c
    BY <1>1, <2>1, <2>2, <2>4, <2>5 DEF Checked
  <2>6. CASE s = c
    BY <1>4, <2>2, <2>4, <2>6
  <2>7. QED
    BY <2>3, <2>4, <2>5, <2>6
<1>5. QED
  BY <1>3, <1>4

LEMMA AbandonedRecovery ==
    ASSUME IInv, NEW t \in Blocks, Abandoned(t), BootRecover \/ BootMark \/ BootPass
    PROVE  /\ Abandoned(t)'
           /\ Live(Other(t))' <=> Live(Other(t))
           /\ \A b \in Blocks, s \in Slots : item'[b][s] = item[b][s] \/ ~Normal(b, s)'
<1> USE DEF IInv
<1>1. PICK o \in Blocks : o = Other(t)
  BY OthersBlock
<1>2. /\ hdr[t] = "CLEAN" /\ unclean \subseteq {t} /\ Checked(t) /\ (~Live(o) => Filled(o, 1))
      /\ pc \in {"boot_item", "boot_mark"} /\ pc' \in {"boot_item", "boot_mark"} /\ UNCHANGED unclean
  BY <1>1, AbandonedIs DEF AbandonedRule, BootRecover, BootMark, BootPass, AfterDelete
<1>3. CASE BootRecover
  <2>1. PICK b \in Blocks, c \in Slots :
              /\ cur = In(b, c) /\ cur' = In(b, c + 1)
              /\ \A d \in Blocks, s \in Slots : item'[d][s] = item[d][s] \/ ~Normal(d, s)'
              /\ ~item[b][c].crc => ~Normal(b, c)'
    BY <1>3, RecoverEffect
  <2>2. UNCHANGED <<hdr, blk_state>> /\ pc = "boot_item"
    BY <1>3 DEF BootRecover, ram
  <2>3. Checked(t)'
    BY <1>2, <2>1, <2>2, CheckedOn
  <2>4. (Live(o)' <=> Live(o)) /\ (~Live(o)' => Filled(o, 1)')
    BY <1>2, <1>3, <2>2, RecoverFills DEF Live
  <2>5. QED
    BY <1>1, <1>2, <2>1, <2>2, <2>3, <2>4, AbandonedStays DEF LastPCs
<1>4. CASE BootMark \/ BootPass
  <2>1. \A d \in Blocks : \/ hdr'[d] = hdr[d] /\ blk_state'[d] = blk_state[d]
                          \/ hdr[d] = "USED" /\ hdr'[d] = "DIRTY" /\ blk_state[d] = "USED"
    <3>1. \A d \in Blocks : \/ hdr'[d] = hdr[d] /\ blk_state'[d] = blk_state[d]
                            \/ blk_state[d] = "USED" /\ hdr'[d] = "DIRTY"
      BY <1>4 DEF BootMark, MarkOld, SetHeader, SetState, OldRecord, Pos, TypeOK, BootPass,
         PassInvalid, MarkDirty
    <3>2. QED
      BY <1>2, <3>1, UsedIsKnown
  <2>2. UNCHANGED item /\ hdr'[t] = "CLEAN" /\ (Live(o)' <=> Live(o))
        /\ (blk_state'[t] # "NONE" => blk_state[t] # "NONE")
    BY <1>2, <1>4, <2>1 DEF BootMark, BootPass, PassInvalid, Live
  <2>3. ~Live(o)' => Filled(o, 1)'
    BY <1>2, <2>2, FilledSame
  <2>4. Checked(t)'
    <3>1. CASE BootMark
      <4>1. pc \in ScanPCs /\ pc' \in ScanPCs /\ UNCHANGED cur
        BY <3>1 DEF BootMark, ScanPCs
      <4>2. ReadTo(t)' = ReadTo(t)
        BY <4>1 DEF ReadTo, Scanned
      <4>3. QED
        BY <1>2, <2>2, <4>2, CheckedSame DEF BootPCs
    <3>2. CASE BootPass
      <4>1. pc = "boot_item" /\ ~AtEnd /\ NextRecord /\ ~Normal(cur.blk, cur.slot)
        BY <3>2 DEF BootPass, PassInvalid
      <4>2. PICK b \in Blocks, c \in Slots : cur = In(b, c) /\ cur' = In(b, c + 1)
        BY <4>1, CursorPlace
      <4>3. ~Normal(b, c)'
        BY <2>2, <4>1, <4>2 DEF In, Normal, IsItem
      <4>4. QED
        BY <1>2, <2>2, <4>1, <4>2, <4>3, CheckedOn
    <3>3. QED
      BY <1>4, <3>1, <3>2
  <2>5. QED
    BY <1>1, <1>2, <2>2, <2>3, <2>4, AbandonedStays DEF LastPCs
<1>5. QED
  BY <1>3, <1>4

LEMMA AbandonedNextBlock ==
    ASSUME IInv, NEW t \in Blocks, Abandoned(t), BootNextBlock
    PROVE  Abandoned(t)'
<1> USE DEF IInv
<1>1. PICK o \in Blocks, c \in Blocks : o = Other(t) /\ c = cur.blk /\ \A b \in Blocks : b = o \/ b = t
  BY OthersBlock DEF TypeOK
<1>2. /\ hdr[t] = "CLEAN" /\ unclean \subseteq {t} /\ Checked(t)
      /\ ~Live(o) => Filled(o, 1)
      /\ pc = "boot_item" /\ AtEnd /\ UNCHANGED <<hdr, item, blk_state>> /\ NextBlock
      /\ pc' \in {"boot_read", "boot_unclean"}
      /\ unclean' = IF blk_state[c] = "CLEAN" /\ SpaceOf(c) # Cap THEN unclean \cup {c} ELSE unclean
  BY <1>1, AbandonedIs DEF AbandonedRule, BootNextBlock, NextBlock, flash
<1>3. unclean' \subseteq {t}
  <2>1. CASE c = t
    BY <1>2, <2>1
  <2>2. CASE c = o /\ blk_state[o] = "CLEAN"
    <3>1. Unread(o)
      BY <1>1, <1>2, <2>2, ConstantsAssumption DEF Starting, BootPCs, Scanned, ScanPCs, Blocks
    <3>2. ~Live(o)
      BY <1>1, <1>2, <2>2, <3>1 DEF Unread, Known, Live
    <3>3. EndOf(o) = 1
      BY <1>2, <3>2, EndOfFilled, ConstantsAssumption
    <3>4. SpaceOf(o) = Cap
      BY <3>3, ConstantsAssumption DEF SpaceOf
    <3>5. QED
      BY <1>2, <2>2, <3>4
  <2>3. QED
    BY <1>1, <1>2, <2>1, <2>2
<1>4. ~Live(o)' => Filled(o, 1)'
  BY <1>2, FilledSame DEF Live
<1>5. Checked(t)'
  <2>1. SUFFICES ASSUME blk_state[t] # "NONE", NEW s \in Slots, Normal(t, s) PROVE item[t][s].crc
    BY <1>2 DEF Checked, Normal, IsItem
  <2>2. CASE Scanned(t)
    BY <1>2, <2>1, <2>2, InSlots DEF Checked, ReadTo, BootPCs
  <2>3. CASE ~Scanned(t)
    <3>1. t = c
      BY <1>1, <1>2, <2>1, <2>3 DEF Starting, BootPCs, Unread
    <3>2. PICK e \in 1..Cap : Filled(t, e) /\ e = cur.slot
      BY <1>1, <1>2, <3>1, ContiguousEnd DEF AtEnd
    <3>3. s < e
      BY <2>1, <3>2, FilledRecords DEF Normal
    <3>4. QED
      BY <1>2, <2>1, <2>3, <3>2, <3>3 DEF Checked, ReadTo, BootPCs
  <2>4. QED
    BY <2>2, <2>3
<1>6. QED
  BY <1>1, <1>2, <1>3, <1>4, <1>5, AbandonedStays DEF LastPCs

\* The target of a cut collection is kept when its source has been formatted.
LEMMA AbandonedKept ==
    ASSUME IInv, NEW t \in Blocks, Abandoned(t), BootKeep
    PROVE  /\ unclean = {t} /\ hdr' = [hdr EXCEPT ![t] = "DIRTY"]
           /\ hdr[Other(t)] = "CLEAN" /\ Filled(Other(t), 1) /\ One(t)
           /\ Reserved'
<1> USE DEF IInv
<1>1. PICK o \in Blocks : o = Other(t) /\ o # t /\ \A b \in Blocks : b = o \/ b = t
  BY OthersBlock
<1>2. /\ hdr[t] = "CLEAN" /\ unclean = {t} /\ Checked(t) /\ Once(t)
      /\ ~Live(o) => Filled(o, 1)
      /\ pc = "boot_unclean" /\ pc' = pc /\ UNCHANGED item /\ unclean' = {}
      /\ hdr' = [hdr EXCEPT ![t] = "DIRTY"] /\ clean_blk_nums >= 1
  BY <1>1, AbandonedIs DEF AbandonedRule, BootKeep, SetHeader
<1>3. ~Counted(t) /\ clean_blk_nums = CleanBlocks
  BY <1>2, AllScanned
<1>4. Counted(o)
  BY <1>1, <1>2, <1>3 DEF CleanBlocks, Blocks
<1>5. hdr[o] = "CLEAN" /\ ~Live(o) /\ Filled(o, 1)
  BY <1>2, <1>4, AllScanned DEF Ready, Known, Live
<1>6. One(t)
  <2>1. \A s \in Slots : Normal(t, s) => item[t][s].crc
    BY <1>2, AllScanned, InSlots DEF Checked, BootPCs, ReadTo, Ready, Known, BlkStates
  <2>2. QED
    BY <1>2, <2>1 DEF One, ReadUpTo, Once, Good
<1>7. Reserved'
  BY <1>1, <1>2, <1>5 DEF Reserved, Filled, LastPCs, TypeOK
<1>8. QED
  BY <1>1, <1>2, <1>5, <1>6, <1>7

\* It is formatted when its source is still there.
LEMMA AbandonedDropped ==
    ASSUME IInv, NEW t \in Blocks, Abandoned(t), BootDrop
    PROVE  Abandoned(t)'
<1> USE DEF IInv
<1>1. /\ hdr[t] = "CLEAN" /\ unclean \subseteq {t} /\ Checked(t) /\ UNCHANGED <<hdr, item, blk_state>>
      /\ pc = "boot_unclean" /\ clean_blk_nums = 0 /\ pc' = "last_erase"
  BY AbandonedIs DEF AbandonedRule, BootDrop, flash, ram
<1>2. unclean = {t}
  <2>1. ~Counted(t)
    BY <1>1, AllScanned DEF CleanBlocks, Blocks
  <2>2. blk_state[t] = "CLEAN"
    BY <1>1, AllScanned DEF Ready, Known
  <2>3. QED
    BY <1>1, <2>1, <2>2, AllScanned
<1>3. cur'.blk = t /\ unclean' = {}
  BY <1>2 DEF BootDrop, Start
<1>4. ~Live(Other(t))' => Filled(Other(t), 1)'
  BY <1>1, FilledSame, OthersBlock DEF Live, Abandoned
<1>5. Checked(t)'
  <2>1. UNCHANGED ReadTo(t)
    BY <1>1 DEF ReadTo, Scanned, ScanPCs
  <2>2. QED
    BY <1>1, <2>1, CheckedSame DEF BootPCs
<1>6. QED
  BY <1>1, <1>3, <1>4, <1>5, AbandonedStays

LEMMA AbandonedErased ==
    ASSUME IInv, NEW t \in Blocks, Abandoned(t), LastErase
    PROVE  /\ t = cur.blk /\ Live(Other(t)) /\ hdr' = [hdr EXCEPT ![t] = "BAD"]
           /\ \A s \in Slots : item'[Other(t)][s] = item[Other(t)][s]
           /\ pc' = "last_header" /\ unclean' = {} /\ hdr'[cur'.blk] = "BAD"
<1> USE DEF IInv
<1>1. PICK o \in Blocks : o = Other(t) /\ o # t
  BY OthersBlock
<1>2. /\ hdr[t] = "CLEAN" /\ unclean \subseteq {t} /\ t = cur.blk
      /\ pc = "last_erase" /\ pc' = "last_header" /\ EraseBlock(t) /\ UNCHANGED <<unclean, cur>>
  BY AbandonedIs DEF AbandonedRule, LastErase, LastPCs, context
<1>3. unclean = {} /\ clean_blk_nums = 0 /\ clean_blk_nums = CleanBlocks
  BY <1>2 DEF Starting, BootPCs, LastPCs
<1>4. Live(o)
  <2>1. Ready(o) /\ ~Counted(o)
    BY <1>1, <1>2, <1>3 DEF Starting, BootPCs, Scanned, ScanPCs, Formatted, CleanBlocks, Blocks
  <2>2. blk_state[o] # "CLEAN"
    BY <1>1, <1>2, <1>3, <2>1 DEF Counted, Scanned, ScanPCs, Formatted
  <2>3. QED
    BY <2>1, <2>2 DEF Ready, Known, BlkStates, Live
<1>5. QED
  BY <1>1, <1>2, <1>3, <1>4, EraseEffect DEF EraseBlock, SetHeader, TypeOK

LEMMA AbandonedDone ==
    ASSUME IInv, NEW t \in Blocks, Abandoned(t), BootDone
    PROVE  Reserved
<1>1. pc = "boot_unclean" /\ unclean = {} /\ hdr[t] = "CLEAN"
  BY DEF BootDone, Abandoned
<1>2. Filled(t, 1)
  <2>1. Ready(t)
    BY <1>1, AllScanned
  <2>2. blk_space[t] = Cap
    BY <1>1, <2>1 DEF Ready, Known
  <2>3. Cap + 1 - blk_space[t] = 1
    BY <2>2, ConstantsAssumption
  <2>4. QED
    BY <2>1, <2>3 DEF Ready
<1>3. hdr[Other(t)] = "CLEAN" => Filled(Other(t), 1)
  BY DEF Abandoned, Live
<1>4. QED
  BY <1>1, <1>2, <1>3, OthersBlock DEF Reserved, LastPCs

\* The other end of an abandoned target: the source alone is left.
LEMMA LastBlock ==
    ASSUME IInv, pc = "last_header", unclean = {}
    PROVE  hdr[cur.blk] = "BAD" /\ Live(Other(cur.blk)) /\ Filled(cur.blk, 1)
<1> USE DEF IInv
<1>1. PICK c \in Blocks, o \in Blocks : c = cur.blk /\ o = Other(c) /\ o # c
  BY OthersBlock DEF TypeOK
<1>2. /\ hdr[c] = "BAD" /\ Filled(c, 1) /\ clean_blk_nums = 0 /\ clean_blk_nums = CleanBlocks
      /\ Ready(o)
  BY <1>1 DEF Starting, BootPCs, LastPCs, Scanned, ScanPCs, Formatted
<1>3. ~Counted(o)
  BY <1>1, <1>2 DEF CleanBlocks, Blocks
<1>4. blk_state[o] # "CLEAN"
  BY <1>1, <1>3 DEF Counted, Scanned, ScanPCs, Formatted
<1>5. QED
  BY <1>1, <1>2, <1>4 DEF Ready, Known, BlkStates, Live

LEMMA LastIsReserved ==
    ASSUME IInv, pc = "last_header", unclean = {}, LastHeader \/ Crash
    PROVE  Reserved'
<1> USE DEF IInv
<1>1. PICK c \in Blocks, o \in Blocks : c = cur.blk /\ o = Other(c) /\ o # c /\ \A b \in Blocks : b = c \/ b = o
  BY OthersBlock DEF TypeOK
<1>2. hdr[c] = "BAD" /\ Live(o) /\ Filled(c, 1)
  BY <1>1, LastBlock
<1>3. /\ hdr'[o] # "CLEAN" /\ UNCHANGED item /\ unclean' = {} /\ pc' \notin LastPCs
  BY <1>1, <1>2 DEF LastHeader, WriteCleanHeader, SetHeader, TypeOK, Crash, PowerLoss, flash, LastPCs, Live
<1>4. Filled(c, 1)'
  BY <1>2, <1>3, FilledSame
<1>5. QED
  BY <1>1, <1>3, <1>4 DEF Reserved

\* A start at power on serves no request.
Asleep == pc \in BootPCs \cup {"off"} /\ req = NoReq

LEMMA ServedAsleep ==
    ASSUME Served, Asleep, Boot \/ Crash
    PROVE  /\ Served'
           /\ pc' # "idle" => Asleep'
<1>1. ret = "none"
  BY DEF Served, Asleep, BootPCs, GcPCs
<1>2. CASE Crash
  BY <1>1, <1>2 DEF Crash, PowerLoss, Served, Asleep, OpPCs, GcPCs, BootPCs
<1>3. CASE BootDone
  BY <1>1, <1>3 DEF BootDone, Served, OpPCs, GcPCs, BootPCs
<1>4. CASE Boot /\ ~BootDone
  <2>1. pc' \in BootPCs /\ UNCHANGED <<req, ret>>
    BY <1>4 DEF Boot, PowerOn, BootRead, ScanErase, ScanHeader, BootRecover, BootMark, BootPass,
           BootNextBlock, BootKeep, BootDrop, LastErase, LastHeader, BootPCs, context, ram,
           NextBlock, AfterDelete
  <2>2. pc' = "scan_erase" => hdr'[cur'.blk] = "BAD"
    BY <1>4 DEF Boot, PowerOn, BootRead, ScanErase, ScanHeader, BootRecover, BootMark, BootPass,
           BootNextBlock, BootKeep, BootDrop, LastErase, LastHeader, context, ram,
           NextBlock, AfterDelete, flash
  <2>3. QED
    BY <1>1, <1>4, <2>1, <2>2 DEF Served, Asleep, OpPCs, GcPCs, BootPCs
<1>5. QED
  BY <1>2, <1>3, <1>4

\* The blocks have been read when the first one is formatted, or kept.
LEMMA SingleLast ==
    ASSUME IInv, Single, pc \in BootPCs \ ScanPCs, pc' \in BootPCs \ ScanPCs,
           \A b \in Blocks : Live(b)' =>
              /\ Live(b) /\ blk_state'[b] = blk_state[b]
              /\ \A s \in Slots : item'[b][s] = item[b][s]
    PROVE  Single'
<1>1. ASSUME NEW b \in Blocks PROVE ReadBlock(b)'
  <2>1. CASE ~Live(b)'
    BY <2>1 DEF ReadBlock
  <2>2. CASE Live(b)'
    <3>1. UNCHANGED ReadTo(b)
      BY DEF ReadTo, Scanned
    <3>2. QED
      BY <2>2, <3>1, ReadBlocks, ReadBlockSame
  <2>3. QED
    BY <2>1, <2>2
<1>2. QED
  BY <1>1, SingleInBoot

LEMMA SingleFormat ==
    ASSUME IInv, Single, BootDrop \/ LastErase \/ LastHeader
    PROVE  Single'
<1> USE DEF IInv
<1>1. PICK c \in Blocks : c = cur.blk
  BY DEF TypeOK
<1>2. CASE BootDrop
  BY <1>2, SingleLast DEF BootDrop, BootPCs, ScanPCs, flash, ram, Live
<1>3. CASE LastErase
  <2>1. \A b \in Blocks : Live(b)' => Live(b) /\ \A s \in Slots : item'[b][s] = item[b][s]
    BY <1>1, <1>3, EraseEffect DEF LastErase, Live
  <2>2. QED
    BY <1>3, <2>1, SingleLast DEF LastErase, BootPCs, ScanPCs, ram
<1>4. CASE LastHeader
  <2>1. \A b \in Blocks : Live(b)' => Live(b) /\ blk_state'[b] = blk_state[b]
    BY <1>1, <1>4 DEF LastHeader, WriteCleanHeader, SetHeader, SetState, TypeOK, Live
  <2>2. QED
    BY <1>4, <2>1, SingleLast DEF LastHeader, BootPCs, ScanPCs
<1>5. QED
  BY <1>2, <1>3, <1>4

LEMMA SingleKept ==
    ASSUME IInv, Single, NEW t \in Blocks, Abandoned(t), BootKeep
    PROVE  Single'
<1>1. hdr' = [hdr EXCEPT ![t] = "DIRTY"] /\ One(t) /\ ~Live(Other(t))
  BY AbandonedKept DEF Live
<1>2. pc = "boot_unclean" /\ pc' = pc /\ UNCHANGED item
  BY DEF BootKeep
<1>3. One(t)' /\ Paired(t)'
  BY <1>1, <1>2, ReadThinned, OneIsPairedNext DEF One, OneRule
<1>4. \A b \in Blocks : Live(b)' => b = t
  BY <1>1, OthersBlock DEF Live, IInv, TypeOK
<1>5. \A b \in Blocks : ReadBlock(b)'
  BY <1>2, <1>3, <1>4 DEF ReadBlock, ReadTo, Scanned, ScanPCs, One
<1>6. QED
  BY <1>2, <1>5, SingleInBoot DEF BootPCs

\* A start that is not at a Reserved state.
LEMMA AsideSteps ==
    ASSUME IInv, Served, Single, Asleep, NEW t \in Blocks, Abandoned(t), Boot \/ Crash
    PROVE  Aside' /\ Single'
<1>1. Orderly
  BY AbandonedOrderly
<1>2. pc' # "idle" => Asleep'
  BY ServedAsleep
<1>3. CASE Crash \/ PowerOn \/ BootRead \/ ScanErase \/ ScanHeader
  <2>1. Abandoned(t)' /\ Asleep'
    BY <1>2, <1>3, AbandonedRead, AbandonedScan
       DEF Crash, PowerLoss, PowerOn, BootRead, ScanErase, ScanHeader, NextBlock
  <2>2. Single'
    BY <1>3, SingleStart, SingleFailure DEF Failure
  <2>3. QED
    BY <2>1, <2>2 DEF Aside, Asleep
<1>4. CASE BootRecover \/ BootMark \/ BootPass \/ BootNextBlock
  <2>1. Abandoned(t)' /\ Asleep'
    BY <1>2, <1>4, AbandonedRecovery, AbandonedNextBlock
       DEF BootRecover, BootMark, BootPass, BootNextBlock, AfterDelete, NextBlock
  <2>2. Single'
    BY <1>1, <1>4, SingleRecovery
  <2>3. QED
    BY <2>1, <2>2 DEF Aside, Asleep
<1>5. CASE BootKeep
  BY <1>5, AbandonedKept, SingleKept DEF Aside
<1>6. CASE BootDrop \/ LastErase
  <2>1. Asleep'
    BY <1>2, <1>6 DEF BootDrop, LastErase
  <2>2. QED
    BY <1>6, <2>1, AbandonedDropped, AbandonedErased, SingleFormat DEF Aside, Asleep
<1>7. CASE LastHeader
  <2>1. hdr[cur.blk] = "BAD" /\ t = cur.blk /\ hdr[t] = "CLEAN"
    BY <1>7 DEF LastHeader, IInv, Starting, BootPCs, Abandoned, LastPCs
  <2>2. QED
    BY <2>1
<1>8. CASE BootDone
  <2>1. Reserved
    BY <1>8, AbandonedDone
  <2>2. Reserved'
    <3>1. \A b \in Blocks : hdr'[b] = "CLEAN" => hdr[b] = "CLEAN"
      BY <1>8 DEF BootDone, SetHeader, IInv, TypeOK
    <3>2. ~Copying /\ UNCHANGED <<item, unclean>> /\ pc' \notin LastPCs
      BY <1>8 DEF BootDone, Copying, GcPCs, LastPCs
    <3>3. QED
      BY <2>1, <3>1, <3>2 DEF Reserved, Filled
  <2>3. QED
    BY <1>8, <2>1, <2>2, SingleBootDone DEF Aside
<1>9. QED
  BY <1>3, <1>4, <1>5, <1>6, <1>7, <1>8 DEF Boot

LEMMA LastSteps ==
    ASSUME IInv, Served, Single, Asleep, pc = "last_header", unclean = {}, LastHeader \/ Crash
    PROVE  Aside' /\ Single'
<1>1. Reserved'
  BY LastIsReserved
<1>2. Single'
  BY SingleFormat, SingleFailure DEF Failure
<1>3. QED
  BY <1>1, <1>2 DEF Aside

\* The power fails between two writes of a collection: the target is
\* abandoned, and what a restart would find is still all there.
LEMMA CutBlocks ==
    ASSUME IInv, Copied, Copying, Crash \/ CutCopy
    PROVE  \E a, b \in Blocks :
              /\ a = cur.blk /\ b = Other(a) /\ a # b /\ a = Other(b) /\ hdr[b] = "CLEAN"
              /\ UNCHANGED hdr /\ Once(b)' /\ \A s \in Slots : item'[a][s] = item[a][s]
<1>1. PICK a \in Blocks, b \in Blocks : a = cur.blk /\ b = Other(a) /\ a # b /\ a = Other(b) /\ hdr[b] = "CLEAN"
  BY CopyPlace
<1>2. One(b) /\ Once(b)
  BY <1>1, CopiedHas, OnceSaid DEF OnceRule
<1>3. CASE Crash
  BY <1>1, <1>2, <1>3, OnceThinned DEF Crash, flash
<1>4. CASE CutCopy
  <2>1. UNCHANGED hdr /\ pc = "gc_copy"
    BY <1>4 DEF CutCopy
  <2>2. PICK c \in Slots, s \in Slots :
              /\ c = cur.slot /\ Normal(a, c)
              /\ \A d \in Blocks, t \in Slots : d # b \/ t # s => item'[d][t] = item[d][t]
              /\ item[b][s] = Erased
              /\ Normal(b, s)' => item'[b][s].key = item[a][c].key
    BY <1>1, <1>4, CutCopyEffect
  <2>3. CopiedTo(a, b, c)
    BY <1>1, <2>1, <2>2, CopiedHas
  <2>4. ASSUME NEW u \in Slots, Normal(b, u) PROVE item[b][u].key # item[a][c].key
    <3>1. PICK r \in Slots : r < c /\ item[b][u] = item[a][r]
      BY <2>3, <2>4 DEF CopiedTo
    <3>2. Normal(a, r)
      BY <2>4, <3>1 DEF Normal, IsItem
    <3>3. ~SameKey(a, r, c)
      BY <2>2, <2>3, <3>1, <3>2, OneSaid DEF CopiedTo
    <3>4. QED
      BY <3>1, <3>3 DEF SameKey
  <2>5. \A u \in Slots : u # s /\ Normal(b, u)' => Normal(b, u) /\ item'[b][u] = item[b][u]
    BY <2>2 DEF Normal, IsItem
  <2>6. \A u \in Slots : u # s /\ Normal(b, u)' /\ Normal(b, s)' => item'[b][u].key # item'[b][s].key
    BY <2>2, <2>4, <2>5
  <2>7. Once(b)'
    BY <1>2, <2>5, <2>6, InSlots DEF Once, SameKey
  <2>8. QED
    BY <1>1, <2>1, <2>2, <2>7
<1>5. QED
  BY <1>3, <1>4

LEMMA CutAbandons ==
    ASSUME IInv, Copied, Copying, Crash \/ CutCopy
    PROVE  \E t \in Blocks : Abandoned(t)'
<1> USE DEF IInv
<1>1. PICK a \in Blocks, b \in Blocks :
              /\ a = cur.blk /\ b = Other(a) /\ a # b /\ a = Other(b) /\ hdr[b] = "CLEAN"
              /\ UNCHANGED hdr /\ Once(b)' /\ \A s \in Slots : item'[a][s] = item[a][s]
  BY CutBlocks
<1>2. pc' = "off" /\ unclean' = {}
  BY DEF Crash, CutCopy, PowerLoss
<1>3. Once(a) /\ (~Live(a) => Filled(a, 1))
  <2>1. CASE pc \in {"gc_copy", "gc_erase"}
    <3>1. Live(a)
      BY <1>1, <2>1 DEF Collecting, GcPCs, Live
    <3>2. One(a)
      BY <1>1, <2>1, CopiedHas DEF CopiedTo
    <3>3. QED
      BY <3>1, <3>2, OnceSaid DEF OnceRule
  <2>2. CASE pc \in {"gc_header", "gc_used"}
    <3>1. Filled(a, 1)
      BY <1>1, <2>2 DEF Collecting, GcPCs, Empty
    <3>2. QED
      BY <3>1, OnceSaid DEF OnceRule
  <2>3. QED
    BY <2>1, <2>2 DEF Copying, GcPCs
<1>4. Once(a)' /\ (~Live(a)' => Filled(a, 1)')
  BY <1>1, <1>3, OnceThinned, FilledSame DEF Live
<1>5. Abandoned(b)'
  BY <1>1, <1>2, <1>4, AbandonedIsNext DEF AbandonedRule, Checked, BootPCs, LastPCs
<1>6. QED
  BY <1>5

\* The steps that cut a collection, and those of a start at power on.
LEMMA CutSteps == ASSUME [Next]_vars, ~Uncut PROVE Copying /\ (Crash \/ CutCopy)
<1>1. Copying /\ pc' = "off" /\ pc # "off"
  BY DEF Uncut, Copying, GcPCs
<1>2. Failure
  BY <1>1 DEF Next, Calls, CallSet, CallGet, CallDel, CallDelMatching, CallFactory, Call, Step,
     Boot, PowerOn, BootRead, ScanErase, ScanHeader, BootRecover, BootMark, BootPass,
     BootNextBlock, BootKeep, BootDrop, LastErase, LastHeader, BootDone,
     Op, FindHit, FindMiss, Store, StoreNoSpace, DelItem, MarkItemBlock, BulkDelete,
     BulkMark, BulkPass, BulkNextBlock, Factory0, Factory1, Return, Gc, GcSkip, GcStart,
     GcCopy, GcPass, GcCopied, GcErase, GcHeader, GcUsed, Copying, GcPCs, vars
<1>3. QED
  BY <1>1, <1>2 DEF Failure, CutStore, Copying, GcPCs

LEMMA AsleepNext == ASSUME Asleep, Next PROVE Boot \/ Crash
BY DEF Asleep, BootPCs, Next, Calls, CallSet, CallGet, CallDel, CallDelMatching, CallFactory, Call,
   Step, Op, FindHit, FindMiss, Store, StoreNoSpace, DelItem, MarkItemBlock, BulkDelete,
   BulkMark, BulkPass, BulkNextBlock, Factory0, Factory1, Return, Gc, GcSkip, GcStart,
   GcCopy, GcPass, GcCopied, GcErase, GcHeader, GcUsed, Failure, CutStore, CutCopy

LEMMA LossSteps == ASSUME IInv, IInv', LossInv, [Next]_vars PROVE LossInv'
<1> USE DEF LossInv
<1>1. Copied' /\ Updating' /\ Deleting'
  BY CopiedSteps, UpdatingSteps, DeletingSteps
<1>2. CASE Reserved /\ Uncut
  <2>1. MapInv'
    BY <1>2, MapSteps DEF MapInv
  <2>2. QED
    BY <2>1 DEF MapInv, Aside
<1>3. CASE Reserved /\ ~Uncut
  <2>1. Copying /\ pc' = "off" /\ pc # "off"
    BY <1>3 DEF Uncut, Copying, GcPCs
  <2>2. Crash \/ CutCopy
    BY <1>3, CutSteps
  <2>3. Served' /\ Single'
    BY <1>3, <2>2, ServedSteps, SingleFailure DEF Failure
  <2>4. \E t \in Blocks : Abandoned(t)'
    BY <2>1, <2>2, CutAbandons
  <2>5. pc' = "off" /\ req' = NoReq
    BY <2>2 DEF Crash, CutCopy, PowerLoss
  <2>6. Aside'
    BY <2>4, <2>5 DEF Aside
  <2>7. QED
    BY <1>1, <2>3, <2>6
<1>4. CASE ~Reserved
  <2>1. Asleep
    BY <1>4 DEF Aside, Asleep
  <2>2. CASE UNCHANGED vars
    <3>1. Served' /\ Single'
      <4>1. Served'
        BY <2>2 DEF vars, Served, Live
      <4>2. Single'
        BY <2>2 DEF vars, Single, Live, ReadUpTo, Paired, Normal, IsItem, Good, SameKey, Scanned, One
      <4>3. QED
        BY <4>1, <4>2
    <3>2. Aside'
      <4>1. UNCHANGED <<pc, req, unclean, hdr, item, cur, blk_state>>
        BY <2>2 DEF vars
      <4>2. \A t \in Blocks : Abandoned(t) => Abandoned(t)'
        BY <4>1 DEF Abandoned, Live, Once, Normal, IsItem, SameKey, Filled, Scanned
      <4>3. QED
        BY <1>4, <4>1, <4>2 DEF Aside
    <3>3. QED
      BY <1>1, <3>1, <3>2
  <2>3. CASE ~UNCHANGED vars
    <3>1. Boot \/ Crash
      BY <2>1, <2>3, AsleepNext
    <3>2. Served'
      BY <2>1, <3>1, ServedAsleep
    <3>3. CASE \E t \in Blocks : Abandoned(t)
      BY <1>1, <2>1, <3>1, <3>2, <3>3, AsideSteps
    <3>4. CASE pc = "last_header" /\ unclean = {}
      <4>1. LastHeader \/ Crash
        BY <3>1, <3>4 DEF Boot, PowerOn, BootRead, ScanErase, ScanHeader, BootRecover, BootMark, BootPass,
               BootNextBlock, BootKeep, BootDrop, LastErase, BootDone
      <4>2. QED
        BY <1>1, <2>1, <3>2, <3>4, <4>1, LastSteps
    <3>5. QED
      BY <1>4, <3>3, <3>4 DEF Aside
  <2>4. QED
    BY <2>2, <2>3
<1>5. QED
  BY <1>2, <1>3, <1>4

\* Wherever the power fails, every key has one record while calls are served;
\* the target of a cut collection and its source have one of each too.
THEOREM LossInductive == Spec => []LossInv
<1>1. Init => LossInv
  BY InitMap DEF MapInv, LossInv, Aside
<1>2. LossInv /\ IInv /\ IInv' /\ [Next]_vars => LossInv'
  BY LossSteps
<1>3. QED
  BY <1>1, <1>2, Inductive, PTL DEF Spec

\* Between calls aos_kv_get finds at most one record of a key, the one a
\* restart would find, wherever the power has failed before.
THEOREM OneRecordAlways == Spec => []OneRecord
<1>1. ASSUME IInv, MapInv, pc = "idle", NEW k \in Keys
      PROVE  /\ Cardinality(Matches(k)) <= 1
             /\ Dict[k] = IF Matches(k) = {} THEN NoVal ELSE At(CHOOSE p \in Matches(k) : TRUE).val
  <2>1. \A p \in Matches(k) : p \in Pos /\ Live(p.blk) /\ Normal(p.blk, p.slot) /\ At(p).key = k
    BY <1>1, MatchPlace DEF RunPCs
  <2>2. \A p \in Matches(k) : One(p.blk)
    BY <1>1, <2>1, PosParts DEF MapInv, Single, RunPCs
  <2>3. CASE Matches(k) = {}
    <3>1. \A b \in Blocks, s \in Slots : Live(b) => ~Has(b, s, k)
      BY <1>1, <2>3, MatchPlace DEF RunPCs, Has, Good
    <3>2. Dict[k] = NoVal
      BY <1>1, <3>1, Absent DEF AbsentRule, IInv, MapInv, Copying, GcPCs
    <3>3. QED
      BY <2>3, <3>2, FS_EmptySet
  <2>4. CASE Matches(k) # {}
    <3>1. PICK p \in Matches(k) : TRUE
      BY <2>4
    <3>2. PICK b \in Blocks, s \in Slots : p = In(b, s) /\ p.blk = b /\ p.slot = s
      BY <2>1, <3>1, PosParts
    <3>3. Live(b) /\ One(b) /\ Normal(b, s) /\ item[b][s].key = k
      BY <2>1, <2>2, <3>1, <3>2 DEF At
    <3>4. ASSUME NEW q \in Matches(k) PROVE q = p
      <4>1. PICK c \in Blocks, t \in Slots : q = In(c, t) /\ q.blk = c /\ q.slot = t
        BY <2>1, <3>4, PosParts
      <4>2. Live(c) /\ Normal(c, t) /\ item[c][t].key = k
        BY <2>1, <3>4, <4>1 DEF At
      <4>3. c = b
        BY <1>1, <3>3, <4>2, OthersBlock DEF IInv, OneReserve, Live
      <4>4. SameKey(b, s, t) /\ SameKey(b, t, s) /\ Normal(b, t)
        BY <3>3, <4>2, <4>3 DEF SameKey
      <4>5. ~(s < t) /\ ~(t < s)
        BY <3>3, <4>4, OneSaid
      <4>6. QED
        BY <3>2, <4>1, <4>3, <4>5, InSlots
    <3>5. Matches(k) = {p}
      BY <3>1, <3>4
    <3>6. Dict[k] = item[b][s].val
      BY <1>1, <3>3, Present DEF PresentRule, IInv
    <3>7. (CHOOSE q \in Matches(k) : TRUE) = p
      BY <3>5
    <3>8. Cardinality(Matches(k)) = 1
      BY <3>5, FS_Singleton
    <3>9. At(p).val = item[b][s].val
      BY <3>2 DEF At
    <3>10. Dict[k] = At(CHOOSE q \in Matches(k) : TRUE).val
      BY <3>6, <3>7, <3>9
    <3>11. Cardinality(Matches(k)) <= 1
      BY <3>8
    <3>12. QED
      BY <2>4, <3>10, <3>11
  <2>5. QED
    BY <2>3, <2>4
<1>2. IInv /\ MapInv => OneRecord
  BY <1>1 DEF OneRecord
<1>3. LossInv /\ pc = "idle" => MapInv
  BY DEF LossInv, MapInv, Aside, BootPCs
<1>4. IInv /\ LossInv => OneRecord
  BY <1>2, <1>3 DEF OneRecord
<1>5. QED
  BY <1>4, Inductive, LossInductive, PTL

-----------------------------------------------------------------------------
(* What a cut collection can cost: keys, but never a value *)

\* In a block with one record of each key, a step that removes records removes
\* keys.
LEMMA HomeLoses ==
    ASSUME NEW h \in Blocks, Home(h), Home(h)', Once(h), NEW k \in Keys,
           \A s \in Slots : item'[h][s] = item[h][s] \/ ~Normal(h, s)'
    PROVE  Dict'[k] \in {Dict[k], NoVal}
<1>1. \A s \in Slots : Has(h, s, k)' => Has(h, s, k) /\ item'[h][s] = item[h][s]
  BY DEF Has, Good, Normal, IsItem
<1>2. CASE \A s \in Slots : ~Has(h, s, k)'
  BY <1>2, DictNoneNext DEF DictNoneRule
<1>3. ASSUME NEW s \in Slots, Has(h, s, k)' PROVE Dict'[k] = Dict[k]
  <2>1. Has(h, s, k) /\ item'[h][s] = item[h][s]
    BY <1>1, <1>3
  <2>2. ASSUME NEW u \in Slots, Has(h, u, k) PROVE u = s
    <3>1. SameKey(h, u, s) /\ SameKey(h, s, u) /\ Normal(h, u) /\ Normal(h, s)
      BY <2>1, <2>2 DEF Has, Good, SameKey
    <3>2. ~(u < s) /\ ~(s < u)
      BY <3>1 DEF Once
    <3>3. QED
      BY <3>2, InSlots
  <2>3. Dict[k] = item[h][s].val
    BY <2>1, <2>2, DictOne DEF DictOneRule
  <2>4. \A u \in Slots : Has(h, u, k)' => u = s
    BY <1>1, <2>2
  <2>5. Dict'[k] = item'[h][s].val
    BY <1>3, <2>4, DictOneNext DEF DictOneRule
  <2>6. QED
    BY <2>1, <2>3, <2>5
<1>4. QED
  BY <1>2, <1>3

\* What a restart finds beside an abandoned target: the records of its source
\* if that is in use, else those of the target.
HomeOf(t) == IF Live(Other(t)) THEN Other(t) ELSE t
AbandonedHomeRule == TypeOK => \A t \in Blocks : Abandoned(t) => Home(HomeOf(t))
LEMMA AbandonedHome == AbandonedHomeRule
<1> SUFFICES ASSUME TypeOK, NEW t \in Blocks, Abandoned(t) PROVE Home(HomeOf(t))
  BY DEF AbandonedHomeRule
<1>1. PICK o \in Blocks : o = Other(t) /\ o # t /\ t = Other(o)
  BY OthersBlock
<1>2. CASE Live(o)
  BY <1>1, <1>2 DEF HomeOf, Home, Kept, Live, Abandoned
<1>3. CASE ~Live(o)
  <2>1. hdr[o] \in {"CLEAN", "BAD"} /\ Filled(o, 1) /\ hdr[t] = "CLEAN"
    BY <1>1, <1>3 DEF Abandoned, Live, TypeOK, BlkStates
  <2>2. \A s \in Slots : ~Good(o, s)
    BY <2>1, ConstantsAssumption DEF Filled, Good, Normal, IsItem, Slots
  <2>3. QED
    BY <1>1, <1>3, <2>1, <2>2 DEF HomeOf, Home, Kept
<1>4. QED
  BY <1>2, <1>3
LEMMA AbandonedHomeNext == AbandonedHomeRule'
BY AbandonedHome, PTL

LEMMA AbandonedLoses ==
    ASSUME IInv, IInv', NEW t \in Blocks, Abandoned(t), Abandoned(t)',
           Live(Other(t))' <=> Live(Other(t)), NEW k \in Keys,
           \A h \in Blocks, s \in Slots :
              h = HomeOf(t) => item'[h][s] = item[h][s] \/ ~Normal(h, s)'
    PROVE  Dict'[k] \in {Dict[k], NoVal}
<1>1. PICK h \in Blocks : h = HomeOf(t) /\ h = HomeOf(t)' /\ h \in {t, Other(t)}
  BY OthersBlock DEF HomeOf
<1>2. Home(h) /\ Once(h)
  BY <1>1, AbandonedHome DEF AbandonedHomeRule, IInv, Abandoned
<1>3. Home(HomeOf(t))'
  BY AbandonedHomeNext DEF AbandonedHomeRule, IInv
<1>4. Home(h)'
  BY <1>1, <1>3
<1>5. \A s \in Slots : item'[h][s] = item[h][s] \/ ~Normal(h, s)'
  BY <1>1
<1>6. QED
  BY <1>2, <1>4, <1>5, HomeLoses

LEMMA AsideLoses ==
    ASSUME IInv, IInv', Served, NEW t \in Blocks, Abandoned(t), Boot \/ Crash, ~BootDone,
           NEW k \in Keys
    PROVE  Dict'[k] \in {Dict[k], NoVal}
<1>1. PICK o \in Blocks : o = Other(t) /\ o # t /\ t = Other(o) /\ \A b \in Blocks : b = o \/ b = t
  BY OthersBlock
<1>2. HomeOf(t) \in Blocks
  BY <1>1 DEF HomeOf
<1>3. CASE Crash \/ PowerOn \/ BootRead \/ BootNextBlock \/ BootDrop
  <2>1. Abandoned(t)' /\ UNCHANGED <<hdr, item>>
    BY <1>3, AbandonedRead, AbandonedNextBlock, AbandonedDropped
       DEF Crash, PowerOn, BootRead, BootNextBlock, BootDrop, flash
  <2>2. QED
    BY <1>2, <2>1, AbandonedLoses DEF Live
<1>4. CASE ScanErase \/ ScanHeader
  <2>1. Abandoned(t)' /\ ~Live(o) /\ ~Live(o)'
    BY <1>1, <1>4, AbandonedScan
  <2>2. \A s \in Slots : item'[t][s] = item[t][s]
    <3>1. CASE ScanErase
      <4>1. cur.blk = o
        <5>1. cur.blk \in Blocks /\ hdr[cur.blk] = "BAD" /\ hdr[t] = "CLEAN"
          <6>1. pc = "scan_erase" /\ TypeOK /\ hdr[t] = "CLEAN"
            BY <3>1 DEF ScanErase, Abandoned, IInv
          <6>2. QED
            BY <3>1, <6>1 DEF ScanErase, Served, TypeOK
        <5>2. QED
          BY <1>1, <5>1
      <4>2. TypeOK /\ EraseBlock(o)
        BY <3>1, <4>1 DEF ScanErase, IInv
      <4>3. QED
        BY <1>1, <4>2, EraseEffect
    <3>2. CASE ScanHeader
      BY <3>2 DEF ScanHeader
    <3>3. QED
      BY <1>4, <3>1, <3>2
  <2>3. HomeOf(t) = t
    BY <1>1, <2>1 DEF HomeOf
  <2>4. QED
    BY <1>1, <2>1, <2>2, <2>3, AbandonedLoses
<1>5. CASE BootRecover \/ BootMark \/ BootPass
  <2>1. /\ Abandoned(t)' /\ (Live(Other(t))' <=> Live(Other(t)))
        /\ \A b \in Blocks, s \in Slots : item'[b][s] = item[b][s] \/ ~Normal(b, s)'
    BY <1>5, AbandonedRecovery
  <2>2. QED
    BY <2>1, AbandonedLoses
<1>6. CASE BootKeep
  <2>1. /\ hdr' = [hdr EXCEPT ![t] = "DIRTY"] /\ hdr[o] = "CLEAN" /\ UNCHANGED item
        /\ hdr'[o] = "CLEAN" /\ hdr'[t] = "DIRTY"
    BY <1>1, <1>6, AbandonedKept DEF BootKeep, IInv, TypeOK
  <2>2. HomeOf(t) = t /\ Home(t)'
    BY <1>1, <2>1 DEF HomeOf, Live, Home, Kept
  <2>3. Home(t) /\ Once(t)
    BY <2>2, AbandonedHome DEF AbandonedHomeRule, IInv, Abandoned
  <2>4. QED
    BY <2>1, <2>2, <2>3, HomeLoses
<1>7. CASE LastErase
  <2>1. /\ Live(o) /\ hdr' = [hdr EXCEPT ![t] = "BAD"] /\ \A s \in Slots : item'[o][s] = item[o][s]
        /\ hdr'[o] = hdr[o] /\ Live(o)'
    BY <1>1, <1>7, AbandonedErased DEF IInv, TypeOK, Live
  <2>2. HomeOf(t) = o /\ Home(o)'
    BY <1>1, <2>1, HomeLiveNext DEF HomeOf, HomeRule, IInv
  <2>3. Home(o) /\ Once(o)
    BY <1>1, <2>2, AbandonedHome DEF AbandonedHomeRule, IInv, Abandoned
  <2>4. QED
    BY <2>1, <2>2, <2>3, HomeLoses
<1>8. CASE LastHeader
  BY <1>8 DEF LastHeader, IInv, Starting, BootPCs, Abandoned, LastPCs
<1>9. QED
  BY <1>3, <1>4, <1>5, <1>6, <1>7, <1>8 DEF Boot

\* The source alone is left, and stays.
LEMMA LastKeeps ==
    ASSUME IInv, IInv', Single, pc = "last_header", unclean = {}, LastHeader \/ Crash, NEW k \in Keys
    PROVE  Dict'[k] = Dict[k]
<1>1. PICK c \in Blocks, o \in Blocks : c = cur.blk /\ o = Other(c) /\ o # c
  BY OthersBlock DEF IInv, TypeOK
<1>2. Live(o)
  BY <1>1, LastBlock
<1>3. hdr'[o] = hdr[o] /\ Live(o)' /\ UNCHANGED item
  BY <1>1, <1>2 DEF LastHeader, WriteCleanHeader, SetHeader, IInv, TypeOK, Crash, flash, Live
<1>4. Home(o) /\ Home(o)' /\ Paired(o)
  BY <1>2, <1>3, HomeLive, HomeLiveNext DEF HomeRule, IInv, Single
<1>5. QED
  BY <1>3, <1>4, HomeSame DEF Has, Good, Normal, IsItem

\* A cut between the writes of a collection leaves every key in place.
LEMMA CutKeeps ==
    ASSUME IInv, IInv', MapInv, Copying, Crash \/ CutCopy, NEW k \in Keys
    PROVE  Dict'[k] = Dict[k]
<1>1. PICK a \in Blocks, b \in Blocks :
              /\ a = cur.blk /\ b = Other(a) /\ a # b /\ a = Other(b)
              /\ UNCHANGED hdr /\ \A s \in Slots : item'[a][s] = item[a][s]
  BY CutBlocks DEF MapInv
<1>2. CASE pc \in {"gc_copy", "gc_erase"}
  <2>1. Live(a) /\ Live(a)'
    BY <1>1, <1>2 DEF IInv, Collecting, GcPCs, Live
  <2>2. QED
    BY <1>1, <2>1, SourceKeeps
<1>3. CASE pc \in {"gc_header", "gc_used"}
  <2>1. UNCHANGED <<hdr, item>>
    BY <1>3 DEF Crash, CutCopy, flash
  <2>2. Home(b)
    BY <1>1, <1>3, TargetHome
  <2>3. Home(b)' /\ \A s \in Slots : Has(b, s, k)' <=> Has(b, s, k)
    BY <2>1, <2>2 DEF Home, Kept, Has, Good, Normal, IsItem
  <2>4. Paired(b)
    BY <1>1, CopiedHas, OneIsPaired DEF MapInv, OneRule
  <2>5. QED
    BY <2>1, <2>2, <2>3, <2>4, HomeSame
<1>4. QED
  BY <1>2, <1>3 DEF Copying, GcPCs

LEMMA MapLoses ==
    ASSUME Phase = "down", Phase' = "down", UNCHANGED <<req, Out>>,
           \A k \in Keys : Dict'[k] \in {Dict[k], NoVal}
    PROVE  Map!Lose
<1>1. PICK K \in SUBSET Keys : K = {k \in Keys : Dict'[k] # Dict[k]}
  OBVIOUS
<1>2. \A k \in Keys : Dict'[k] = IF k \in K THEN NoVal ELSE Dict[k]
  BY <1>1
<1>3. Dict' = [k \in Keys |-> IF k \in K THEN NoVal ELSE Dict[k]]
  BY <1>2, DictRemoved
<1>4. QED
  BY <1>3 DEF Map!Lose

\* What a restart would find is read from the flash alone.
LEMMA DictUnread == ASSUME UNCHANGED <<hdr, item>> PROVE Dict' = Dict
<1>1. \A k : Candidates(k)' = Candidates(k)
  BY DEF Candidates, Kept, Normal, IsItem, At
<1>2. \A p, q : Replaces(q, p)' <=> Replaces(q, p)
  BY DEF Replaces, At
<1>3. \A k : Survivors(k)' = Survivors(k)
  BY <1>1, <1>2 DEF Survivors
<1>4. \A k : First(Survivors(k))' = First(Survivors(k))
  BY <1>3 DEF First, Before
<1>5. \A k \in Keys : Dict'[k] = Dict[k]
  <2>1. ASSUME NEW k \in Keys PROVE Dict'[k] = Dict[k]
    <3>1. PICK p : p = CHOOSE q \in First(Survivors(k)) : TRUE
      OBVIOUS
    <3>2. p = (CHOOSE q \in First(Survivors(k)) : TRUE)'
      BY <1>4, <3>1
    <3>3. Dict[k] = IF Survivors(k) = {} THEN NoVal ELSE At(p).val
      BY <3>1 DEF Dict
    <3>4. Dict'[k] = IF Survivors(k)' = {} THEN NoVal ELSE At(p)'.val
      BY <3>2 DEF Dict
    <3>5. At(p)' = At(p)
      BY DEF At
    <3>6. QED
      BY <1>3, <3>3, <3>4, <3>5
  <2>2. QED
    BY <2>1
<1>6. QED
  BY <1>5, DictSame

LEMMA LossNext ==
    ASSUME IInv, IInv', LossInv, LossInv', [Next]_vars
    PROVE  [Map!Next \/ Map!Lose]_(Map!vars)
<1> USE DEF LossInv
<1>1. CASE Reserved /\ Uncut
  <2>1. MapInv /\ MapInv'
    BY <1>1, MapSteps DEF MapInv
  <2>2. QED
    BY <1>1, <2>1, MapNext
<1>2. CASE Reserved /\ ~Uncut
  <2>1. Copying /\ (Crash \/ CutCopy)
    BY <1>2, CutSteps
  <2>2. req # NoReq /\ pc \notin {"idle", "off"} /\ ret # "none"
    BY <2>1, RequestNotNone DEF Served, Copying, GcPCs
  <2>3. pc' = "off" /\ req' = NoReq
    BY <2>1 DEF Crash, CutCopy, PowerLoss
  <2>4. Phase # "down" /\ Phase' = "down" /\ Out' = NoVal
    BY <2>2, <2>3, PhaseIs, PhaseNext, OutNext DEF PhaseRule, OutRule
  <2>5. Dict' = Dict
    BY <1>2, <2>1, CutKeeps, DictSame DEF MapInv
  <2>6. QED
    BY <2>3, <2>4, <2>5 DEF Map!Next, Map!LosePower
<1>3. CASE ~Reserved
  <2>1. Asleep
    BY <1>3 DEF Aside, Asleep
  <2>2. CASE UNCHANGED vars
    <3>1. Dict' = Dict
      BY <2>2, DictUnread DEF vars
    <3>2. UNCHANGED <<req, Phase, Out>>
      BY <2>2 DEF vars, Phase, Out, At
    <3>3. QED
      BY <3>1, <3>2 DEF Map!vars
  <2>3. CASE ~UNCHANGED vars
    <3>1. Boot \/ Crash
      BY <2>1, <2>3, AsleepNext
    <3>2. ~BootDone
      BY <1>3, AbandonedDone DEF Aside, BootDone
    <3>3. Asleep'
      <4>1. pc' # "idle"
        BY <3>1, <3>2 DEF Boot, PowerOn, BootRead, ScanErase, ScanHeader, BootRecover, BootMark,
           BootPass, BootNextBlock, BootKeep, BootDrop, LastErase, LastHeader, NextBlock, AfterDelete,
           Crash, PowerLoss
      <4>2. QED
        BY <2>1, <3>1, <4>1, ServedAsleep
    <3>4. \A k \in Keys : Dict'[k] \in {Dict[k], NoVal}
      <4>1. CASE \E t \in Blocks : Abandoned(t)
        BY <3>1, <3>2, <4>1, AsideLoses
      <4>2. CASE pc = "last_header" /\ unclean = {}
        <5>1. LastHeader \/ Crash
          BY <3>1, <4>2 DEF Boot, PowerOn, BootRead, ScanErase, ScanHeader, BootRecover, BootMark,
             BootPass, BootNextBlock, BootKeep, BootDrop, LastErase, BootDone
        <5>2. QED
          BY <4>2, <5>1, LastKeeps
      <4>3. QED
        BY <1>3, <4>1, <4>2 DEF Aside
    <3>5. Phase = "down" /\ Phase' = "down" /\ Out = NoVal /\ Out' = NoVal /\ req' = req
      BY <2>1, <3>3, PhaseIs, PhaseNext, OutIs, OutNext DEF PhaseRule, OutRule, Asleep, BootPCs
    <3>6. QED
      BY <3>4, <3>5, MapLoses
  <2>4. QED
    BY <2>2, <2>3
<1>4. QED
  BY <1>1, <1>2, <1>3

\* Wherever the power fails, every behaviour of the store is one of the map
\* whose restarts may lose keys: no earlier value of a key comes back, no
\* other key changes, and once calls are served again nothing is lost.
THEOREM LosesOnlyAlways == Spec => LosesOnly
<1>1. IInv /\ IInv' /\ LossInv /\ LossInv' /\ [Next]_vars => [Map!Next \/ Map!Lose]_(Map!vars)
  BY LossNext
<1>2. QED
  BY <1>1, MapStarts, Inductive, LossInductive, PTL DEF Spec, LosesOnly, Map!LossySpec
=============================================================================
