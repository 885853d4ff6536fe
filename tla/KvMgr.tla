------------------------------- MODULE KvMgr -------------------------------
(***************************************************************************)
(* The key-value store of the node (kvmgr.c): a log of records in two      *)
(* flash blocks, one in use and one kept clean for garbage collection.     *)
(*                                                                         *)
(* One step is one flash write (or one read loop that writes nothing), so  *)
(* that the power can fail between any two of them; a record write can     *)
(* also be cut in the middle.  All records have the same length, one slot: *)
(* the application's only key has a one byte value.  A block has Cap slots *)
(* behind its header, slot 0, and an offset is a pair of block and slot.   *)
(*                                                                         *)
(* BLK_NUMS is 2, as in kvmgr.h; the searches compiled in only for more    *)
(* blocks (lines 241-243, 255-279) are left out, like malloc failures and  *)
(* flash errors, which raw_read, raw_write and raw_erase never report.     *)
(***************************************************************************)
EXTENDS Integers, FiniteSets

CONSTANTS
    Keys, Vals,     \* keys and values of the callers
    NoVal,          \* no value: the key is absent
    NoReq,          \* no request is being served
    Erased,         \* a slot in the erased state, 0xFF
    Torn,           \* a slot whose record header was cut: lengths out of range
    Cap,            \* record slots of a block
    ItemMax,        \* ITEM_MAX_LEN, counted in slots
    KeySets,        \* what aos_kv_del_by_prefix and aos_kv_del_all can match
    Ops,            \* the operations the callers use
    CrashAt,        \* the program points at which the power may fail
    MaxCrash        \* bound: number of power failures

Blocks == {0, 1}
Slots == 1..Cap
Other(b) == 1 - b

BlkStates == {"CLEAN", "USED", "DIRTY"}
Pos == [blk : Blocks, slot : Slots]
NoPos == [blk |-> 0, slot |-> 0]        \* offset 0, "no origin"
Start(b) == [blk |-> b, slot |-> 1]     \* the offset behind the block header

\* item_hdr_t with the key and value behind it; crc says whether it matches.
Item == [key : Keys, val : Vals, state : {"NORMAL", "DELETE"}, crc : BOOLEAN,
         origin_off : Pos \cup {NoPos}]

Request ==      [op : {"set"}, key : Keys, val : Vals]
           \cup [op : {"get", "del"}, key : Keys]
           \cup [op : {"del_matching"}, keys : KeySets]
           \cup [op : {"factory"}]

BootPCs == {"boot_read", "boot_item", "boot_mark", "scan_erase", "scan_header",
            "boot_unclean", "last_erase", "last_header"}
GcPCs == {"gc_start", "gc_copy", "gc_erase", "gc_header", "gc_used"}
OpPCs == {"find", "store", "del", "mark", "bulk", "bulk_mark", "factory0",
          "factory1", "return"}
PCs == {"off", "idle"} \cup BootPCs \cup GcPCs \cup OpPCs

ASSUME ConstantsAssumption ==
    /\ Cap \in Nat /\ Cap > 1
    /\ ItemMax \in Nat /\ ItemMax > 0
    /\ MaxCrash \in Nat
    /\ NoVal \notin Vals
    /\ NoReq \notin Request
    /\ Erased \notin Item /\ Torn \notin Item /\ Erased # Torn
    /\ KeySets \subseteq SUBSET Keys
    /\ Ops \subseteq {"set", "get", "del", "del_matching", "factory"}
    /\ CrashAt \subseteq PCs

VARIABLES
    \* the flash
    hdr,            \* block headers; "BAD": wrong magic or an invalid state
    item,           \* the record slots of each block
    \* g_kv_mgr, lost when the power fails
    blk_state, blk_space, clean_blk_nums, write_pos, gc_triggered,
    \* where the program is
    pc,
    req,            \* the call being served
    ret,            \* its result once known
    cur,            \* the record a traversal is at
    old,            \* the record found for the key, or the one just deleted
    unclean,        \* kv_init's blocks with a CLEAN header that hold records
    crashes         \* power failures so far

flash == <<hdr, item>>
ram == <<blk_state, blk_space, clean_blk_nums, write_pos, gc_triggered>>
context == <<req, ret, cur, old, unclean>>
vars == <<hdr, item, blk_state, blk_space, clean_blk_nums, write_pos,
          gc_triggered, pc, req, ret, cur, old, unclean, crashes>>

-----------------------------------------------------------------------------
(* Reading the flash *)

At(p) == item[p.blk][p.slot]
IsItem(b, s) == item[b][s] \notin {Erased, Torn}
Normal(b, s) == IsItem(b, s) /\ item[b][s].state = "NORMAL"

\* The slot a traversal of a block stops at: the first erased one, or the end.
EndIn(slots) == CHOOSE e \in 1..(Cap + 1) :
                    /\ e = Cap + 1 \/ slots[e] = Erased
                    /\ \A s \in 1..(e - 1) : slots[s] # Erased
EndOf(b) == EndIn(item[b])
\* The free space the traversal then records.  At the end of the block the
\* code records 8 bytes, which no record fits in.
SpaceOf(b) == Cap + 1 - EndOf(b)

\* A write advances write_pos; past the last slot it is in the next block.
Advance(p) == IF p.slot < Cap THEN [p EXCEPT !.slot = @ + 1]
                              ELSE [blk |-> p.blk + 1, slot |-> 0]

Before(p, q) == p.blk < q.blk \/ (p.blk = q.blk /\ p.slot < q.slot)

\* The records kv_item_get compares with the key, and the first that matches.
Matches(k) == {p \in Pos : /\ blk_state[p.blk] # "CLEAN"
                           /\ p.slot < EndOf(p.blk)
                           /\ Normal(p.blk, p.slot)
                           /\ At(p).key = k}
First(P) == {p \in P : \A q \in P : ~Before(q, p)}

WriteItem(p, i) == item' = [item EXCEPT ![p.blk][p.slot] = i]
SetHeader(b, s) == hdr' = [hdr EXCEPT ![b] = s]
SetState(b, s) == blk_state' = [blk_state EXCEPT ![b] = s]

\* A traversal that passes a deleted or torn record of a USED block marks the
\* block DIRTY, in the flash and in RAM.
MarkDirty(B) ==
    /\ hdr' = [b \in Blocks |-> IF b \in B THEN "DIRTY" ELSE hdr[b]]
    /\ blk_state' = [b \in Blocks |-> IF b \in B THEN "DIRTY" ELSE blk_state[b]]

\* kv_item_del writes the record's state byte and leaves in old where.
Delete(p) == /\ item' = [item EXCEPT ![p.blk][p.slot].state = "DELETE"]
             /\ old' = p

\* Mutant: the block is not marked.
AfterDeleteNoMark(p, marking, done) == pc' = done

\* ... and goes on to the block header if the block is USED in RAM.
AfterDelete(p, marking, done) ==
    pc' = IF blk_state[p.blk] = "USED" THEN marking ELSE done
MarkOld == SetHeader(old.blk, "DIRTY") /\ SetState(old.blk, "DIRTY")

\* trigger_gc
TriggerGcIf(c) == gc_triggered' = (gc_triggered \/ c)

\* Mutant: the header is rewritten without erasing the block.
EraseBlockNoErase(b) == SetHeader(b, "BAD") /\ UNCHANGED item

\* kv_block_format, its two flash writes
EraseBlock(b) == /\ item' = [item EXCEPT ![b] = [s \in Slots |-> Erased]]
                 /\ SetHeader(b, "BAD")
WriteCleanHeader(b) == /\ SetHeader(b, "CLEAN")
                       /\ SetState(b, "CLEAN")
                       /\ blk_space' = [blk_space EXCEPT ![b] = Cap]
                       /\ clean_blk_nums' = clean_blk_nums + 1

-----------------------------------------------------------------------------
(* Calls *)

Call(r) ==
    /\ pc = "idle" /\ r.op \in Ops
    /\ req' = r
    /\ pc' = CASE r.op \in {"set", "get", "del"} -> "find"
               [] r.op = "del_matching" -> "bulk"
               [] r.op = "factory" -> "factory0"
    /\ cur' = IF r.op = "del_matching" THEN Start(0) ELSE NoPos
    /\ UNCHANGED <<flash, ram, ret, old, unclean, crashes>>

CallSet == \E k \in Keys, v \in Vals : Call([op |-> "set", key |-> k, val |-> v])
CallGet == \E k \in Keys : Call([op |-> "get", key |-> k])
CallDel == \E k \in Keys : Call([op |-> "del", key |-> k])
CallDelMatching == \E K \in KeySets : Call([op |-> "del_matching", keys |-> K])
CallFactory == Call([op |-> "factory"])

Return ==
    /\ pc = "return"
    /\ pc' = "idle"
    /\ req' = NoReq /\ ret' = "none"
    /\ cur' = NoPos /\ old' = NoPos
    /\ UNCHANGED <<flash, ram, unclean, crashes>>

\* kv_item_get traverses the blocks in use, in order, up to the first match:
\* it marks the USED blocks in which it passed a record that is not valid, and
\* records the free space of those it read to their end.
Traversed(found) == {b \in Blocks : blk_state[b] # "CLEAN"
                                    /\ (found = NoPos \/ b <= found.blk)}
PassedInvalid(b, found) ==
    \E s \in 1..(EndOf(b) - 1) : /\ ~Normal(b, s)
                                 /\ b = found.blk /\ found # NoPos => s < found.slot
Traverse(found) ==
    /\ MarkDirty({b \in Traversed(found) :
                      blk_state[b] = "USED" /\ PassedInvalid(b, found)})
    /\ blk_space' = [b \in Blocks |->
                        IF b \in Traversed(found) /\ (found = NoPos \/ b # found.blk)
                        THEN SpaceOf(b) ELSE blk_space[b]]

\* The key is present: aos_kv_get returns it, aos_kv_del deletes it,
\* kv_item_update stores the new value unless it is the present one.
FindHit ==
    /\ pc = "find"
    /\ \E p \in First(Matches(req.key)) :
         /\ Traverse(p)
         /\ old' = p
         /\ \/ req.op = "get" /\ ret' = "ok" /\ pc' = "return"
            \/ req.op = "del" /\ pc' = "del" /\ UNCHANGED ret
            \/ req.op = "set" /\ At(p).val = req.val /\ ret' = "ok" /\ pc' = "gc_start"
            \/ req.op = "set" /\ At(p).val # req.val /\ pc' = "store" /\ UNCHANGED ret
    /\ UNCHANGED <<item, clean_blk_nums, write_pos, gc_triggered, req, cur,
                   unclean, crashes>>

FindMiss ==
    /\ pc = "find"
    /\ Matches(req.key) = {}
    /\ Traverse(NoPos)
    /\ IF req.op = "set" THEN pc' = "store" /\ UNCHANGED ret
                         ELSE pc' = "return" /\ ret' = "not_found"
    /\ UNCHANGED <<item, clean_blk_nums, write_pos, gc_triggered, req, cur, old,
                   unclean, crashes>>

\* Mutant: a record may fill the block to its end (>= for >).
HasRoomToTheEnd == write_pos # NoPos /\ blk_space[write_pos.blk] >= 1

\* kv_item_calc_pos: strictly more space than the record needs.
HasRoom == write_pos # NoPos /\ blk_space[write_pos.blk] > 1
NewItem(good) == [key |-> req.key, val |-> req.val, state |-> "NORMAL",
                  crc |-> good, origin_off |-> old]

\* kv_item_store with room for the record.  An update goes on to delete the
\* old record.
Store ==
    /\ pc = "store"
    /\ HasRoom
    /\ TriggerGcIf(blk_space[write_pos.blk] - 1 < ItemMax /\ clean_blk_nums <= 1)
    /\ WriteItem(write_pos, NewItem(TRUE))
    /\ write_pos' = Advance(write_pos)
    /\ blk_space' = [blk_space EXCEPT ![Advance(write_pos).blk] = @ - 1]
    /\ IF old = NoPos THEN pc' = "gc_start" /\ ret' = "ok"
                      ELSE pc' = "del" /\ UNCHANGED ret
    /\ UNCHANGED <<hdr, blk_state, clean_blk_nums, req, cur, old, unclean, crashes>>

\* Mutant: a refused store does not trigger the collector.
StoreNoSpaceNoGc ==
    /\ pc = "store"
    /\ ~HasRoom
    /\ pc' = "gc_start" /\ ret' = "no_space"
    /\ UNCHANGED <<flash, ram, req, cur, old, unclean, crashes>>

StoreNoSpace ==
    /\ pc = "store"
    /\ ~HasRoom
    /\ TriggerGcIf(TRUE)
    /\ pc' = "gc_start" /\ ret' = "no_space"
    /\ UNCHANGED <<flash, blk_state, blk_space, clean_blk_nums, write_pos, req,
                   cur, old, unclean, crashes>>

\* kv_item_del(KV_SELF_REMOVE): the state byte of the record, then the state
\* byte of its block.  aos_kv_set continues with the collector if it has been
\* triggered; aos_kv_del never runs it.
AfterOp == IF req.op = "set" THEN "gc_start" ELSE "return"

DelItem ==
    /\ pc = "del"
    /\ Delete(old)
    /\ AfterDelete(old, "mark", AfterOp)
    /\ ret' = "ok"
    /\ UNCHANGED <<hdr, ram, req, cur, unclean, crashes>>

MarkItemBlock ==
    /\ pc = "mark"
    /\ MarkOld
    /\ pc' = AfterOp
    /\ UNCHANGED <<item, blk_space, clean_blk_nums, write_pos, gc_triggered,
                   req, ret, cur, old, unclean, crashes>>

-----------------------------------------------------------------------------
(* aos_kv_del_by_prefix and aos_kv_del_all: every block, CLEAN ones too *)

NextRecord == cur' = [cur EXCEPT !.slot = @ + 1]

\* Mutant: the traversal does not advance (pos += ITEM_HEADER_SIZE missing).
PassInvalidStuck ==
    /\ ~Normal(cur.blk, cur.slot)
    /\ MarkDirty({b \in {cur.blk} : blk_state[b] = "USED"})
    /\ UNCHANGED cur

\* A traversal's step over a record that is torn or deleted.
PassInvalid ==
    /\ ~Normal(cur.blk, cur.slot)
    /\ MarkDirty({b \in {cur.blk} : blk_state[b] = "USED"})
    /\ NextRecord
\* The end of a traversal, where it records the space that is left.
AtEnd == cur.slot = EndOf(cur.blk)
RecordSpace == blk_space' = [blk_space EXCEPT ![cur.blk] = SpaceOf(cur.blk)]

BulkDelete ==
    /\ pc = "bulk" /\ ~AtEnd
    /\ Normal(cur.blk, cur.slot)
    /\ \/ /\ At(cur).key \in req.keys
          /\ Delete(cur)
          /\ AfterDelete(cur, "bulk_mark", "bulk")
       \/ /\ At(cur).key \notin req.keys
          /\ UNCHANGED <<item, old, pc>>
    /\ NextRecord
    /\ UNCHANGED <<hdr, ram, req, ret, unclean, crashes>>

BulkMark ==
    /\ pc = "bulk_mark"
    /\ MarkOld
    /\ pc' = "bulk"
    /\ UNCHANGED <<item, blk_space, clean_blk_nums, write_pos, gc_triggered,
                   req, ret, cur, old, unclean, crashes>>

BulkPass ==
    /\ pc = "bulk" /\ ~AtEnd
    /\ PassInvalid
    /\ UNCHANGED <<item, blk_space, clean_blk_nums, write_pos, gc_triggered, pc,
                   req, ret, old, unclean, crashes>>

BulkNextBlock ==
    /\ pc = "bulk" /\ AtEnd
    /\ RecordSpace
    /\ \/ cur.blk = 0 /\ cur' = Start(1) /\ UNCHANGED <<pc, ret>>
       \/ cur.blk = 1 /\ pc' = "return" /\ ret' = "ok" /\ UNCHANGED cur
    /\ UNCHANGED <<flash, blk_state, clean_blk_nums, write_pos, gc_triggered,
                   req, old, unclean, crashes>>

-----------------------------------------------------------------------------
(* aos_kv_gc, called by aos_kv_set when a collection has been triggered *)

\* With two blocks, one of them CLEAN, the search for a DIRTY block can only
\* end at the other one.
GcTargets == {b \in Blocks : blk_state[b] = "CLEAN"
                             /\ \A c \in Blocks : c < b => blk_state[c] # "CLEAN"}
GcSources == {b \in Blocks : blk_state[b] = "DIRTY"}

GcSkip ==
    /\ pc = "gc_start"
    /\ ~gc_triggered \/ clean_blk_nums = 0 \/ GcTargets = {} \/ GcSources = {}
    /\ gc_triggered' = FALSE
    /\ pc' = "return"
    /\ UNCHANGED <<flash, blk_state, blk_space, clean_blk_nums, write_pos, req,
                   ret, cur, old, unclean, crashes>>

GcStart ==
    /\ pc = "gc_start"
    /\ gc_triggered /\ clean_blk_nums # 0
    /\ \E dst \in GcTargets, src \in GcSources :
         /\ write_pos' = Start(dst)
         /\ cur' = Start(src)
    /\ pc' = "gc_copy"
    /\ UNCHANGED <<flash, blk_state, blk_space, clean_blk_nums, gc_triggered,
                   req, ret, old, unclean, crashes>>

\* __item_gc_cb copies the record as it is, origin_off included.
GcCopy ==
    /\ pc = "gc_copy" /\ ~AtEnd
    /\ Normal(cur.blk, cur.slot)
    /\ WriteItem(write_pos, At(cur))
    /\ write_pos' = Advance(write_pos)
    /\ blk_space' = [blk_space EXCEPT ![Advance(write_pos).blk] = @ - 1]
    /\ NextRecord
    /\ UNCHANGED <<hdr, blk_state, clean_blk_nums, gc_triggered, pc, req, ret,
                   old, unclean, crashes>>

GcPass ==
    /\ pc = "gc_copy" /\ ~AtEnd
    /\ PassInvalid
    /\ UNCHANGED <<item, blk_space, clean_blk_nums, write_pos, gc_triggered, pc,
                   req, ret, old, unclean, crashes>>

GcCopied ==
    /\ pc = "gc_copy" /\ AtEnd
    /\ RecordSpace
    /\ pc' = "gc_erase"
    /\ UNCHANGED <<flash, blk_state, clean_blk_nums, write_pos, gc_triggered,
                   req, ret, cur, old, unclean, crashes>>

GcErase ==
    /\ pc = "gc_erase"
    /\ EraseBlock(cur.blk)
    /\ pc' = "gc_header"
    /\ UNCHANGED <<ram, context, crashes>>

GcHeader ==
    /\ pc = "gc_header"
    /\ WriteCleanHeader(cur.blk)
    /\ pc' = "gc_used"
    /\ UNCHANGED <<item, write_pos, gc_triggered, context, crashes>>

\* The header of write_pos's block and the state of the target, gc_index: the
\* block that is not the source.
GcUsed ==
    /\ pc = "gc_used"
    /\ SetHeader(write_pos.blk, "USED")
    /\ SetState(Other(cur.blk), "USED")
    /\ clean_blk_nums' = clean_blk_nums - 1
    /\ gc_triggered' = FALSE
    /\ pc' = "return"
    /\ UNCHANGED <<item, blk_space, write_pos, context, crashes>>

-----------------------------------------------------------------------------
(* aos_kv_init, at power on and from kv_default_factory_load *)

ResetRam ==
    /\ blk_state' = [b \in Blocks |-> "NONE"]
    /\ blk_space' = [b \in Blocks |-> 0]
    /\ clean_blk_nums' = 0
    /\ write_pos' = NoPos
    /\ gc_triggered' = FALSE

\* kv_default_factory_load makes the two headers invalid and starts again.
Factory0 ==
    /\ pc = "factory0"
    /\ SetHeader(0, "BAD")
    /\ pc' = "factory1"
    /\ UNCHANGED <<item, ram, context, crashes>>

Factory1 ==
    /\ pc = "factory1"
    /\ SetHeader(1, "BAD")
    /\ ResetRam
    /\ cur' = Start(0) /\ pc' = "boot_read"
    /\ UNCHANGED <<item, req, ret, old, unclean, crashes>>

PowerOn ==
    /\ pc = "off"
    /\ cur' = Start(0) /\ pc' = "boot_read"
    /\ UNCHANGED <<flash, ram, req, ret, old, unclean, crashes>>

\* kv_init's loop over the blocks: the block header ...
NextBlock == IF cur.blk = 0 THEN cur' = Start(1) /\ pc' = "boot_read"
                            ELSE cur' = NoPos /\ pc' = "boot_unclean"

BootRead ==
    /\ pc = "boot_read"
    /\ IF hdr[cur.blk] = "BAD"
       THEN pc' = "scan_erase" /\ UNCHANGED blk_state
       ELSE pc' = "boot_item" /\ SetState(cur.blk, hdr[cur.blk])
    /\ UNCHANGED <<flash, blk_space, clean_blk_nums, write_pos, gc_triggered,
                   req, ret, cur, old, unclean, crashes>>

ScanErase ==
    /\ pc = "scan_erase"
    /\ EraseBlock(cur.blk)
    /\ pc' = "scan_header"
    /\ UNCHANGED <<ram, context, crashes>>

ScanHeader ==
    /\ pc = "scan_header"
    /\ WriteCleanHeader(cur.blk)
    /\ NextBlock
    /\ UNCHANGED <<item, write_pos, gc_triggered, req, ret, old, unclean, crashes>>

\* Mutants: the CRC is not checked; the origin is not looked for.
RecoveredNoCrc(p) ==
    {q \in {At(p).origin_off} \ {NoPos, p} :
         Normal(q.blk, q.slot) /\ At(q).key = At(p).key}
RecoveredNoOrigin(p) == IF ~At(p).crc THEN {p} ELSE {}

\* ... then __item_recovery_cb on its valid records: one with a wrong CRC is
\* deleted; otherwise the record its origin_off points at, when that is a valid
\* record of the same key.
Recovered(p) ==
    IF ~At(p).crc THEN {p}
    ELSE {q \in {At(p).origin_off} \ {NoPos, p} :
             Normal(q.blk, q.slot) /\ At(q).key = At(p).key}

BootRecover ==
    /\ pc = "boot_item" /\ ~AtEnd
    /\ Normal(cur.blk, cur.slot)
    /\ \/ \E p \in Recovered(cur) : /\ Delete(p)
                                    /\ AfterDelete(p, "boot_mark", "boot_item")
       \/ Recovered(cur) = {} /\ UNCHANGED <<item, old, pc>>
    /\ NextRecord
    /\ UNCHANGED <<hdr, ram, req, ret, unclean, crashes>>

BootMark ==
    /\ pc = "boot_mark"
    /\ MarkOld
    /\ pc' = "boot_item"
    /\ UNCHANGED <<item, blk_space, clean_blk_nums, write_pos, gc_triggered,
                   req, ret, cur, old, unclean, crashes>>

BootPass ==
    /\ pc = "boot_item" /\ ~AtEnd
    /\ PassInvalid
    /\ UNCHANGED <<item, blk_space, clean_blk_nums, write_pos, gc_triggered, pc,
                   req, ret, old, unclean, crashes>>

BootNextBlock ==
    /\ pc = "boot_item" /\ AtEnd
    /\ RecordSpace
    /\ LET clean == blk_state[cur.blk] = "CLEAN"
           empty == SpaceOf(cur.blk) = Cap
       IN /\ unclean' = IF clean /\ ~empty THEN unclean \cup {cur.blk} ELSE unclean
          /\ clean_blk_nums' = IF clean /\ empty THEN clean_blk_nums + 1
                                                 ELSE clean_blk_nums
    /\ NextBlock
    /\ UNCHANGED <<flash, blk_state, write_pos, gc_triggered, req, ret, old, crashes>>

\* A CLEAN block with records is the target of an interrupted collection.  It
\* is kept if the other block is already clean, else it is formatted: the
\* source is still there.  Without a clean block, block 0 is formatted.
BootKeep ==
    /\ pc = "boot_unclean"
    /\ unclean # {} /\ clean_blk_nums >= 1
    /\ \E b \in unclean :
         /\ \A c \in unclean : c <= b
         /\ SetHeader(b, "DIRTY") /\ SetState(b, "DIRTY")
         /\ unclean' = unclean \ {b}
    /\ UNCHANGED <<item, blk_space, clean_blk_nums, write_pos, gc_triggered, pc,
                   req, ret, cur, old, crashes>>

BootDrop ==
    /\ pc = "boot_unclean"
    /\ clean_blk_nums = 0
    /\ \E b \in IF unclean = {} THEN {0} ELSE unclean :
         /\ \A c \in unclean : c <= b
         /\ cur' = Start(b)
         /\ unclean' = unclean \ {b}
    /\ pc' = "last_erase"
    /\ UNCHANGED <<flash, ram, req, ret, old, crashes>>

LastErase ==
    /\ pc = "last_erase"
    /\ EraseBlock(cur.blk)
    /\ pc' = "last_header"
    /\ UNCHANGED <<ram, context, crashes>>

LastHeader ==
    /\ pc = "last_header"
    /\ WriteCleanHeader(cur.blk)
    /\ cur' = NoPos /\ pc' = "boot_unclean"
    /\ UNCHANGED <<item, write_pos, gc_triggered, req, ret, old, unclean, crashes>>

\* Where writing goes on: in block 0 of an empty store, else behind the records
\* of the block in use; then aos_kv_init looks whether to collect soon.
InUse == {b \in Blocks : blk_state[b] \in {"USED", "DIRTY"}
                         /\ blk_state[Other(b)] = "CLEAN"}
BehindRecords(b) == IF blk_space[b] > 0
                    THEN [blk |-> b, slot |-> Cap + 1 - blk_space[b]]
                    ELSE [blk |-> b + 1, slot |-> 0]

BootDone ==
    /\ pc = "boot_unclean"
    /\ unclean = {} /\ clean_blk_nums # 0
    /\ IF clean_blk_nums = 2
       THEN /\ write_pos' = Start(0)
            /\ SetHeader(0, "USED") /\ SetState(0, "USED")
            /\ clean_blk_nums' = clean_blk_nums - 1
       ELSE /\ write_pos' = IF InUse = {} THEN write_pos
                            ELSE BehindRecords(IF 0 \in InUse THEN 0 ELSE 1)
            /\ UNCHANGED <<hdr, blk_state, clean_blk_nums>>
    /\ gc_triggered' = (blk_space[write_pos'.blk] < ItemMax /\ clean_blk_nums' < 2)
    /\ pc' = "idle"
    /\ req' = NoReq /\ ret' = "none" /\ cur' = NoPos /\ old' = NoPos
    /\ UNCHANGED <<item, blk_space, unclean, crashes>>

-----------------------------------------------------------------------------
(* Loss of power: what is in RAM is lost, and a record write may be cut *)

PowerLoss ==
    /\ pc \in CrashAt /\ crashes < MaxCrash
    /\ crashes' = crashes + 1
    /\ ResetRam
    /\ pc' = "off"
    /\ req' = NoReq /\ ret' = "none" /\ cur' = NoPos /\ old' = NoPos
    /\ unclean' = {}

Crash == pc # "off" /\ PowerLoss /\ UNCHANGED flash

\* A cut record has either a useless header or a wrong CRC.
CutStore ==
    /\ pc = "store" /\ HasRoom
    /\ \E i \in {Torn, NewItem(FALSE)} : WriteItem(write_pos, i)
    /\ PowerLoss
    /\ UNCHANGED hdr

CutCopy ==
    /\ pc = "gc_copy" /\ ~AtEnd /\ Normal(cur.blk, cur.slot)
    /\ \E i \in {Torn, [At(cur) EXCEPT !.crc = FALSE]} : WriteItem(write_pos, i)
    /\ PowerLoss
    /\ UNCHANGED hdr

-----------------------------------------------------------------------------

\* A new node: the flash has never been formatted.
Init ==
    /\ hdr = [b \in Blocks |-> "BAD"]
    /\ item = [b \in Blocks |-> [s \in Slots |-> Erased]]
    /\ blk_state = [b \in Blocks |-> "NONE"]
    /\ blk_space = [b \in Blocks |-> 0]
    /\ clean_blk_nums = 0 /\ write_pos = NoPos /\ gc_triggered = FALSE
    /\ pc = "off"
    /\ req = NoReq /\ ret = "none" /\ cur = NoPos /\ old = NoPos /\ unclean = {}
    /\ crashes = 0

Calls == CallSet \/ CallGet \/ CallDel \/ CallDelMatching \/ CallFactory

Boot == \/ PowerOn \/ BootRead \/ ScanErase \/ ScanHeader \/ BootRecover
        \/ BootMark \/ BootPass \/ BootNextBlock \/ BootKeep \/ BootDrop
        \/ LastErase \/ LastHeader \/ BootDone

Gc == \/ GcSkip \/ GcStart \/ GcCopy \/ GcPass \/ GcCopied \/ GcErase
      \/ GcHeader \/ GcUsed

Op == \/ FindHit \/ FindMiss \/ Store \/ StoreNoSpace \/ DelItem
      \/ MarkItemBlock \/ BulkDelete \/ BulkMark \/ BulkPass \/ BulkNextBlock
      \/ Factory0 \/ Factory1 \/ Return

Failure == Crash \/ CutStore \/ CutCopy

\* The program itself runs on while it has something to do.
Step == Boot \/ Gc \/ Op

Next == Calls \/ Step \/ Failure

Spec == Init /\ [][Next]_vars

FairSpec == Spec /\ WF_vars(Step)
=============================================================================
