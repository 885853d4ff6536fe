------------------------------ MODULE KvProps ------------------------------
(***************************************************************************)
(* What makes the key-value store of KvMgr correct.                        *)
(***************************************************************************)
EXTENDS KvMgr

\* The type of the state.  The arithmetic types are the deep part: no
\* block_info.space may run below 0 (it is a uint16_t) and write_pos may only
\* leave the last block by one.
TypeOK ==
    /\ hdr \in [Blocks -> BlkStates \cup {"BAD"}]
    /\ item \in [Blocks -> [Slots -> Item \cup {Erased, Torn}]]
    /\ blk_state \in [Blocks -> BlkStates \cup {"NONE"}]
    /\ blk_space \in [Blocks -> 0..Cap]
    /\ clean_blk_nums \in 0..2
    /\ write_pos \in [blk : Blocks, slot : 0..Cap]
    /\ gc_triggered \in BOOLEAN
    /\ pc \in PCs
    /\ req \in Request \cup {NoReq}
    /\ ret \in {"none", "ok", "no_space", "not_found"}
    /\ cur \in [blk : Blocks, slot : 0..(Cap + 1)]
    /\ old \in Pos \cup {NoPos}
    /\ unclean \subseteq Blocks
    /\ crashes \in 0..MaxCrash

-----------------------------------------------------------------------------
(* The map a reboot would find: a function of the flash alone *)

\* kv_init keeps the records of a block in use, and those of a CLEAN block if
\* the other one has nothing to keep.
Kept(b) == \/ hdr[b] \in {"USED", "DIRTY"}
           \/ hdr[b] = "CLEAN" /\ hdr[Other(b)] \in {"CLEAN", "BAD"}

Candidates(k) == {p \in Pos : /\ Kept(p.blk) /\ Normal(p.blk, p.slot)
                              /\ At(p).crc /\ At(p).key = k}
\* Recovery lets q replace its origin p, unless p did the same to q before.
Replaces(q, p) == /\ q # p /\ At(q).origin_off = p
                  /\ ~(At(p).origin_off = q /\ Before(p, q))
Survivors(k) == {p \in Candidates(k) : \A q \in Candidates(k) : ~Replaces(q, p)}

Dict == [k \in Keys |->
            IF Survivors(k) = {} THEN NoVal
            ELSE At(CHOOSE p \in First(Survivors(k)) : TRUE).val]

\* The store is a durable map: every behaviour of kvmgr.c, power failures
\* included, is one of DurableMap's.  A set that returned is never lost, one
\* cut by a power failure happened or did not, a failed one had no effect, and
\* collecting garbage or recovering changes no key.
Phase == IF pc = "idle" THEN "idle"
         ELSE IF pc = "off" \/ req = NoReq THEN "down"
         ELSE IF ret # "none" THEN IF ret = "ok" THEN "ok" ELSE "refused"
         ELSE IF req.op \in {"del_matching", "factory"} \/ pc = "del" THEN "committed"
         ELSE "called"
Out == IF req # NoReq /\ req.op = "get" /\ ret = "ok" THEN At(old).val ELSE NoVal

Map == INSTANCE DurableMap WITH dict <- Dict, phase <- Phase, out <- Out
Durable == Map!Spec

\* Power failures inside collections included, a restart may at worst lose
\* keys: kv_init never brings back a value that was replaced or deleted, and
\* between starts nothing is lost.
LosesOnly == Map!LossySpec

-----------------------------------------------------------------------------
(* Invariants *)

\* Between calls what is in RAM is what is in the flash: the state of each
\* block, its free space, one clean block, and write_pos at the first erased
\* slot of the other.
Mirrored ==
    pc = "idle" =>
        /\ blk_state = hdr
        /\ clean_blk_nums = 1
        /\ \E b \in Blocks : blk_state[b] = "CLEAN"
        /\ \A b \in Blocks :
              IF blk_state[b] = "CLEAN"
              THEN blk_space[b] = Cap /\ \A s \in Slots : item[b][s] = Erased
              ELSE /\ write_pos = [blk |-> b, slot |-> Cap + 1 - blk_space[b]]
                   /\ \A s \in Slots : item[b][s] = Erased <=> s >= write_pos.slot

\* A block is always held in reserve: at no moment, not even between the
\* writes of a collection, do both headers say that the block is in use.
\* (kv_init would format block 0, live records and all.)
OneReserve == \E b \in Blocks : hdr[b] \notin {"USED", "DIRTY"}

\* Between calls each key has at most one valid record, which is what
\* aos_kv_get finds and what a reboot would find: the old record of an update
\* never comes back.
OneRecord ==
    pc = "idle" =>
        \A k \in Keys :
            /\ Cardinality(Matches(k)) <= 1
            /\ Dict[k] = IF Matches(k) = {} THEN NoVal
                         ELSE At(CHOOSE p \in Matches(k) : TRUE).val

\* Between calls a USED block holds valid records only, so that a collection
\* that skips USED blocks leaves no garbage behind.
GarbageIsDirty ==
    pc = "idle" =>
        \A b \in Blocks, s \in Slots :
            hdr[b] = "USED" => (item[b][s] = Erased \/ Normal(b, s))

\* A set refused for want of space has already had the garbage collected:
\* either the next one fits, or every slot holds a valid record.
RefusedOnlyWhenFull ==
    (pc = "return" /\ ret = "no_space") =>
        \/ HasRoom
        \/ \A s \in 1..(Cap - 1) : Normal(write_pos.blk, s)

-----------------------------------------------------------------------------
(***************************************************************************)
(* The inductive invariant behind TypeOK, Mirrored and OneReserve: what    *)
(* holds between any two writes of a call, a collection and a start.       *)
(***************************************************************************)

\* The records of block b are the slots before e.  The last slot of a block is
\* never written.
Filled(b, e) == \A s \in Slots : item[b][s] = Erased <=> s >= e
Contiguous == \A b \in Blocks : \E e \in 1..Cap : Filled(b, e)

\* The cursor of a traversal has not passed the end of its block.
CursorInBlock ==
    pc \in {"bulk", "bulk_mark", "boot_item", "boot_mark", "gc_copy"} =>
        \E e \in 1..Cap : Filled(cur.blk, e) /\ cur.slot \in 1..e

\* The record found for the key exists when it is deleted, after the store of
\* its replacement; a block about to be marked is USED.
OldRecord ==
    /\ pc \in {"idle", "find"} => old = NoPos
    /\ pc = "del" \/ (pc = "store" /\ old # NoPos) =>
          old \in Pos /\ IsItem(old.blk, old.slot)
    /\ pc \in {"mark", "bulk_mark", "boot_mark"} =>
          old \in Pos /\ blk_state[old.blk] = "USED"
    /\ pc \in {"find", "store"} => req \in Request /\ req.op \in {"set", "get", "del"}
    /\ pc = "store" => req.op = "set"
    /\ pc \in {"bulk", "bulk_mark"} => req \in Request /\ req.op = "del_matching"

\* While calls are served: the block of write_pos is in use, the other is clean.
RunPCs == {"idle", "find", "store", "del", "mark", "bulk", "bulk_mark",
           "factory0", "gc_start", "return"}
Behind(b, s) == /\ write_pos = [blk |-> b, slot |-> s]
                /\ Filled(b, s) /\ blk_space[b] = Cap + 1 - s
Empty(b) == Filled(b, 1) /\ blk_space[b] = Cap
Running ==
    pc \in RunPCs =>
        /\ blk_state = hdr
        /\ clean_blk_nums = 1
        /\ \E b \in Blocks, s \in 1..Cap :
              /\ hdr[b] \in {"USED", "DIRTY"} /\ Behind(b, s)
              /\ hdr[Other(b)] = "CLEAN" /\ Empty(Other(b))

\* While a collection runs, its target holds no more records than were read.
Collecting ==
    pc \in GcPCs \ {"gc_start"} =>
        /\ \E s \in 1..Cap : Behind(Other(cur.blk), s) /\ (pc = "gc_copy" => s <= cur.slot)
        /\ hdr[Other(cur.blk)] = "CLEAN" /\ blk_state[Other(cur.blk)] = "CLEAN"
        /\ blk_state[cur.blk] = IF pc = "gc_used" THEN "CLEAN" ELSE "DIRTY"
        /\ hdr[cur.blk] = IF pc = "gc_header" THEN "BAD" ELSE blk_state[cur.blk]
        /\ clean_blk_nums = IF pc = "gc_used" THEN 2 ELSE 1
        /\ pc = "gc_header" => Filled(cur.blk, 1)
        /\ pc = "gc_used" => Empty(cur.blk)

\* While the store starts: the blocks read so far, and which of them are
\* counted as clean.
ScanPCs == {"boot_read", "boot_item", "boot_mark", "scan_erase", "scan_header"}
LastPCs == {"last_erase", "last_header"}
Scanned(b) == pc \in ScanPCs => b < cur.blk
Formatted(b) == pc \in LastPCs /\ b = cur.blk
Counted(b) == Scanned(b) /\ blk_state[b] = "CLEAN" /\ b \notin unclean /\ ~Formatted(b)
CleanBlocks == (IF Counted(0) THEN 1 ELSE 0) + (IF Counted(1) THEN 1 ELSE 0)
Known(b) == blk_state[b] = hdr[b] /\ blk_state[b] \in BlkStates
Ready(b) == /\ Known(b)
            /\ blk_space[b] \in 1..Cap /\ Filled(b, Cap + 1 - blk_space[b])
            /\ blk_state[b] = "CLEAN" /\ b \notin unclean => blk_space[b] = Cap
Unread(b) == IF pc \in {"boot_item", "boot_mark"} /\ b = cur.blk
             THEN Known(b) ELSE blk_state[b] = "NONE"
Starting ==
    /\ pc = "off" => clean_blk_nums = 0 /\ \A b \in Blocks : blk_state[b] = "NONE"
    /\ pc \notin BootPCs => unclean = {}
    /\ pc \in BootPCs =>
        /\ \A b \in Blocks : Scanned(b) /\ ~Formatted(b) => Ready(b)
        /\ \A b \in Blocks : ~Scanned(b) => Unread(b)
        /\ \A b \in unclean : Scanned(b) /\ blk_state[b] = "CLEAN"
        /\ clean_blk_nums = CleanBlocks
        /\ pc \in {"scan_header", "last_header"} =>
              hdr[cur.blk] = "BAD" /\ Filled(cur.blk, 1)
        /\ pc = "last_erase" => hdr[cur.blk] = "CLEAN"
        /\ pc = "boot_read" => cur = Start(cur.blk)
        /\ pc \in LastPCs => clean_blk_nums = 0 /\ cur.blk \notin unclean

IInv == /\ TypeOK /\ Contiguous /\ CursorInBlock /\ OldRecord
        /\ Running /\ Collecting /\ Starting /\ OneReserve

-----------------------------------------------------------------------------
(***************************************************************************)
(* Inductive invariants behind GarbageIsDirty and RefusedOnlyWhenFull.     *)
(***************************************************************************)

\* Between the writes of a collection.
Copying == pc \in GcPCs \ {"gc_start"}

\* Before slot c, block b holds nothing but valid records.
Tidy(b, c) == \A s \in Slots : s < c => item[b][s] = Erased \/ Normal(b, s)
Marking(b) == pc \in {"mark", "bulk_mark", "boot_mark"} /\ b = old.blk

\* A USED block is tidy, or about to be marked: while calls are served, as far
\* as a start has read it, and the target of a collection already before it
\* is used.
Swept ==
    /\ pc \in RunPCs => \A b \in Blocks :
          hdr[b] = "USED" => Tidy(b, Cap + 1) \/ Marking(b)
    /\ pc \in BootPCs => \A b \in Blocks :
          blk_state[b] = "USED" =>
              Tidy(b, IF Scanned(b) THEN Cap + 1 ELSE cur.slot) \/ Marking(b)
    /\ Copying => Tidy(Other(cur.blk), Cap + 1)

\* A refused set goes through the collector before it returns.
Refused ==
    ret = "no_space" =>
        /\ pc \in GcPCs \cup {"return"}
        /\ pc = "gc_start" => gc_triggered /\ ~HasRoom
        /\ pc = "return" => RefusedOnlyWhenFull

-----------------------------------------------------------------------------
(***************************************************************************)
(* The inductive invariant behind Durable.  It is about a store whose      *)
(* collections are not cut: with a power failure in between its copies the *)
(* recovery may delete the only record of a key.                           *)
(***************************************************************************)
CollectionsEnd == CrashAt \cap (GcPCs \ {"gc_start"}) = {}

Live(b) == hdr[b] \in {"USED", "DIRTY"}
Good(b, s) == Normal(b, s) /\ item[b][s].crc
SameKey(b, s, u) == item[b][s].key = item[b][u].key

\* Two records of a key: the second is an update of the first.
Paired(b) ==
    \A s, u \in Slots :
        s < u /\ Good(b, s) /\ Good(b, u) /\ SameKey(b, s, u)
            => item[b][u].origin_off = [blk |-> b, slot |-> s]

\* What the recovery has done in a block before slot c: no damaged record is
\* left, each key has one record there, and none of them is still to replace a
\* later one.
ReadUpTo(b, c) ==
    /\ \A s \in Slots : s < c /\ Normal(b, s) => item[b][s].crc
    /\ \A s, u \in Slots :
          s < u /\ s < c /\ Normal(b, s) /\ Good(b, u) /\ SameKey(b, s, u)
              => u >= c /\ item[b][s].origin_off # [blk |-> b, slot |-> u]
One(b) == ReadUpTo(b, Cap + 1)

\* Which requests are served where, and that their result is not known before.
Served ==
    /\ pc \in {"off", "idle"} => req = NoReq
    /\ pc \in BootPCs => req = NoReq \/ req = [op |-> "factory"]
    /\ pc \in OpPCs \cup GcPCs => req \in Request
    /\ ret = "none" <=> pc \notin {"mark", "return"} \cup GcPCs
    /\ pc \in {"del", "mark"} => req.op \in {"set", "del"}
    /\ pc \in GcPCs => req.op = "set" /\ ret # "not_found"
    /\ pc = "mark" => ret = "ok"
    /\ pc \in {"factory0", "factory1"} => req.op = "factory"
    /\ pc = "factory1" => hdr[0] = "BAD"
    /\ pc = "scan_erase" => hdr[cur.blk] = "BAD"
    /\ pc \in BootPCs /\ req # NoReq => \A b \in Blocks : ~Live(b)

\* A block with a CLEAN header is empty, except while a collection fills it.
Reserved ==
    /\ ~Copying => \A b \in Blocks : hdr[b] = "CLEAN" => Filled(b, 1)
    /\ unclean = {} /\ pc \notin LastPCs

\* One record for each key, but for the two of an update that is not finished.
Single ==
    /\ \A b \in Blocks : Live(b) => Paired(b)
    /\ pc \in RunPCs /\ ~(pc = "del" /\ req.op = "set") =>
          \A b \in Blocks : Live(b) => One(b)
    /\ pc \in BootPCs => \A b \in Blocks :
          Live(b) /\ blk_state[b] # "NONE" =>
              ReadUpTo(b, IF Scanned(b) THEN Cap + 1 ELSE cur.slot)

\* What a set or a del knows of the key's records, and the update under way.
Updating ==
    /\ pc = "store" /\ old = NoPos =>
          \A b \in Blocks, s \in Slots :
              Live(b) /\ Normal(b, s) => item[b][s].key # req.key
    /\ pc = "del" \/ (pc = "store" /\ old # NoPos) =>
          Live(old.blk) /\ Normal(old.blk, old.slot) /\ At(old).key = req.key
    /\ pc = "del" /\ req.op = "set" =>
          \E n \in Slots :
              /\ write_pos = [blk |-> old.blk, slot |-> n + 1] /\ old.slot < n
              /\ Normal(old.blk, n) /\ item[old.blk][n].key = req.key
              /\ item[old.blk][n].val = req.val /\ item[old.blk][n].origin_off = old
              /\ \A s \in Slots : Normal(old.blk, s) => item[old.blk][s].crc
              /\ \A s, u \in Slots :
                    /\ s < u /\ Normal(old.blk, s) /\ Normal(old.blk, u)
                    /\ SameKey(old.blk, s, u)
                    => s = old.slot /\ u = n

\* A bulk deletion leaves no record of its keys behind.
Deleting ==
    pc \in {"bulk", "bulk_mark"} =>
        \A b \in Blocks, s \in Slots :
            Live(b) /\ Normal(b, s) /\ item[b][s].key \in req.keys =>
                ~Before([blk |-> b, slot |-> s], cur)

\* A collection copies each valid record, and nothing else.
Copied ==
    /\ Copying => One(Other(cur.blk))
    /\ pc \in {"gc_copy", "gc_erase"} =>
          /\ One(cur.blk)
          /\ \A s \in Slots : s < cur.slot /\ Normal(cur.blk, s) =>
                \E u \in Slots : item[Other(cur.blk)][u] = item[cur.blk][s]
          /\ \A u \in Slots : Normal(Other(cur.blk), u) =>
                \E s \in Slots : s < cur.slot /\ item[Other(cur.blk)][u] = item[cur.blk][s]
    /\ pc = "gc_erase" => \A s \in Slots : Normal(cur.blk, s) => s < cur.slot

MapInv == Served /\ Reserved /\ Single /\ Updating /\ Deleting /\ Copied

-----------------------------------------------------------------------------
(***************************************************************************)
(* The inductive invariant behind OneRecord and LosesOnly: MapInv, but for *)
(* a start that finds what a cut collection has left.                      *)
(***************************************************************************)

\* No key has two records in block b, damaged ones included.
Once(b) ==
    \A s, u \in Slots :
        s < u /\ Normal(b, s) /\ Normal(b, u) => ~SameKey(b, s, u)

\* Block t was the target of a collection that was cut: it and its source have
\* one record of each key, and what has been read of it is not damaged.
Abandoned(t) ==
    /\ hdr[t] = "CLEAN" /\ unclean \subseteq {t}
    /\ Once(t) /\ Once(Other(t))
    /\ ~Live(Other(t)) => Filled(Other(t), 1)
    /\ pc \in BootPCs /\ blk_state[t] # "NONE" =>
          \A s \in Slots :
              s < (IF Scanned(t) THEN Cap + 1 ELSE cur.slot) /\ Normal(t, s) => item[t][s].crc
    /\ pc \in LastPCs => t = cur.blk

\* Only a start meets it.
Aside ==
    \/ Reserved
    \/ /\ pc \in BootPCs \cup {"off"} /\ req = NoReq
       /\ \/ \E t \in Blocks : Abandoned(t)
          \/ pc = "last_header" /\ unclean = {} /\ hdr[cur.blk] = "BAD"

LossInv == Served /\ Aside /\ Single /\ Updating /\ Deleting /\ Copied

-----------------------------------------------------------------------------
(* Action properties *)

\* Starting the store changes no key: the records kv_init deletes and the
\* block it formats are copies, or were replaced by an update.
RecoveryPreserves == [][(pc \in BootPCs /\ req = NoReq) => Dict' = Dict]_flash

\* Flash can be programmed from 1 to 0 only, until the block is erased: a
\* record is written in erased slots only and then at most deleted, and a
\* block's state byte goes CLEAN 0xEE, USED 0xCC, DIRTY 0x44, invalid 0x00.
Rank(s) == CASE s = "CLEAN" -> 3 [] s = "USED" -> 2 [] s = "DIRTY" -> 1 [] s = "BAD" -> 0
ErasedBlock(i) == \A s \in Slots : i[s] = Erased
ProgramsBits(b) ==
    /\ \A s \in Slots :
          \/ item'[b][s] = item[b][s]
          \/ item[b][s] = Erased
          \/ Normal(b, s) /\ item'[b][s] = [item[b][s] EXCEPT !.state = "DELETE"]
    /\ \/ Rank(hdr'[b]) <= Rank(hdr[b])
       \/ hdr[b] = "BAD" /\ ErasedBlock(item[b]) /\ hdr'[b] = "CLEAN"
Disciplined == \A b \in Blocks : \/ ProgramsBits(b)
                                 \/ (ErasedBlock(item'[b]) /\ hdr'[b] = "BAD")
FlashDiscipline == [][Disciplined]_flash

-----------------------------------------------------------------------------
(* Liveness *)

\* Every call returns and every start of the store completes, once the power
\* stays on: no traversal, collection or recovery runs forever.
Completes == pc # "idle" ~> pc = "idle"
=============================================================================
