------------------------------ MODULE KvProofs ------------------------------
(***************************************************************************)
(* Theorems about the key-value store: IInv is inductive, the flash is     *)
(* written as flash can be, and the collector finds what garbage there is. *)
(***************************************************************************)
EXTENDS KvProps, TLAPS

\* A traversal of a block whose records are the slots before e ends at e.
LEMMA EndInFilled ==
    ASSUME NEW slots, NEW e \in 1..Cap,
           \A s \in Slots : slots[s] = Erased <=> s >= e
    PROVE  EndIn(slots) = e
<1> DEFINE P(x) == /\ x = Cap + 1 \/ slots[x] = Erased
                   /\ \A s \in 1..(x - 1) : slots[s] # Erased
<1> USE ConstantsAssumption DEF Slots
<1>1. e \in 1..(Cap + 1) /\ P(e)
  OBVIOUS
<1>2. ASSUME NEW x \in 1..(Cap + 1), P(x)
      PROVE  x = e
  <2>1. ~(x < e)
    <3>1. SUFFICES ASSUME x < e PROVE FALSE
      OBVIOUS
    <3>2. x \in 1..Cap /\ slots[x] # Erased
      BY <3>1
    <3>3. QED
      BY <3>2, <1>2
  <2>2. ~(e < x)
    <3>1. SUFFICES ASSUME e < x PROVE FALSE
      OBVIOUS
    <3>2. e \in 1..(x - 1) /\ slots[e] = Erased
      BY <3>1
    <3>3. QED
      BY <3>2, <1>2
  <2>3. QED
    BY <2>1, <2>2
<1>3. EndIn(slots) = CHOOSE x \in 1..(Cap + 1) : P(x)
  BY DEF EndIn
<1>4. (CHOOSE x \in 1..(Cap + 1) : P(x)) = e
  <2> HIDE DEF P
  <2> QED
    BY <1>1, <1>2
<1>5. QED
  BY <1>3, <1>4

LEMMA EndOfFilled ==
    ASSUME NEW b \in Blocks, NEW e \in 1..Cap, Filled(b, e)
    PROVE  EndOf(b) = e
BY EndInFilled DEF Filled, EndOf

LEMMA ContiguousEnd ==
    ASSUME Contiguous, NEW b \in Blocks
    PROVE  EndOf(b) \in 1..Cap /\ Filled(b, EndOf(b))
<1>1. PICK e \in 1..Cap : Filled(b, e)
  BY DEF Contiguous
<1>2. QED
  BY <1>1, EndOfFilled

-----------------------------------------------------------------------------
(* What the flash writes do to the slots *)

ItemType == item \in [Blocks -> [Slots -> Item \cup {Erased, Torn}]]

\* Deleting a record leaves it a record: no slot becomes erased.
LEMMA DeleteSlot ==
    ASSUME ItemType, NEW p \in Pos, IsItem(p.blk, p.slot), Delete(p)
    PROVE  /\ ItemType'
           /\ \A b \in Blocks : \A e : Filled(b, e)' <=> Filled(b, e)
           /\ \A b \in Blocks, s \in Slots : IsItem(b, s)' <=> IsItem(b, s)
<1> USE DEF ItemType, Delete, IsItem, Pos
<1>1. item[p.blk][p.slot] \in Item
  OBVIOUS
<1>2. [item[p.blk][p.slot] EXCEPT !.state = "DELETE"] \in Item
  BY <1>1 DEF Item
<1>3. ItemType' /\ item'[p.blk][p.slot] \in Item
  BY <1>2
<1>4. \A b \in Blocks, s \in Slots :
         (b # p.blk \/ s # p.slot) => item'[b][s] = item[b][s]
  OBVIOUS
<1>5. \A b \in Blocks, s \in Slots :
         /\ item'[b][s] = Erased <=> item[b][s] = Erased
         /\ item'[b][s] = Torn <=> item[b][s] = Torn
  <2>1. /\ item[p.blk][p.slot] \notin {Erased, Torn}
        /\ item'[p.blk][p.slot] \notin {Erased, Torn}
    BY <1>1, <1>3, ConstantsAssumption
  <2>2. QED
    BY <1>4, <2>1
<1>6. QED
  BY <1>3, <1>5 DEF Filled

LEMMA EraseSlots ==
    ASSUME ItemType, NEW b \in Blocks, EraseBlock(b)
    PROVE  /\ ItemType'
           /\ Filled(b, 1)'
           /\ \A c \in Blocks : \A e : c # b => (Filled(c, e)' <=> Filled(c, e))
BY DEF ItemType, EraseBlock, Filled, Slots

LEMMA WriteSlot ==
    ASSUME ItemType, NEW b \in Blocks, NEW s \in 1..(Cap - 1), Filled(b, s),
           NEW i \in Item \cup {Torn}, WriteItem([blk |-> b, slot |-> s], i)
    PROVE  /\ ItemType'
           /\ Filled(b, s + 1)'
           /\ \A c \in Blocks : \A e : c # b => (Filled(c, e)' <=> Filled(c, e))
BY ConstantsAssumption DEF ItemType, WriteItem, Filled, Slots

\* While calls are served a traversal marks no block that is not in use, and
\* records the space that is recorded already.
LEMMA TraverseKeeps ==
    ASSUME IInv, pc \in RunPCs, NEW found \in Pos \cup {NoPos}, Traverse(found)
    PROVE  /\ blk_space' = blk_space
           /\ blk_state' = hdr'
           /\ hdr' \in [Blocks -> BlkStates]
           /\ \A b \in Blocks : hdr'[b] = "CLEAN" <=> hdr[b] = "CLEAN"
<1> USE DEF IInv
<1>1. PICK b \in Blocks, s \in 1..Cap :
              /\ hdr[b] \in {"USED", "DIRTY"} /\ Behind(b, s)
              /\ hdr[Other(b)] = "CLEAN" /\ Empty(Other(b))
  BY DEF Running
<1>2. SpaceOf(b) = blk_space[b] /\ Other(b) \notin Traversed(found)
  <2>1. EndOf(b) = s
    BY <1>1, EndOfFilled DEF Behind
  <2>2. QED
    BY <1>1, <2>1 DEF Running, Behind, SpaceOf, Traversed
<1>3. blk_space' = blk_space
  <2>1. \A c \in Blocks : c = b \/ c = Other(b)
    BY <1>1 DEF Blocks, Other
  <2>2. QED
    BY <1>2, <2>1 DEF Traverse, TypeOK
<1>4. blk_state = hdr /\ hdr \in [Blocks -> BlkStates]
  <2>1. blk_state = hdr
    BY DEF Running
  <2>2. \A c \in Blocks : c = b \/ c = Other(b)
    BY <1>1 DEF Blocks, Other
  <2>3. QED
    BY <1>1, <2>1, <2>2 DEF TypeOK, BlkStates
<1>5. QED
  BY <1>3, <1>4 DEF Traverse, MarkDirty, BlkStates

-----------------------------------------------------------------------------
(* Init, and the steps of a call *)

LEMMA InitIInv == Init => IInv
<1> SUFFICES ASSUME Init PROVE IInv
  OBVIOUS
<1> USE ConstantsAssumption DEF Init, Blocks, Slots
<1>1. TypeOK
  <2>1. hdr \in [Blocks -> BlkStates \cup {"BAD"}] /\ blk_state \in [Blocks -> BlkStates \cup {"NONE"}]
    OBVIOUS
  <2>2. item \in [Blocks -> [Slots -> Item \cup {Erased, Torn}]]
    OBVIOUS
  <2>3. blk_space \in [Blocks -> 0..Cap] /\ write_pos \in [blk : Blocks, slot : 0..Cap]
    BY DEF NoPos
  <2>4. cur \in [blk : Blocks, slot : 0..(Cap + 1)]
    BY DEF NoPos
  <2>5. pc \in PCs /\ old \in Pos \cup {NoPos} /\ crashes \in 0..MaxCrash
    BY DEF PCs
  <2>6. gc_triggered \in BOOLEAN
    OBVIOUS
  <2>. QED
    BY <2>1, <2>2, <2>3, <2>4, <2>5, <2>6 DEF TypeOK
<1>2. \A b \in Blocks : Filled(b, 1)
  BY DEF Filled
<1>3. Contiguous
  BY <1>2 DEF Contiguous
<1>4. CursorInBlock /\ OldRecord /\ Running /\ Collecting /\ Starting /\ OneReserve
  BY DEF CursorInBlock, OldRecord, Running, RunPCs, Collecting, GcPCs,
         Starting, BootPCs, OneReserve
<1>5. QED
  BY <1>1, <1>3, <1>4 DEF IInv


\* Steps that touch neither the flash nor the RAM.
LEMMA CallStep == ASSUME IInv, NEW r \in Request, Call(r) PROVE IInv'
<1> USE ConstantsAssumption DEF Blocks, Slots, IInv, Call, flash, ram, Start, NoPos
<1>1. TypeOK'
  BY DEF TypeOK, PCs, BootPCs, GcPCs, OpPCs, Request
<1>2. CursorInBlock'
  <2>1. PICK e \in 1..Cap : Filled(0, e)
    BY DEF Contiguous
  <2>2. Filled(0, e)'
    BY <2>1 DEF Filled
  <2>3. QED
    BY <2>2 DEF CursorInBlock, Request
<1>3. Contiguous'
  BY DEF Contiguous, Filled
<1>4. OldRecord'
  BY DEF OldRecord, Request
<1>5. Running'
  BY DEF Running, RunPCs, Behind, Empty, Filled
<1>6. Collecting' /\ Starting'
  BY DEF Collecting, Starting, GcPCs, BootPCs, Request
<1>7. OneReserve'
  BY DEF OneReserve
<1>8. QED
  BY <1>1, <1>2, <1>3, <1>4, <1>5, <1>6, <1>7

LEMMA ReturnStep == ASSUME IInv, Return PROVE IInv'
<1> USE ConstantsAssumption DEF Blocks, Slots, IInv, Return, flash, ram, NoPos
<1>1. TypeOK'
  BY DEF TypeOK, PCs
<1>2. Contiguous' /\ OneReserve'
  BY DEF Contiguous, Filled, OneReserve
<1>3. CursorInBlock' /\ OldRecord'
  BY DEF CursorInBlock, OldRecord
<1>4. Running'
  BY DEF Running, RunPCs, Behind, Empty, Filled
<1>5. Collecting' /\ Starting'
  BY DEF Collecting, Starting, GcPCs, BootPCs
<1>6. QED
  BY <1>1, <1>2, <1>3, <1>4, <1>5

\* A search leaves the store as it is, except for the mark of a block in use.
LEMMA FindStep == ASSUME IInv, FindHit \/ FindMiss PROVE IInv'
<1> USE ConstantsAssumption DEF Blocks, Slots, IInv
<1>1. /\ pc = "find" /\ pc \in RunPCs
      /\ pc' \in {"return", "del", "gc_start", "store"} /\ pc' \in RunPCs
      /\ req \in Request /\ req.op \in {"set", "get", "del"}
  BY DEF FindHit, FindMiss, RunPCs, OldRecord
<1>2. /\ UNCHANGED <<item, clean_blk_nums, write_pos, gc_triggered, req, cur, unclean, crashes>>
      /\ ret' \in {ret, "ok", "not_found"}
      /\ pc' = "store" => req.op = "set"
  BY <1>1 DEF FindHit, FindMiss
<1>3. /\ blk_space' = blk_space
      /\ blk_state' = hdr'
      /\ hdr' \in [Blocks -> BlkStates]
      /\ \A b \in Blocks : hdr'[b] = "CLEAN" <=> hdr[b] = "CLEAN"
  <2>1. CASE FindHit
    <3>1. PICK p \in Pos : Traverse(p)
      BY <2>1 DEF FindHit, First, Matches
    <3>2. QED
      BY <1>1, <3>1, TraverseKeeps
  <2>2. CASE FindMiss
    BY <1>1, <2>2, TraverseKeeps DEF FindMiss
  <2>3. QED
    BY <2>1, <2>2
<1>4. /\ old' \in Pos \cup {NoPos}
      /\ pc' = "del" \/ (pc' = "store" /\ old' # NoPos) =>
            old' \in Pos /\ IsItem(old'.blk, old'.slot)
  BY <1>1 DEF FindHit, FindMiss, First, Matches, Normal, TypeOK, OldRecord
<1>5. TypeOK'
  BY <1>1, <1>2, <1>3, <1>4 DEF TypeOK, PCs, GcPCs, OpPCs
<1>6. Contiguous'
  BY <1>2 DEF Contiguous, Filled
<1>7. CursorInBlock' /\ OldRecord' /\ Collecting' /\ Starting'
  BY <1>1, <1>2, <1>4 DEF CursorInBlock, OldRecord, IsItem, Collecting, Starting, GcPCs, BootPCs
<1>8. Running' /\ OneReserve'
  <2>1. PICK b \in Blocks, s \in 1..Cap :
                /\ hdr[b] \in {"USED", "DIRTY"} /\ Behind(b, s)
                /\ hdr[Other(b)] = "CLEAN" /\ Empty(Other(b))
    BY <1>1 DEF Running
  <2>2. Behind(b, s)' /\ Empty(Other(b))'
    BY <1>2, <1>3, <2>1 DEF Behind, Empty, Filled
  <2>3. hdr'[b] \in {"USED", "DIRTY"} /\ hdr'[Other(b)] = "CLEAN"
    BY <1>3, <2>1 DEF BlkStates, Other
  <2>4. clean_blk_nums' = 1
    BY <1>1, <1>2 DEF Running
  <2>5. QED
    BY <1>3, <2>2, <2>3, <2>4 DEF Running, OneReserve, Other
<1>9. QED
  BY <1>5, <1>6, <1>7, <1>8

\* A slot less in a block that has one.
LEMMA SpaceShrinks ==
    ASSUME NEW f \in [Blocks -> 0..Cap], NEW b \in Blocks, f[b] \in 1..Cap
    PROVE  [f EXCEPT ![b] = @ - 1] \in [Blocks -> 0..Cap]
BY ConstantsAssumption

LEMMA StoreStep == ASSUME IInv, Store PROVE IInv'
<1> USE ConstantsAssumption DEF Blocks, Slots, IInv
<1>1. /\ pc = "store" /\ pc \in RunPCs
      /\ pc' \in {"gc_start", "del"} /\ pc' \in RunPCs
      /\ UNCHANGED <<hdr, blk_state, clean_blk_nums, req, cur, old, unclean, crashes>>
      /\ ret' \in {ret, "ok"}
      /\ req \in Request /\ req.op = "set"
  BY DEF Store, RunPCs, OldRecord
<1>2. PICK b \in Blocks, s \in 1..Cap :
              /\ hdr[b] \in {"USED", "DIRTY"} /\ Behind(b, s)
              /\ hdr[Other(b)] = "CLEAN" /\ Empty(Other(b))
  BY <1>1 DEF Running
<1>3. s < Cap /\ Advance(write_pos) = [blk |-> b, slot |-> s + 1]
  BY <1>2 DEF Store, HasRoom, Advance, Behind
<1>4. NewItem(TRUE) \in Item
  <2>1. req \in [op : {"set"}, key : Keys, val : Vals]
    BY <1>1 DEF Request
  <2>2. QED
    BY <2>1 DEF TypeOK, Item, NewItem
<1>5. write_pos' = [blk |-> b, slot |-> s + 1] /\ blk_space' = [blk_space EXCEPT ![b] = @ - 1]
  <2>1. Advance(write_pos).blk = b
    BY <1>3
  <2>2. QED
    BY <1>3, <2>1 DEF Store
<1>6. /\ ItemType'
      /\ Filled(b, s + 1)' /\ Filled(Other(b), 1)'
  <2>1. WriteItem([blk |-> b, slot |-> s], NewItem(TRUE))
    BY <1>2 DEF Store, Behind
  <2>2. ItemType /\ Filled(b, s) /\ s \in 1..(Cap - 1)
    <3>1. ItemType
      BY DEF TypeOK, ItemType
    <3>2. QED
      BY <1>2, <1>3, <3>1 DEF Behind
  <2>3. ItemType' /\ Filled(b, s + 1)' /\ \A c \in Blocks : \A e : c # b => (Filled(c, e)' <=> Filled(c, e))
    BY <2>1, <2>2, <1>4, WriteSlot
  <2>4. QED
    BY <1>2, <2>3 DEF Empty, Other
<1>7. TypeOK'
  <2>1. gc_triggered' \in BOOLEAN
    BY DEF Store, TriggerGcIf, TypeOK
  <2>2. write_pos' \in [blk : Blocks, slot : 0..Cap] /\ pc' \in PCs
    BY <1>1, <1>3, <1>5 DEF PCs, GcPCs, OpPCs
  <2>3. blk_space' \in [Blocks -> 0..Cap]
    <3>1. blk_space[b] \in 1..Cap /\ blk_space \in [Blocks -> 0..Cap]
      BY <1>2, <1>3 DEF Behind, TypeOK
    <3>2. QED
      BY <1>5, <3>1, SpaceShrinks
  <2>4. QED
    BY <1>1, <1>6, <2>1, <2>2, <2>3 DEF TypeOK, ItemType
<1>8. Contiguous'
  BY <1>2, <1>3, <1>6 DEF Contiguous, Other
<1>9. Running' /\ OneReserve'
  <2>1. Behind(b, s + 1)' /\ Empty(Other(b))'
    <3>1. blk_space[b] = Cap + 1 - s /\ blk_space \in [Blocks -> 0..Cap]
      BY <1>2 DEF Behind, TypeOK
    <3>2. blk_space'[b] = Cap + 1 - (s + 1) /\ (\A c \in Blocks : c # b => blk_space'[c] = blk_space[c])
      BY <1>5, <3>1
    <3>3. Other(b) \in Blocks /\ Other(b) # b
      BY DEF Other
    <3>4. blk_space'[Other(b)] = Cap
      BY <1>2, <3>2, <3>3 DEF Empty
    <3>5. Behind(b, s + 1)'
      BY <1>3, <1>6, <1>5, <3>2 DEF Behind
    <3>6. QED
      BY <1>6, <3>4, <3>5 DEF Empty
  <2>2. QED
    BY <1>1, <1>2, <1>3, <2>1 DEF Running, OneReserve
<1>10. OldRecord'
  <2>1. pc' = "del" => old \in Pos /\ IsItem(old.blk, old.slot)'
    <3>1. pc' = "del" => old \in Pos /\ IsItem(old.blk, old.slot)
      BY DEF Store, OldRecord
    <3>2. item' = [item EXCEPT ![b][s] = NewItem(TRUE)]
      BY <1>2 DEF Store, WriteItem, Behind
    <3>3. \A c \in Blocks, t \in Slots : IsItem(c, t) => IsItem(c, t)'
      BY <1>4, <3>2 DEF IsItem, TypeOK
    <3>4. QED
      BY <1>1, <3>1, <3>3 DEF Pos
  <2>2. QED
    BY <1>1, <2>1 DEF OldRecord
<1>11. CursorInBlock' /\ Collecting' /\ Starting'
  BY <1>1 DEF CursorInBlock, Collecting, Starting, GcPCs, BootPCs
<1>12. QED
  BY <1>7, <1>8, <1>9, <1>10, <1>11

LEMMA StoreNoSpaceStep == ASSUME IInv, StoreNoSpace PROVE IInv'
<1> USE ConstantsAssumption DEF Blocks, Slots, IInv, StoreNoSpace, flash
<1>1. TypeOK'
  BY DEF TypeOK, PCs, GcPCs, TriggerGcIf
<1>2. Contiguous' /\ OneReserve'
  BY DEF Contiguous, Filled, OneReserve
<1>3. CursorInBlock' /\ OldRecord' /\ Collecting' /\ Starting'
  BY DEF CursorInBlock, OldRecord, Collecting, Starting, GcPCs, BootPCs
<1>4. Running'
  BY DEF Running, RunPCs, Behind, Empty, Filled
<1>5. QED
  BY <1>1, <1>2, <1>3, <1>4

\* Deleting a record and marking the block it is in, in any of the callers.
LEMMA RunningDelete ==
    ASSUME IInv, pc \in RunPCs, pc' \in RunPCs, NEW p \in Pos, IsItem(p.blk, p.slot),
           Delete(p), UNCHANGED <<hdr, ram>>
    PROVE  Running'
<1> USE DEF IInv
<1>1. PICK b \in Blocks, s \in 1..Cap :
              /\ hdr[b] \in {"USED", "DIRTY"} /\ Behind(b, s)
              /\ hdr[Other(b)] = "CLEAN" /\ Empty(Other(b))
  BY DEF Running
<1>2. \A c \in Blocks : \A e : Filled(c, e)' <=> Filled(c, e)
  BY DeleteSlot DEF TypeOK, ItemType
<1>3. Behind(b, s)' /\ Empty(Other(b))'
  BY <1>1, <1>2 DEF Behind, Empty, ram, Blocks, Other
<1>4. QED
  BY <1>1, <1>3 DEF Running, ram

LEMMA RunningMark ==
    ASSUME IInv, pc \in RunPCs, pc' \in RunPCs, old \in Pos, blk_state[old.blk] = "USED",
           MarkOld, UNCHANGED <<item, blk_space, clean_blk_nums, write_pos>>
    PROVE  Running' /\ OneReserve'
<1> USE DEF IInv
<1>1. PICK b \in Blocks, s \in 1..Cap :
              /\ hdr[b] \in {"USED", "DIRTY"} /\ Behind(b, s)
              /\ hdr[Other(b)] = "CLEAN" /\ Empty(Other(b))
  BY DEF Running
<1>2. Behind(b, s)' /\ Empty(Other(b))'
  BY <1>1 DEF Behind, Empty, Filled
<1>3. old.blk = b
  BY <1>1 DEF Running, Pos, Blocks, Other
<1>4. blk_state' = hdr' /\ hdr'[b] = "DIRTY" /\ hdr'[Other(b)] = "CLEAN"
  BY <1>1, <1>3 DEF MarkOld, SetHeader, SetState, Running, TypeOK, Blocks, Other
<1>5. QED
  BY <1>1, <1>2, <1>4 DEF Running, OneReserve, Blocks, Other

LEMMA DelItemStep == ASSUME IInv, DelItem PROVE IInv'
<1> USE ConstantsAssumption DEF Blocks, Slots, IInv
<1>1. /\ pc = "del" /\ pc \in RunPCs /\ pc' \in {"mark", "gc_start", "return"} /\ pc' \in RunPCs
      /\ pc' = "mark" => blk_state[old.blk] = "USED"
      /\ UNCHANGED <<hdr, ram, req, cur, unclean, crashes, old>>
      /\ old \in Pos /\ IsItem(old.blk, old.slot) /\ Delete(old) /\ ret' = "ok"
  BY DEF DelItem, AfterDelete, AfterOp, RunPCs, OldRecord, Delete
<1>2. ItemType' /\ \A b \in Blocks : \A e : Filled(b, e)' <=> Filled(b, e)
  BY <1>1, DeleteSlot DEF TypeOK, ItemType
<1>3. TypeOK'
  BY <1>1, <1>2 DEF TypeOK, ItemType, PCs, GcPCs, OpPCs, ram
<1>4. Contiguous' /\ OneReserve'
  BY <1>1, <1>2 DEF Contiguous, OneReserve
<1>5. OldRecord' /\ CursorInBlock' /\ Collecting' /\ Starting'
  BY <1>1 DEF CursorInBlock, OldRecord, Collecting, Starting, GcPCs, BootPCs, ram
<1>6. Running'
  BY <1>1, RunningDelete DEF ram
<1>7. QED
  BY <1>3, <1>4, <1>5, <1>6

LEMMA MarkItemBlockStep == ASSUME IInv, MarkItemBlock PROVE IInv'
<1> USE ConstantsAssumption DEF Blocks, Slots, IInv
<1>1. /\ pc = "mark" /\ pc \in RunPCs /\ pc' \in {"gc_start", "return"} /\ pc' \in RunPCs
      /\ old \in Pos /\ blk_state[old.blk] = "USED" /\ MarkOld
      /\ UNCHANGED <<item, blk_space, clean_blk_nums, write_pos, gc_triggered,
                     req, ret, cur, old, unclean, crashes>>
  BY DEF MarkItemBlock, AfterOp, RunPCs, OldRecord
<1>2. TypeOK'
  BY <1>1 DEF TypeOK, PCs, GcPCs, OpPCs, MarkOld, SetHeader, SetState, BlkStates, Pos
<1>3. Contiguous' /\ CursorInBlock' /\ OldRecord' /\ Collecting' /\ Starting'
  BY <1>1 DEF Contiguous, Filled, CursorInBlock, OldRecord, Collecting, Starting, GcPCs, BootPCs
<1>4. Running' /\ OneReserve'
  BY <1>1, RunningMark
<1>5. QED
  BY <1>2, <1>3, <1>4

\* A traversal's cursor is before the end of its block when the record under
\* it is not erased, and so may advance.
LEMMA CursorAdvances ==
    ASSUME IInv, pc \in {"bulk", "boot_item", "gc_copy"}, ~AtEnd
    PROVE  /\ cur.slot \in Slots
           /\ [cur EXCEPT !.slot = @ + 1] \in [blk : Blocks, slot : 0..(Cap + 1)]
           /\ \E e \in 1..Cap : Filled(cur.blk, e) /\ cur.slot \in 1..e /\ cur.slot + 1 \in 1..e
<1> USE ConstantsAssumption DEF IInv, Slots, TypeOK
<1>1. PICK e \in 1..Cap : Filled(cur.blk, e) /\ cur.slot \in 1..e
  BY DEF CursorInBlock
<1>2. EndOf(cur.blk) = e
  BY <1>1, EndOfFilled
<1>3. cur.slot \in Slots /\ cur.slot + 1 \in 1..e
  BY <1>1, <1>2 DEF AtEnd
<1>4. [cur EXCEPT !.slot = @ + 1] \in [blk : Blocks, slot : 0..(Cap + 1)]
  <2>1. cur \in [blk : Blocks, slot : 0..(Cap + 1)] /\ cur.slot + 1 \in 0..(Cap + 1)
    BY <1>1, <1>3
  <2>2. QED
    BY <2>1
<1>5. QED
  BY <1>1, <1>3, <1>4

LEMMA BulkDeleteStep == ASSUME IInv, BulkDelete PROVE IInv'
<1> USE ConstantsAssumption DEF Blocks, Slots, IInv
<1>1. /\ pc = "bulk" /\ pc \in RunPCs /\ pc' \in {"bulk", "bulk_mark"} /\ pc' \in RunPCs
      /\ cur' = [cur EXCEPT !.slot = @ + 1] /\ ~AtEnd /\ Normal(cur.blk, cur.slot)
      /\ UNCHANGED <<hdr, ram, req, ret, unclean, crashes>>
      /\ \/ Delete(cur) /\ (pc' = "bulk_mark" => blk_state[cur.blk] = "USED")
         \/ UNCHANGED <<item, old, pc>>
  BY DEF BulkDelete, AfterDelete, RunPCs, NextRecord
<1>2. cur \in Pos /\ IsItem(cur.blk, cur.slot)
  BY <1>1, CursorAdvances DEF TypeOK, Pos, Normal
<1>3. ItemType' /\ \A b \in Blocks : \A e : Filled(b, e)' <=> Filled(b, e)
  <2>1. ItemType
    BY DEF TypeOK, ItemType
  <2>2. CASE Delete(cur)
    BY <2>1, <2>2, <1>2, DeleteSlot
  <2>3. CASE UNCHANGED <<item, old, pc>>
    BY <2>1, <2>3 DEF ItemType, Filled
  <2>4. QED
    BY <1>1, <2>2, <2>3
<1>4. old' \in Pos \cup {NoPos} /\ (pc' = "bulk_mark" => old' \in Pos /\ blk_state[old'.blk] = "USED")
  BY <1>1, <1>2 DEF TypeOK, Delete
<1>5. TypeOK'
  BY <1>1, <1>3, <1>4, CursorAdvances DEF TypeOK, ItemType, PCs, OpPCs, ram
<1>6. Contiguous' /\ OneReserve'
  BY <1>1, <1>3 DEF Contiguous, OneReserve
<1>7. CursorInBlock'
  <2>1. PICK e \in 1..Cap : Filled(cur.blk, e) /\ cur.slot + 1 \in 1..e
    BY <1>1, CursorAdvances
  <2>2. cur'.blk = cur.blk /\ cur'.slot = cur.slot + 1
    BY <1>1 DEF TypeOK
  <2>3. Filled(cur.blk, e)'
    <3>1. PICK b \in Blocks : b = cur.blk
      BY DEF TypeOK
    <3>2. Filled(b, e)'
      BY <1>3, <2>1, <3>1
    <3>3. QED
      BY <2>2, <3>1, <3>2 DEF Filled
  <2>4. QED
    BY <2>1, <2>2, <2>3 DEF CursorInBlock
<1>8. OldRecord' /\ Collecting' /\ Starting'
  BY <1>1, <1>4 DEF OldRecord, Collecting, Starting, GcPCs, BootPCs, ram
<1>9. Running'
  <2>1. CASE Delete(cur)
    BY <1>1, <1>2, <2>1, RunningDelete DEF ram
  <2>2. CASE UNCHANGED <<item, old, pc>>
    BY <1>1, <2>2 DEF Running, Behind, Empty, Filled, ram
  <2>3. QED
    BY <1>1, <2>1, <2>2
<1>10. QED
  BY <1>5, <1>6, <1>7, <1>8, <1>9

LEMMA BulkMarkStep == ASSUME IInv, BulkMark PROVE IInv'
<1> USE ConstantsAssumption DEF Blocks, Slots, IInv
<1>1. /\ pc = "bulk_mark" /\ pc \in RunPCs /\ pc' = "bulk" /\ pc' \in RunPCs
      /\ old \in Pos /\ blk_state[old.blk] = "USED" /\ MarkOld
      /\ UNCHANGED <<item, blk_space, clean_blk_nums, write_pos, gc_triggered,
                     req, ret, cur, old, unclean, crashes>>
  BY DEF BulkMark, RunPCs, OldRecord
<1>2. TypeOK'
  BY <1>1 DEF TypeOK, PCs, OpPCs, MarkOld, SetHeader, SetState, BlkStates, Pos
<1>3. Contiguous' /\ CursorInBlock' /\ OldRecord' /\ Collecting' /\ Starting'
  BY <1>1 DEF Contiguous, Filled, CursorInBlock, OldRecord, Collecting, Starting, GcPCs, BootPCs
<1>4. Running' /\ OneReserve'
  BY <1>1, RunningMark
<1>5. QED
  BY <1>2, <1>3, <1>4

\* Passing an invalid record marks the block if it is USED.
LEMMA PassStep ==
    ASSUME IInv, pc \in {"bulk", "boot_item", "gc_copy"}, ~AtEnd, PassInvalid,
           UNCHANGED <<item, blk_space, clean_blk_nums, write_pos, gc_triggered, pc,
                       req, ret, old, unclean, crashes>>
    PROVE  /\ TypeOK' /\ Contiguous' /\ CursorInBlock' /\ OldRecord'
           /\ cur'.blk = cur.blk /\ cur'.slot = cur.slot + 1
           /\ \A b \in Blocks :
                 \/ blk_state'[b] = blk_state[b] /\ hdr'[b] = hdr[b]
                 \/ b = cur.blk /\ blk_state[b] = "USED" /\ blk_state'[b] = "DIRTY" /\ hdr'[b] = "DIRTY"
<1> USE ConstantsAssumption DEF IInv
<1>1. cur' = [cur EXCEPT !.slot = @ + 1]
  BY DEF PassInvalid, NextRecord
<1>2. cur'.blk = cur.blk /\ cur'.slot = cur.slot + 1
  BY <1>1 DEF TypeOK
<1>3. \A b \in Blocks :
                 \/ blk_state'[b] = blk_state[b] /\ hdr'[b] = hdr[b]
                 \/ b = cur.blk /\ blk_state[b] = "USED" /\ blk_state'[b] = "DIRTY" /\ hdr'[b] = "DIRTY"
  BY DEF PassInvalid, MarkDirty
<1>4. hdr' \in [Blocks -> BlkStates \cup {"BAD"}] /\ blk_state' \in [Blocks -> BlkStates \cup {"NONE"}]
  BY DEF PassInvalid, MarkDirty, TypeOK, BlkStates
<1>5. TypeOK'
  <2>1. cur' \in [blk : Blocks, slot : 0..(Cap + 1)]
    BY <1>1, CursorAdvances
  <2>2. QED
    BY <1>4, <2>1 DEF TypeOK
<1>6. Contiguous'
  BY DEF Contiguous, Filled
<1>7. CursorInBlock'
  <2>1. PICK e \in 1..Cap : Filled(cur.blk, e) /\ cur.slot + 1 \in 1..e
    BY CursorAdvances
  <2>2. Filled(cur.blk, e)'
    BY <1>2, <2>1 DEF Filled
  <2>3. QED
    BY <1>2, <2>1, <2>2 DEF CursorInBlock
<1>8. OldRecord'
  BY DEF OldRecord
<1>9. QED
  BY <1>2, <1>3, <1>5, <1>6, <1>7, <1>8

LEMMA BulkPassStep == ASSUME IInv, BulkPass PROVE IInv'
<1> USE ConstantsAssumption DEF Blocks, Slots, IInv
<1>1. /\ pc = "bulk" /\ ~AtEnd /\ PassInvalid
      /\ UNCHANGED <<item, blk_space, clean_blk_nums, write_pos, gc_triggered, pc,
                     req, ret, old, unclean, crashes>>
  BY DEF BulkPass
<1>2. /\ TypeOK' /\ Contiguous' /\ CursorInBlock' /\ OldRecord'
      /\ \A b \in Blocks :
            \/ blk_state'[b] = blk_state[b] /\ hdr'[b] = hdr[b]
            \/ b = cur.blk /\ blk_state[b] = "USED" /\ blk_state'[b] = "DIRTY" /\ hdr'[b] = "DIRTY"
  BY <1>1, PassStep
<1>3. Running' /\ OneReserve'
  <2>1. PICK b \in Blocks, s \in 1..Cap :
                /\ hdr[b] \in {"USED", "DIRTY"} /\ Behind(b, s)
                /\ hdr[Other(b)] = "CLEAN" /\ Empty(Other(b))
    BY <1>1 DEF Running, RunPCs
  <2>2. Behind(b, s)' /\ Empty(Other(b))'
    BY <1>1, <2>1 DEF Behind, Empty, Filled
  <2>3. blk_state = hdr /\ clean_blk_nums = 1
    BY <1>1 DEF Running, RunPCs
  <2>4. blk_state' = hdr' /\ hdr'[b] \in {"USED", "DIRTY"} /\ hdr'[Other(b)] = "CLEAN"
    BY <1>1, <1>2, <2>1, <2>3 DEF PassInvalid, MarkDirty, Other
  <2>5. QED
    BY <1>1, <2>1, <2>2, <2>3, <2>4 DEF Running, OneReserve, Other
<1>4. Collecting' /\ Starting'
  BY <1>1 DEF Collecting, Starting, GcPCs, BootPCs
<1>5. QED
  BY <1>2, <1>3, <1>4

LEMMA BulkNextBlockStep == ASSUME IInv, BulkNextBlock PROVE IInv'
<1> USE ConstantsAssumption DEF Blocks, Slots, IInv
<1>1. /\ pc = "bulk" /\ pc \in RunPCs /\ pc' \in {"bulk", "return"} /\ pc' \in RunPCs
      /\ pc' = "bulk" => cur' = [blk |-> 1, slot |-> 1]
      /\ cur' \in {cur, [blk |-> 1, slot |-> 1]} /\ ret' \in {ret, "ok"}
      /\ UNCHANGED <<flash, blk_state, clean_blk_nums, write_pos, gc_triggered,
                     req, old, unclean, crashes>>
      /\ RecordSpace
  BY DEF BulkNextBlock, RunPCs, Start
<1>2. blk_space' = blk_space
  <2>1. PICK b \in Blocks, s \in 1..Cap :
                /\ hdr[b] \in {"USED", "DIRTY"} /\ Behind(b, s)
                /\ hdr[Other(b)] = "CLEAN" /\ Empty(Other(b))
    BY <1>1 DEF Running
  <2>2. EndOf(b) = s /\ EndOf(Other(b)) = 1 /\ (cur.blk = b \/ cur.blk = Other(b))
    BY <2>1, EndOfFilled DEF Behind, Empty, Other, TypeOK
  <2>3. SpaceOf(cur.blk) = blk_space[cur.blk]
    BY <2>1, <2>2 DEF SpaceOf, Behind, Empty
  <2>4. QED
    BY <1>1, <2>3 DEF RecordSpace, TypeOK
<1>3. TypeOK'
  BY <1>1, <1>2 DEF TypeOK, PCs, OpPCs, flash
<1>4. Contiguous' /\ OneReserve' /\ Running'
  BY <1>1, <1>2 DEF Contiguous, Filled, OneReserve, Running, Behind, Empty, flash
<1>5. CursorInBlock'
  <2>1. PICK e \in 1..Cap : Filled(1, e)'
    BY <1>4 DEF Contiguous
  <2>2. QED
    BY <1>1, <2>1 DEF CursorInBlock
<1>6. OldRecord' /\ Collecting' /\ Starting'
  BY <1>1 DEF OldRecord, Collecting, Starting, GcPCs, BootPCs
<1>7. QED
  BY <1>3, <1>4, <1>5, <1>6

-----------------------------------------------------------------------------
(* The steps of a collection *)

LEMMA GcSkipStep == ASSUME IInv, GcSkip PROVE IInv'
<1> USE ConstantsAssumption DEF Blocks, Slots, IInv, GcSkip, flash
<1>1. TypeOK'
  BY DEF TypeOK, PCs, OpPCs
<1>2. Contiguous' /\ OneReserve'
  BY DEF Contiguous, Filled, OneReserve
<1>3. CursorInBlock' /\ OldRecord' /\ Collecting' /\ Starting'
  BY DEF CursorInBlock, OldRecord, Collecting, Starting, GcPCs, BootPCs
<1>4. Running'
  BY DEF Running, RunPCs, Behind, Empty, Filled
<1>5. QED
  BY <1>1, <1>2, <1>3, <1>4

LEMMA GcStartStep == ASSUME IInv, GcStart PROVE IInv'
<1> USE ConstantsAssumption DEF Blocks, Slots, IInv
<1>1. /\ pc = "gc_start" /\ pc \in RunPCs /\ pc' = "gc_copy"
      /\ UNCHANGED <<flash, blk_state, blk_space, clean_blk_nums, gc_triggered,
                     req, ret, old, unclean, crashes>>
  BY DEF GcStart, RunPCs
<1>2. PICK dst \in Blocks, src \in Blocks :
              /\ blk_state[dst] = "CLEAN" /\ blk_state[src] = "DIRTY"
              /\ write_pos' = [blk |-> dst, slot |-> 1]
              /\ cur' = [blk |-> src, slot |-> 1]
  BY DEF GcStart, GcTargets, GcSources, Start
<1>3. /\ dst = Other(src) /\ Empty(dst) /\ clean_blk_nums = 1 /\ blk_state = hdr
  BY <1>1, <1>2 DEF Running, Other
<1>4. TypeOK'
  BY <1>1, <1>2 DEF TypeOK, PCs, GcPCs, flash
<1>5. Contiguous' /\ OneReserve' /\ OldRecord' /\ Starting' /\ Running'
  BY <1>1 DEF Contiguous, Filled, OneReserve, OldRecord, Starting, Running, RunPCs, BootPCs, flash
<1>6. CursorInBlock'
  <2>1. PICK e \in 1..Cap : Filled(src, e)'
    BY <1>5 DEF Contiguous
  <2>2. Filled(cur.blk, e)'
    BY <1>2, <2>1 DEF Filled
  <2>3. QED
    BY <1>1, <1>2, <2>2 DEF CursorInBlock
<1>7. Collecting'
  <2>1. Behind(dst, 1)'
    BY <1>1, <1>2, <1>3 DEF Behind, Empty, Filled, flash
  <2>2. cur'.blk = src /\ cur'.slot = 1
    BY <1>2
  <2>3. Other(cur'.blk) = dst /\ Behind(Other(cur.blk), 1)'
    BY <1>3, <2>1, <2>2 DEF Behind, Filled
  <2>4. QED
    BY <1>1, <1>2, <1>3, <2>2, <2>3 DEF Collecting, flash
<1>8. QED
  BY <1>4, <1>5, <1>6, <1>7

LEMMA GcCopyStep == ASSUME IInv, GcCopy PROVE IInv'
<1> USE ConstantsAssumption DEF Blocks, Slots, IInv
<1>1. /\ pc = "gc_copy" /\ pc' = "gc_copy" /\ ~AtEnd /\ Normal(cur.blk, cur.slot)
      /\ WriteItem(write_pos, At(cur))
      /\ write_pos' = Advance(write_pos)
      /\ blk_space' = [blk_space EXCEPT ![Advance(write_pos).blk] = @ - 1]
      /\ cur' = [cur EXCEPT !.slot = @ + 1]
      /\ UNCHANGED <<hdr, blk_state, clean_blk_nums, gc_triggered, pc, req, ret,
                     old, unclean, crashes>>
  BY DEF GcCopy, NextRecord
<1>2. PICK src \in Blocks : src = cur.blk
  BY DEF TypeOK
<1>3. PICK s \in 1..Cap : Behind(Other(src), s) /\ s <= cur.slot
  BY <1>1, <1>2 DEF Collecting, GcPCs
<1>4. PICK e \in 1..Cap : Filled(src, e) /\ cur.slot \in 1..e /\ cur.slot + 1 \in 1..e
  BY <1>1, <1>2, CursorAdvances
<1>5. /\ s < Cap /\ Other(src) \in Blocks /\ Other(src) # src
      /\ write_pos = [blk |-> Other(src), slot |-> s]
      /\ write_pos' = [blk |-> Other(src), slot |-> s + 1]
  BY <1>1, <1>3, <1>4 DEF Behind, Advance, Other
<1>6. At(cur) \in Item
  BY <1>1, <1>4, CursorAdvances DEF Normal, IsItem, At, TypeOK
<1>7. ItemType' /\ Filled(Other(src), s + 1)' /\ Filled(src, e)'
  <2>1. ItemType /\ s \in 1..(Cap - 1) /\ Filled(Other(src), s)
    <3>1. ItemType
      BY DEF TypeOK, ItemType
    <3>2. QED
      BY <1>3, <1>5, <3>1 DEF Behind
  <2>2. WriteItem([blk |-> Other(src), slot |-> s], At(cur))
    BY <1>1, <1>5
  <2>3. ItemType' /\ Filled(Other(src), s + 1)'
           /\ \A c \in Blocks : \A f : c # Other(src) => (Filled(c, f)' <=> Filled(c, f))
    BY <1>5, <1>6, <2>1, <2>2, WriteSlot
  <2>4. QED
    BY <1>4, <1>5, <2>3
<1>8. cur'.blk = src /\ cur'.slot = cur.slot + 1
  BY <1>1, <1>2 DEF TypeOK
<1>9. TypeOK'
  <2>1. cur' \in [blk : Blocks, slot : 0..(Cap + 1)]
    BY <1>1, CursorAdvances
  <2>2. blk_space' \in [Blocks -> 0..Cap]
    <3>1. blk_space' = [blk_space EXCEPT ![Other(src)] = @ - 1]
      <4>1. Advance(write_pos).blk = Other(src)
        BY <1>1, <1>5
      <4>2. QED
        BY <1>1, <4>1
    <3>2. blk_space[Other(src)] \in 1..Cap
      BY <1>3, <1>5 DEF Behind
    <3>3. blk_space \in [Blocks -> 0..Cap]
      BY DEF TypeOK
    <3>4. QED
      BY <1>5, <3>1, <3>2, <3>3, SpaceShrinks
  <2>3. write_pos' \in [blk : Blocks, slot : 0..Cap]
    BY <1>5
  <2>4. QED
    BY <1>1, <1>7, <2>1, <2>2, <2>3 DEF TypeOK, ItemType
<1>10. Contiguous' /\ CursorInBlock'
  <2>1. Filled(cur.blk, e)'
    BY <1>7, <1>8 DEF Filled
  <2>2. Contiguous'
    <3>1. s + 1 \in 1..Cap /\ (src = 0 \/ src = 1)
      BY <1>5
    <3>2. QED
      BY <1>7, <3>1 DEF Contiguous, Other
  <2>3. QED
    BY <1>4, <1>8, <2>1, <2>2 DEF CursorInBlock
<1>11. OldRecord' /\ Running' /\ Starting' /\ OneReserve'
  BY <1>1 DEF OldRecord, Running, RunPCs, Starting, BootPCs, OneReserve
<1>12. Collecting'
  <2>1. Behind(Other(src), s + 1)'
    <3>1. blk_space' = [blk_space EXCEPT ![Other(src)] = @ - 1]
      <4>1. Advance(write_pos).blk = Other(src)
        BY <1>1, <1>5
      <4>2. QED
        BY <1>1, <4>1
    <3>2. blk_space[Other(src)] = Cap + 1 - s /\ blk_space \in [Blocks -> 0..Cap]
      BY <1>3 DEF Behind, TypeOK
    <3>3. blk_space'[Other(src)] = Cap + 1 - (s + 1)
      BY <1>5, <3>1, <3>2
    <3>4. QED
      BY <1>5, <1>7, <3>3 DEF Behind
  <2>2. Behind(Other(cur.blk), s + 1)' /\ s + 1 <= cur'.slot /\ s + 1 \in 1..Cap
    <3>1. s + 1 <= cur'.slot /\ s + 1 \in 1..Cap
      BY <1>3, <1>4, <1>5, <1>8
    <3>2. QED
      BY <1>8, <2>1, <3>1 DEF Behind, Filled
  <2>3. QED
    BY <1>1, <1>2, <1>8, <2>2 DEF Collecting, GcPCs
<1>13. QED
  BY <1>9, <1>10, <1>11, <1>12

LEMMA GcPassStep == ASSUME IInv, GcPass PROVE IInv'
<1> USE ConstantsAssumption DEF Blocks, Slots, IInv
<1>1. /\ pc = "gc_copy" /\ ~AtEnd /\ PassInvalid
      /\ UNCHANGED <<item, blk_space, clean_blk_nums, write_pos, gc_triggered, pc,
                     req, ret, old, unclean, crashes>>
  BY DEF GcPass
<1>2. /\ TypeOK' /\ Contiguous' /\ CursorInBlock' /\ OldRecord'
      /\ cur'.blk = cur.blk /\ cur'.slot = cur.slot + 1
      /\ \A b \in Blocks :
            \/ blk_state'[b] = blk_state[b] /\ hdr'[b] = hdr[b]
            \/ b = cur.blk /\ blk_state[b] = "USED" /\ blk_state'[b] = "DIRTY" /\ hdr'[b] = "DIRTY"
  BY <1>1, PassStep
<1>3. PICK src \in Blocks : src = cur.blk
  BY DEF TypeOK
<1>4. PICK s \in 1..Cap : Behind(Other(src), s) /\ s <= cur.slot
  BY <1>1, <1>3 DEF Collecting, GcPCs
<1>5. /\ blk_state[src] = "DIRTY" /\ hdr[src] = "DIRTY" /\ clean_blk_nums = 1
      /\ hdr[Other(src)] = "CLEAN" /\ blk_state[Other(src)] = "CLEAN"
  BY <1>1, <1>3 DEF Collecting, GcPCs
<1>6. blk_state' = blk_state /\ hdr' = hdr
  <2>1. \A b \in Blocks : blk_state'[b] = blk_state[b] /\ hdr'[b] = hdr[b]
    BY <1>2, <1>3, <1>5
  <2>2. blk_state' \in [Blocks -> BlkStates \cup {"NONE"}] /\ hdr' \in [Blocks -> BlkStates \cup {"BAD"}]
    BY <1>2 DEF TypeOK
  <2>3. QED
    BY <2>1, <2>2 DEF TypeOK
<1>7. Collecting'
  <2>1. Behind(Other(cur.blk), s)' /\ s <= cur'.slot
    BY <1>1, <1>2, <1>3, <1>4 DEF Behind, Filled, TypeOK
  <2>2. QED
    BY <1>1, <1>2, <1>3, <1>5, <1>6, <2>1 DEF Collecting
<1>8. Running' /\ Starting' /\ OneReserve'
  BY <1>1, <1>6 DEF Running, RunPCs, Starting, BootPCs, OneReserve
<1>9. QED
  BY <1>2, <1>7, <1>8

LEMMA GcCopiedStep == ASSUME IInv, GcCopied PROVE IInv'
<1> USE ConstantsAssumption DEF Blocks, Slots, IInv
<1>1. /\ pc = "gc_copy" /\ pc' = "gc_erase" /\ RecordSpace
      /\ UNCHANGED <<flash, blk_state, clean_blk_nums, write_pos, gc_triggered,
                     req, ret, cur, old, unclean, crashes>>
  BY DEF GcCopied
<1>2. PICK src \in Blocks : src = cur.blk
  BY DEF TypeOK
<1>3. blk_space' = [blk_space EXCEPT ![src] = SpaceOf(src)] /\ SpaceOf(src) \in 0..Cap
  BY <1>1, <1>2, ContiguousEnd DEF RecordSpace, SpaceOf
<1>4. TypeOK'
  BY <1>1, <1>3 DEF TypeOK, PCs, GcPCs, flash
<1>5. Contiguous' /\ CursorInBlock' /\ OldRecord' /\ Running' /\ Starting' /\ OneReserve'
  BY <1>1 DEF Contiguous, Filled, CursorInBlock, OldRecord, Running, RunPCs, Starting,
              BootPCs, OneReserve, flash
<1>6. Collecting'
  <2>1. PICK s \in 1..Cap : Behind(Other(src), s)
    BY <1>1, <1>2 DEF Collecting, GcPCs
  <2>2. Behind(Other(cur.blk), s)'
    BY <1>1, <1>2, <1>3, <2>1 DEF Behind, Filled, flash, TypeOK, Other
  <2>3. QED
    BY <1>1, <2>2 DEF Collecting, GcPCs, flash
<1>7. QED
  BY <1>4, <1>5, <1>6

LEMMA GcEraseStep == ASSUME IInv, GcErase PROVE IInv'
<1> USE ConstantsAssumption DEF Blocks, Slots, IInv
<1>1. /\ pc = "gc_erase" /\ pc' = "gc_header" /\ EraseBlock(cur.blk)
      /\ UNCHANGED <<ram, context, crashes>>
  BY DEF GcErase
<1>2. PICK src \in Blocks : src = cur.blk
  BY DEF TypeOK
<1>3. /\ ItemType' /\ Filled(src, 1)'
      /\ \A c \in Blocks : \A e : c # src => (Filled(c, e)' <=> Filled(c, e))
      /\ hdr' = [hdr EXCEPT ![src] = "BAD"]
  <2>1. ItemType
    BY DEF TypeOK, ItemType
  <2>2. QED
    BY <1>1, <1>2, <2>1, EraseSlots DEF EraseBlock, SetHeader
<1>4. TypeOK'
  BY <1>1, <1>3 DEF TypeOK, ItemType, PCs, GcPCs, ram, context
<1>5. Contiguous' /\ OneReserve'
  BY <1>3 DEF Contiguous, OneReserve, TypeOK
<1>6. CursorInBlock' /\ OldRecord' /\ Running' /\ Starting'
  BY <1>1 DEF CursorInBlock, OldRecord, Running, RunPCs, Starting, BootPCs, context
<1>7. Collecting'
  <2>1. PICK s \in 1..Cap : Behind(Other(src), s)
    BY <1>1, <1>2 DEF Collecting, GcPCs
  <2>2. Behind(Other(src), s)'
    BY <1>1, <1>3, <2>1 DEF Behind, ram, Other
  <2>3. Behind(Other(cur.blk), s)' /\ Filled(cur.blk, 1)' /\ cur' = cur
    BY <1>1, <1>2, <1>3, <2>2 DEF Behind, Filled, context
  <2>4. QED
    BY <1>1, <1>2, <1>3, <2>3 DEF Collecting, GcPCs, ram, TypeOK, Other
<1>8. QED
  BY <1>4, <1>5, <1>6, <1>7

LEMMA GcHeaderStep == ASSUME IInv, GcHeader PROVE IInv'
<1> USE ConstantsAssumption DEF Blocks, Slots, IInv
<1>1. /\ pc = "gc_header" /\ pc' = "gc_used" /\ WriteCleanHeader(cur.blk)
      /\ UNCHANGED <<item, write_pos, gc_triggered, context, crashes>>
  BY DEF GcHeader
<1>2. PICK src \in Blocks : src = cur.blk
  BY DEF TypeOK
<1>3. /\ hdr' = [hdr EXCEPT ![src] = "CLEAN"] /\ blk_state' = [blk_state EXCEPT ![src] = "CLEAN"]
      /\ blk_space' = [blk_space EXCEPT ![src] = Cap]
      /\ clean_blk_nums = 1 /\ clean_blk_nums' = 2
  BY <1>1, <1>2 DEF WriteCleanHeader, SetHeader, SetState, Collecting, GcPCs
<1>4. TypeOK'
  BY <1>1, <1>3 DEF TypeOK, PCs, GcPCs, context, BlkStates
<1>5. Contiguous' /\ OneReserve'
  BY <1>1, <1>2, <1>3 DEF Contiguous, Filled, OneReserve, TypeOK
<1>6. CursorInBlock' /\ OldRecord' /\ Running' /\ Starting'
  BY <1>1 DEF CursorInBlock, OldRecord, Running, RunPCs, Starting, BootPCs, context
<1>7. Collecting'
  <2>1. PICK s \in 1..Cap : Behind(Other(src), s)
    BY <1>1, <1>2 DEF Collecting, GcPCs
  <2>2. Filled(src, 1)
    BY <1>1, <1>2 DEF Collecting, GcPCs
  <2>3. Behind(Other(cur.blk), s)' /\ Empty(cur.blk)' /\ cur' = cur
    BY <1>1, <1>2, <1>3, <2>1, <2>2 DEF Behind, Empty, Filled, context, TypeOK, Other
  <2>4. hdr[Other(src)] = "CLEAN" /\ blk_state[Other(src)] = "CLEAN"
    BY <1>1, <1>2 DEF Collecting, GcPCs
  <2>5. QED
    BY <1>1, <1>2, <1>3, <2>3, <2>4 DEF Collecting, GcPCs, TypeOK, Other
<1>8. QED
  BY <1>4, <1>5, <1>6, <1>7

LEMMA GcUsedStep == ASSUME IInv, GcUsed PROVE IInv'
<1> USE ConstantsAssumption DEF Blocks, Slots, IInv
<1>1. /\ pc = "gc_used" /\ pc' = "return"
      /\ SetHeader(write_pos.blk, "USED") /\ SetState(Other(cur.blk), "USED")
      /\ clean_blk_nums' = clean_blk_nums - 1 /\ gc_triggered' = FALSE
      /\ UNCHANGED <<item, blk_space, write_pos, context, crashes>>
  BY DEF GcUsed
<1>2. PICK src \in Blocks : src = cur.blk
  BY DEF TypeOK
<1>3. PICK s \in 1..Cap : Behind(Other(src), s)
  BY <1>1, <1>2 DEF Collecting, GcPCs
<1>4. /\ Empty(src) /\ hdr[src] = "CLEAN" /\ blk_state[src] = "CLEAN"
      /\ hdr[Other(src)] = "CLEAN" /\ blk_state[Other(src)] = "CLEAN" /\ clean_blk_nums = 2
      /\ Other(src) \in Blocks /\ Other(src) # src /\ Other(Other(src)) = src
      /\ \A b \in Blocks : b = src \/ b = Other(src)
  BY <1>1, <1>2 DEF Collecting, GcPCs, Other
<1>5. /\ hdr' = [hdr EXCEPT ![Other(src)] = "USED"]
      /\ blk_state' = [blk_state EXCEPT ![Other(src)] = "USED"]
  BY <1>1, <1>2, <1>3 DEF SetHeader, SetState, Behind
<1>6. blk_state' = hdr'
  BY <1>4, <1>5 DEF TypeOK
<1>7. Running' /\ OneReserve'
  <2>1. Behind(Other(src), s)' /\ Empty(src)'
    BY <1>1, <1>3, <1>4 DEF Behind, Empty, Filled
  <2>2. hdr'[Other(src)] = "USED" /\ hdr'[src] = "CLEAN" /\ clean_blk_nums' = 1
    BY <1>1, <1>4, <1>5 DEF TypeOK
  <2>3. PICK b \in Blocks : b = Other(src) /\ src = Other(b)
    BY <1>4
  <2>4. QED
    BY <1>6, <2>1, <2>2, <2>3 DEF Running, OneReserve
<1>8. TypeOK'
  <2>1. clean_blk_nums' = 1 /\ pc' \in PCs
    BY <1>1, <1>4 DEF PCs, OpPCs
  <2>4. gc_triggered' \in BOOLEAN
    BY <1>1
  <2>2. hdr' \in [Blocks -> BlkStates \cup {"BAD"}] /\ blk_state' \in [Blocks -> BlkStates \cup {"NONE"}]
    BY <1>5 DEF TypeOK, BlkStates
  <2>3. QED
    BY <1>1, <2>1, <2>2, <2>4 DEF TypeOK, context
<1>9. Contiguous' /\ CursorInBlock' /\ OldRecord' /\ Collecting' /\ Starting'
  <2>1. Contiguous' /\ CursorInBlock' /\ OldRecord'
    BY <1>1 DEF Contiguous, Filled, CursorInBlock, OldRecord
  <2>2. Collecting' /\ Starting'
    BY <1>1 DEF Collecting, GcPCs, Starting, BootPCs, context
  <2>3. QED
    BY <2>1, <2>2
<1>10. QED
  BY <1>7, <1>8, <1>9

-----------------------------------------------------------------------------
(* The steps of a start, and of the loss of power *)

LEMMA Factory0Step == ASSUME IInv, Factory0 PROVE IInv'
<1> USE ConstantsAssumption DEF Blocks, Slots, IInv, Factory0, SetHeader, ram, context
<1>1. TypeOK'
  BY DEF TypeOK, PCs, OpPCs
<1>2. Contiguous' /\ OneReserve'
  BY DEF Contiguous, Filled, OneReserve, TypeOK
<1>3. CursorInBlock' /\ OldRecord' /\ Collecting' /\ Starting' /\ Running'
  BY DEF CursorInBlock, OldRecord, Collecting, Starting, Running, RunPCs, GcPCs, BootPCs
<1>4. QED
  BY <1>1, <1>2, <1>3

\* Where a start begins: nothing has been read yet.
LEMMA StartingAtFirst ==
    ASSUME pc' = "boot_read", cur' = [blk |-> 0, slot |-> 1], unclean' = {},
           blk_state' = [b \in Blocks |-> "NONE"], clean_blk_nums' = 0
    PROVE  Starting'
BY DEF Starting, Scanned, Counted, CleanBlocks, Unread, ScanPCs, LastPCs, Blocks,
       BootPCs, Start

LEMMA Factory1Step == ASSUME IInv, Factory1 PROVE IInv'
<1> USE ConstantsAssumption DEF Blocks, Slots, IInv
<1>1. /\ pc = "factory1" /\ pc' = "boot_read" /\ hdr' = [hdr EXCEPT ![1] = "BAD"]
      /\ blk_state' = [b \in Blocks |-> "NONE"] /\ blk_space' = [b \in Blocks |-> 0]
      /\ clean_blk_nums' = 0 /\ write_pos' = NoPos /\ gc_triggered' = FALSE
      /\ cur' = [blk |-> 0, slot |-> 1]
      /\ UNCHANGED <<item, req, ret, old, unclean, crashes>>
  BY DEF Factory1, ResetRam, SetHeader, Start
<1>2. TypeOK'
  <2>1. gc_triggered' \in BOOLEAN /\ pc' \in PCs
    BY <1>1 DEF PCs, BootPCs
  <2>2. QED
    BY <1>1, <2>1 DEF TypeOK, NoPos
<1>3. Contiguous' /\ OneReserve' /\ CursorInBlock' /\ OldRecord'
  BY <1>1 DEF Contiguous, Filled, OneReserve, TypeOK, CursorInBlock, OldRecord
<1>4. Collecting' /\ Running' /\ Starting'
  <2>1. unclean' = {}
    BY <1>1 DEF Starting, BootPCs
  <2>2. QED
    BY <1>1, <2>1, StartingAtFirst DEF Collecting, GcPCs, Running, RunPCs
<1>5. QED
  BY <1>2, <1>3, <1>4

LEMMA PowerOnStep == ASSUME IInv, PowerOn PROVE IInv'
<1> USE ConstantsAssumption DEF Blocks, Slots, IInv
<1>1. /\ pc = "off" /\ pc' = "boot_read" /\ cur' = [blk |-> 0, slot |-> 1]
      /\ UNCHANGED <<flash, ram, req, ret, old, unclean, crashes>>
  BY DEF PowerOn, Start
<1>2. TypeOK'
  BY <1>1 DEF TypeOK, PCs, BootPCs, flash, ram
<1>3. Contiguous' /\ OneReserve' /\ CursorInBlock' /\ OldRecord'
  BY <1>1 DEF Contiguous, Filled, OneReserve, CursorInBlock, OldRecord, flash
<1>4. Starting'
  <2>1. unclean' = {} /\ clean_blk_nums' = 0
    BY <1>1 DEF Starting, BootPCs, ram
  <2>2. blk_state' = [b \in Blocks |-> "NONE"]
    BY <1>1 DEF Starting, TypeOK, ram
  <2>3. QED
    BY <1>1, <2>1, <2>2, StartingAtFirst
<1>5. Collecting' /\ Running'
  BY <1>1 DEF Collecting, GcPCs, Running, RunPCs
<1>6. QED
  BY <1>2, <1>3, <1>4, <1>5

\* What the steps of a start leave alone, or need not show.
LEMMA BootElsewhere ==
    ASSUME pc' \in BootPCs
    PROVE  Collecting' /\ Running'
BY DEF BootPCs, GcPCs, RunPCs, Collecting, Running

LEMMA BootReadStep == ASSUME IInv, BootRead PROVE IInv'
<1> USE ConstantsAssumption DEF Blocks, Slots, IInv
<1>1. /\ pc = "boot_read" /\ pc' \in {"scan_erase", "boot_item"}
      /\ UNCHANGED <<flash, blk_space, clean_blk_nums, write_pos, gc_triggered,
                     req, ret, cur, old, unclean, crashes>>
  BY DEF BootRead
<1>2. PICK b \in Blocks : b = cur.blk
  BY DEF TypeOK
<1>3. \/ pc' = "scan_erase" /\ hdr[b] = "BAD" /\ blk_state' = blk_state
      \/ /\ pc' = "boot_item" /\ hdr[b] \in BlkStates
         /\ blk_state' = [blk_state EXCEPT ![b] = hdr[b]]
  BY <1>2 DEF BootRead, SetState, TypeOK
<1>4. TypeOK'
  <2>1. blk_state' \in [Blocks -> BlkStates \cup {"NONE"}]
    BY <1>3 DEF TypeOK
  <2>2. QED
    BY <1>1, <2>1 DEF TypeOK, PCs, BootPCs, flash
<1>5. Contiguous' /\ OneReserve' /\ OldRecord'
  BY <1>1 DEF Contiguous, Filled, OneReserve, OldRecord, flash
<1>6. CursorInBlock'
  <2>1. PICK e \in 1..Cap : Filled(b, e)
    BY DEF Contiguous
  <2>2. Filled(cur.blk, e)' /\ cur'.slot = 1
    BY <1>1, <1>2, <2>1 DEF Filled, flash, Starting, BootPCs, Start
  <2>3. QED
    BY <2>2 DEF CursorInBlock
<1>7. Starting'
  <2>1. \A c \in Blocks : (Scanned(c)' <=> Scanned(c)) /\ ~Formatted(c) /\ ~Formatted(c)'
    BY <1>1 DEF Scanned, ScanPCs, Formatted, LastPCs
  <2>2. ~Scanned(b)
    BY <1>1, <1>2 DEF Scanned, ScanPCs
  <2>3. \A c \in Blocks : c # b => blk_state'[c] = blk_state[c]
    BY <1>3 DEF TypeOK
  <2>4. \A c \in Blocks : Scanned(c)' => Ready(c)'
    BY <1>1, <2>1, <2>2, <2>3 DEF Starting, BootPCs, Ready, Known, Filled, flash
  <2>5. \A c \in Blocks : ~Scanned(c)' => Unread(c)'
    BY <1>1, <1>2, <1>3, <2>1, <2>2, <2>3 DEF Starting, BootPCs, Unread, Known, TypeOK, flash
  <2>6. \A c \in unclean' : Scanned(c)' /\ blk_state'[c] = "CLEAN"
    BY <1>1, <2>1, <2>2, <2>3 DEF Starting, BootPCs, TypeOK
  <2>7. clean_blk_nums' = CleanBlocks'
    BY <1>1, <2>1, <2>2, <2>3 DEF Starting, BootPCs, CleanBlocks, Counted
  <2>8. QED
    BY <1>1, <2>4, <2>5, <2>6, <2>7 DEF Starting, BootPCs, LastPCs
<1>8. Collecting' /\ Running'
  BY <1>1, BootElsewhere DEF BootPCs
<1>9. QED
  BY <1>4, <1>5, <1>6, <1>7, <1>8

LEMMA ScanEraseStep == ASSUME IInv, ScanErase PROVE IInv'
<1> USE ConstantsAssumption DEF Blocks, Slots, IInv
<1>1. /\ pc = "scan_erase" /\ pc' = "scan_header" /\ EraseBlock(cur.blk)
      /\ UNCHANGED <<ram, context, crashes>>
  BY DEF ScanErase
<1>2. PICK b \in Blocks : b = cur.blk
  BY DEF TypeOK
<1>3. /\ ItemType' /\ Filled(b, 1)'
      /\ \A c \in Blocks : \A e : c # b => (Filled(c, e)' <=> Filled(c, e))
      /\ hdr' = [hdr EXCEPT ![b] = "BAD"]
  <2>1. ItemType
    BY DEF TypeOK, ItemType
  <2>2. QED
    BY <1>1, <1>2, <2>1, EraseSlots DEF EraseBlock, SetHeader
<1>4. TypeOK'
  BY <1>1, <1>3 DEF TypeOK, ItemType, PCs, BootPCs, ram, context
<1>5. Contiguous' /\ OneReserve'
  BY <1>3 DEF Contiguous, OneReserve, TypeOK
<1>6. CursorInBlock' /\ OldRecord'
  BY <1>1 DEF CursorInBlock, OldRecord
<1>7. Starting'
  <2>1. \A c \in Blocks : (Scanned(c)' <=> Scanned(c)) /\ ~Formatted(c) /\ ~Formatted(c)'
    BY <1>1 DEF Scanned, ScanPCs, Formatted, LastPCs, context
  <2>2. ~Scanned(b) /\ cur' = cur /\ unclean' = unclean
    BY <1>1, <1>2 DEF Scanned, ScanPCs, context
  <2>3. \A c \in Blocks : Scanned(c)' => Ready(c)'
    BY <1>1, <1>3, <2>1, <2>2 DEF Starting, BootPCs, Ready, Known, ram
  <2>4. \A c \in Blocks : ~Scanned(c)' => Unread(c)'
    BY <1>1, <2>1, <2>2 DEF Starting, BootPCs, Unread, ram
  <2>5. clean_blk_nums' = CleanBlocks'
    BY <1>1, <2>1, <2>2 DEF Starting, BootPCs, CleanBlocks, Counted, ram
  <2>6. hdr'[cur'.blk] = "BAD" /\ Filled(cur.blk, 1)'
    BY <1>2, <1>3, <2>2 DEF Filled, TypeOK
  <2>7. \A c \in unclean' : Scanned(c)' /\ blk_state'[c] = "CLEAN"
    BY <1>1, <2>1, <2>2 DEF Starting, BootPCs, TypeOK, ram
  <2>8. QED
    BY <1>1, <2>3, <2>4, <2>5, <2>6, <2>7 DEF Starting, BootPCs, LastPCs
<1>8. Collecting' /\ Running'
  BY <1>1, BootElsewhere DEF BootPCs
<1>9. QED
  BY <1>4, <1>5, <1>6, <1>7, <1>8

\* The loop of the start goes on: with the other block, or behind the loop.
LEMMA NextBlockStep ==
    ASSUME IInv, pc \in {"scan_header", "boot_item"}, NextBlock, NEW b \in Blocks, b = cur.blk,
           \A c \in Blocks : c # b => /\ UNCHANGED <<hdr[c], blk_state[c], blk_space[c]>>
                                      /\ \A e : Filled(c, e) => Filled(c, e)'
                                      /\ c \in unclean' <=> c \in unclean,
           Ready(b)', b \in unclean' => blk_state'[b] = "CLEAN", unclean' \subseteq Blocks,
           clean_blk_nums' = clean_blk_nums
                             + (IF blk_state'[b] = "CLEAN" /\ b \notin unclean' THEN 1 ELSE 0)
    PROVE  /\ Starting' /\ pc' \in BootPCs \ {"boot_item", "boot_mark", "last_erase", "last_header"}
           /\ cur' \in [blk : Blocks, slot : 0..(Cap + 1)]
           /\ clean_blk_nums' \in 0..2
<1> USE ConstantsAssumption DEF Blocks, Slots, IInv
<1>1. \/ b = 0 /\ pc' = "boot_read" /\ cur' = [blk |-> 1, slot |-> 1]
      \/ b = 1 /\ pc' = "boot_unclean" /\ cur' = [blk |-> 0, slot |-> 0]
  BY DEF NextBlock, Start, NoPos
<1>2. \A c \in Blocks : /\ Scanned(c) <=> c < b
                        /\ Scanned(c)' <=> c <= b
                        /\ ~Formatted(c) /\ ~Formatted(c)'
  BY <1>1 DEF Scanned, ScanPCs, Formatted, LastPCs
<1>3. \A c \in Blocks : Scanned(c) => Ready(c)'
  BY <1>2 DEF Starting, BootPCs, Ready, Known
<1>4. \A c \in Blocks : Scanned(c)' => Ready(c)'
  BY <1>2, <1>3
<1>5. \A c \in Blocks : ~Scanned(c)' => Unread(c)'
  <2>1. \A c \in Blocks : ~Scanned(c)' => blk_state'[c] = "NONE"
    BY <1>2 DEF Starting, BootPCs, Unread
  <2>2. QED
    BY <1>1, <2>1 DEF Unread
<1>6. \A c \in unclean' : Scanned(c)' /\ blk_state'[c] = "CLEAN"
  <2>1. SUFFICES ASSUME NEW c \in Blocks, c \in unclean'
                 PROVE  c <= b /\ blk_state'[c] = "CLEAN"
    BY <1>2
  <2>2. CASE c = b
    BY <2>1, <2>2
  <2>3. CASE c # b
    <3>1. c \in unclean
      BY <2>1, <2>3
    <3>2. Scanned(c) /\ blk_state[c] = "CLEAN"
      BY <3>1 DEF Starting, BootPCs
    <3>3. QED
      BY <1>2, <2>3, <3>2
  <2>4. QED
    BY <2>2, <2>3
<1>7. clean_blk_nums' = CleanBlocks'
  <2>1. clean_blk_nums = CleanBlocks
    BY DEF Starting, BootPCs
  <2>2. \A c \in Blocks : Counted(c)' <=> \/ Counted(c)
                                          \/ c = b /\ blk_state'[b] = "CLEAN" /\ b \notin unclean'
    BY <1>2 DEF Counted
  <2>3. ~Counted(b)
    BY <1>2 DEF Counted
  <2>4. QED
    BY <2>1, <2>2, <2>3 DEF CleanBlocks
<1>8. Starting'
  BY <1>1, <1>4, <1>5, <1>6, <1>7 DEF Starting, BootPCs, LastPCs, Start
<1>9. clean_blk_nums' \in 0..2
  BY <1>7 DEF CleanBlocks
<1>10. QED
  BY <1>1, <1>8, <1>9 DEF BootPCs

LEMMA ScanHeaderStep == ASSUME IInv, ScanHeader PROVE IInv'
<1> USE ConstantsAssumption DEF Blocks, Slots, IInv
<1>1. /\ pc = "scan_header" /\ WriteCleanHeader(cur.blk) /\ NextBlock
      /\ UNCHANGED <<item, write_pos, gc_triggered, req, ret, old, unclean, crashes>>
  BY DEF ScanHeader
<1>2. PICK b \in Blocks : b = cur.blk
  BY DEF TypeOK
<1>3. /\ hdr' = [hdr EXCEPT ![b] = "CLEAN"] /\ blk_state' = [blk_state EXCEPT ![b] = "CLEAN"]
      /\ blk_space' = [blk_space EXCEPT ![b] = Cap] /\ clean_blk_nums' = clean_blk_nums + 1
  BY <1>1, <1>2 DEF WriteCleanHeader, SetHeader, SetState
<1>4. Filled(b, 1) /\ b \notin unclean
  BY <1>1, <1>2 DEF Starting, BootPCs, Scanned, ScanPCs
<1>5. Ready(b)'
  <2>1. blk_state'[b] = "CLEAN" /\ hdr'[b] = "CLEAN" /\ blk_space'[b] = Cap
    BY <1>3 DEF TypeOK
  <2>2. Cap + 1 - blk_space'[b] = 1 /\ Filled(b, 1)'
    BY <1>1, <1>4, <2>1 DEF Filled
  <2>3. QED
    BY <2>1, <2>2 DEF Ready, Known, BlkStates, Filled
<1>6. /\ Starting' /\ pc' \in BootPCs \ {"boot_item", "boot_mark", "last_erase", "last_header"}
      /\ cur' \in [blk : Blocks, slot : 0..(Cap + 1)] /\ clean_blk_nums' \in 0..2
  <2>1. \A c \in Blocks : c # b => /\ UNCHANGED <<hdr[c], blk_state[c], blk_space[c]>>
                                   /\ \A e : Filled(c, e) => Filled(c, e)'
                                   /\ c \in unclean' <=> c \in unclean
    BY <1>1, <1>3 DEF TypeOK, Filled
  <2>2. blk_state'[b] = "CLEAN" /\ unclean' = unclean /\ unclean \subseteq Blocks
    BY <1>1, <1>3 DEF TypeOK
  <2>3. clean_blk_nums' = clean_blk_nums
                          + (IF blk_state'[b] = "CLEAN" /\ b \notin unclean' THEN 1 ELSE 0)
    BY <1>3, <1>4, <2>2
  <2>4. QED
    BY <1>1, <1>2, <1>5, <2>1, <2>2, <2>3, NextBlockStep
<1>7. TypeOK'
  BY <1>1, <1>3, <1>6 DEF TypeOK, PCs, BlkStates
<1>8. Contiguous' /\ OneReserve' /\ CursorInBlock' /\ OldRecord'
  BY <1>1, <1>3, <1>6 DEF Contiguous, Filled, OneReserve, TypeOK, CursorInBlock, OldRecord, BootPCs
<1>9. QED
  BY <1>6, <1>7, <1>8, BootElsewhere

LEMMA BootNextBlockStep == ASSUME IInv, BootNextBlock PROVE IInv'
<1> USE ConstantsAssumption DEF Blocks, Slots, IInv
<1>1. /\ pc = "boot_item" /\ RecordSpace /\ NextBlock
      /\ UNCHANGED <<flash, blk_state, write_pos, gc_triggered, req, ret, old, crashes>>
  BY DEF BootNextBlock
<1>2. PICK b \in Blocks : b = cur.blk
  BY DEF TypeOK
<1>3. EndOf(b) \in 1..Cap /\ Filled(b, EndOf(b))
  BY ContiguousEnd
<1>4. /\ blk_space' = [blk_space EXCEPT ![b] = SpaceOf(b)]
      /\ SpaceOf(b) \in 1..Cap /\ Cap + 1 - SpaceOf(b) = EndOf(b)
  BY <1>1, <1>2, <1>3 DEF RecordSpace, SpaceOf
<1>5. /\ unclean' = IF blk_state[b] = "CLEAN" /\ SpaceOf(b) # Cap THEN unclean \cup {b} ELSE unclean
      /\ clean_blk_nums' = IF blk_state[b] = "CLEAN" /\ SpaceOf(b) = Cap THEN clean_blk_nums + 1
                                                                         ELSE clean_blk_nums
  BY <1>2 DEF BootNextBlock
<1>6. b \notin unclean /\ Known(b)
  BY <1>1, <1>2 DEF Starting, BootPCs, Scanned, ScanPCs, Unread
<1>7. Ready(b)'
  <2>1. blk_space'[b] = SpaceOf(b)
    BY <1>4 DEF TypeOK
  <2>2. Filled(b, Cap + 1 - blk_space[b])'
    BY <1>1, <1>3, <1>4, <2>1 DEF Filled, flash
  <2>3. blk_state'[b] = "CLEAN" /\ b \notin unclean' => blk_space'[b] = Cap
    BY <1>1, <1>5, <2>1
  <2>4. QED
    BY <1>1, <1>4, <1>6, <2>1, <2>2, <2>3 DEF Ready, Known, flash
<1>8. /\ Starting' /\ pc' \in BootPCs \ {"boot_item", "boot_mark", "last_erase", "last_header"}
      /\ cur' \in [blk : Blocks, slot : 0..(Cap + 1)] /\ clean_blk_nums' \in 0..2
  <2>1. \A c \in Blocks : c # b => /\ UNCHANGED <<hdr[c], blk_state[c], blk_space[c]>>
                                   /\ \A e : Filled(c, e) => Filled(c, e)'
                                   /\ c \in unclean' <=> c \in unclean
    BY <1>1, <1>4, <1>5 DEF TypeOK, Filled, flash
  <2>2. (b \in unclean' => blk_state'[b] = "CLEAN") /\ unclean' \subseteq Blocks
    BY <1>1, <1>5, <1>6 DEF TypeOK
  <2>3. clean_blk_nums' = clean_blk_nums
                          + (IF blk_state'[b] = "CLEAN" /\ b \notin unclean' THEN 1 ELSE 0)
    BY <1>1, <1>5, <1>6 DEF TypeOK
  <2>4. QED
    BY <1>1, <1>2, <1>7, <2>1, <2>2, <2>3, NextBlockStep
<1>9. TypeOK'
  BY <1>1, <1>4, <1>5, <1>8 DEF TypeOK, PCs, flash
<1>10. Contiguous' /\ OneReserve' /\ CursorInBlock' /\ OldRecord'
  BY <1>1, <1>8 DEF Contiguous, Filled, OneReserve, CursorInBlock, OldRecord, BootPCs, flash
<1>11. QED
  BY <1>8, <1>9, <1>10, BootElsewhere

\* Recovery deletes records and marks the blocks they are in; it counts nothing
\* and moves no boundary.
LEMMA RecoveringStep ==
    ASSUME IInv, pc \in {"boot_item", "boot_mark"}, pc' \in {"boot_item", "boot_mark"},
           cur'.blk = cur.blk, UNCHANGED <<blk_space, clean_blk_nums, unclean>>,
           \A c \in Blocks : \A e : Filled(c, e)' <=> Filled(c, e),
           \A c \in Blocks :
              \/ UNCHANGED <<blk_state[c], hdr[c]>>
              \/ blk_state[c] = "USED" /\ blk_state'[c] = "DIRTY" /\ hdr'[c] = "DIRTY"
    PROVE  Starting' /\ OneReserve'
<1> USE ConstantsAssumption DEF Blocks, IInv
<1>1. \A c \in Blocks : (Scanned(c)' <=> Scanned(c)) /\ ~Formatted(c) /\ ~Formatted(c)'
  BY DEF Scanned, ScanPCs, Formatted, LastPCs
<1>2. PICK b \in Blocks : b = cur.blk /\ b = cur'.blk
  BY DEF TypeOK
<1>3. \A c \in Blocks : /\ blk_state'[c] = "CLEAN" <=> blk_state[c] = "CLEAN"
                        /\ blk_state'[c] = "NONE" <=> blk_state[c] = "NONE"
                        /\ Known(c) => Known(c)'
  <2>1. \A c \in Blocks : blk_state[c] = "USED" =>
           (blk_state[c] # "CLEAN" /\ blk_state[c] # "NONE" /\ blk_state[c] # "DIRTY")
    OBVIOUS
  <2>2. QED
    BY <2>1 DEF Known, BlkStates
<1>4. \A c \in Blocks : Scanned(c)' => Ready(c)'
  BY <1>1, <1>3 DEF Starting, BootPCs, Ready
<1>5. \A c \in Blocks : ~Scanned(c)' => Unread(c)'
  BY <1>1, <1>3 DEF Starting, BootPCs, Unread
<1>6. \A c \in unclean' : Scanned(c)' /\ blk_state'[c] = "CLEAN"
  BY <1>1, <1>3 DEF Starting, BootPCs, TypeOK
<1>7. clean_blk_nums' = CleanBlocks'
  BY <1>1, <1>3 DEF Starting, BootPCs, CleanBlocks, Counted
<1>8. Starting'
  BY <1>4, <1>5, <1>6, <1>7 DEF Starting, BootPCs, LastPCs
<1>9. OneReserve'
  <2>1. PICK c \in Blocks : hdr[c] \notin {"USED", "DIRTY"}
    BY DEF OneReserve
  <2>2. blk_state[c] = hdr[c] \/ blk_state[c] = "NONE"
    BY DEF Starting, BootPCs, Ready, Unread, Known, Formatted, LastPCs
  <2>3. hdr'[c] = hdr[c]
    BY <2>1, <2>2
  <2>4. QED
    BY <2>1, <2>3 DEF OneReserve
<1>10. QED
  BY <1>8, <1>9

LEMMA BootRecoverStep == ASSUME IInv, BootRecover PROVE IInv'
<1> USE ConstantsAssumption DEF Blocks, Slots, IInv
<1>1. /\ pc = "boot_item" /\ pc' \in {"boot_item", "boot_mark"}
      /\ cur' = [cur EXCEPT !.slot = @ + 1] /\ ~AtEnd /\ Normal(cur.blk, cur.slot)
      /\ UNCHANGED <<hdr, ram, req, ret, unclean, crashes>>
      /\ \/ \E p \in Recovered(cur) : Delete(p) /\ (pc' = "boot_mark" => blk_state[p.blk] = "USED")
         \/ UNCHANGED <<item, old, pc>>
  BY DEF BootRecover, AfterDelete, NextRecord
<1>2. cur \in Pos /\ At(cur) \in Item
  BY <1>1, CursorAdvances DEF TypeOK, Pos, Normal, IsItem, At
<1>3. \A p \in Recovered(cur) : p \in Pos /\ IsItem(p.blk, p.slot)
  BY <1>1, <1>2 DEF Recovered, Item, Normal
<1>4. ItemType' /\ \A b \in Blocks : \A e : Filled(b, e)' <=> Filled(b, e)
  <2>1. ItemType
    BY DEF TypeOK, ItemType
  <2>2. ASSUME NEW p \in Recovered(cur), Delete(p)
        PROVE  ItemType' /\ \A b \in Blocks : \A e : Filled(b, e)' <=> Filled(b, e)
    BY <2>1, <2>2, <1>3, DeleteSlot
  <2>3. CASE UNCHANGED <<item, old, pc>>
    BY <2>1, <2>3 DEF ItemType, Filled
  <2>4. QED
    BY <1>1, <2>2, <2>3
<1>5. old' \in Pos \cup {NoPos} /\ (pc' = "boot_mark" => old' \in Pos /\ blk_state[old'.blk] = "USED")
  BY <1>1, <1>3 DEF TypeOK, Delete
<1>6. TypeOK'
  <2>1. cur' \in [blk : Blocks, slot : 0..(Cap + 1)]
    BY <1>1, CursorAdvances
  <2>2. QED
    BY <1>1, <1>4, <1>5, <2>1 DEF TypeOK, ItemType, PCs, BootPCs, ram
<1>7. cur'.blk = cur.blk /\ cur'.slot = cur.slot + 1
  BY <1>1 DEF TypeOK
<1>8. Contiguous' /\ CursorInBlock'
  <2>1. PICK e \in 1..Cap : Filled(cur.blk, e) /\ cur.slot + 1 \in 1..e
    BY <1>1, CursorAdvances
  <2>2. PICK b \in Blocks : b = cur.blk
    BY DEF TypeOK
  <2>3. Filled(b, e)'
    BY <1>4, <2>1, <2>2
  <2>4. Filled(cur.blk, e)'
    BY <1>7, <2>2, <2>3 DEF Filled
  <2>5. QED
    BY <1>4, <1>7, <2>1, <2>4 DEF CursorInBlock, Contiguous
<1>9. OldRecord'
  BY <1>1, <1>5 DEF OldRecord, ram
<1>10. Starting' /\ OneReserve'
  BY <1>1, <1>4, <1>7, RecoveringStep DEF ram
<1>11. QED
  BY <1>1, <1>6, <1>8, <1>9, <1>10, BootElsewhere DEF BootPCs

LEMMA BootMarkStep == ASSUME IInv, BootMark PROVE IInv'
<1> USE ConstantsAssumption DEF Blocks, Slots, IInv
<1>1. /\ pc = "boot_mark" /\ pc' = "boot_item"
      /\ old \in Pos /\ blk_state[old.blk] = "USED" /\ MarkOld
      /\ UNCHANGED <<item, blk_space, clean_blk_nums, write_pos, gc_triggered,
                     req, ret, cur, old, unclean, crashes>>
  BY DEF BootMark, OldRecord
<1>2. TypeOK'
  BY <1>1 DEF TypeOK, PCs, BootPCs, MarkOld, SetHeader, SetState, BlkStates, Pos
<1>3. Contiguous' /\ CursorInBlock' /\ OldRecord'
  BY <1>1 DEF Contiguous, Filled, CursorInBlock, OldRecord
<1>4. Starting' /\ OneReserve'
  <2>1. PICK b \in Blocks : b = old.blk
    BY <1>1 DEF Pos
  <2>2. \A c \in Blocks :
           \/ UNCHANGED <<blk_state[c], hdr[c]>>
           \/ blk_state[c] = "USED" /\ blk_state'[c] = "DIRTY" /\ hdr'[c] = "DIRTY"
    BY <1>1, <2>1 DEF MarkOld, SetHeader, SetState, TypeOK
  <2>3. \A c \in Blocks : \A e : Filled(c, e)' <=> Filled(c, e)
    BY <1>1 DEF Filled
  <2>4. QED
    BY <1>1, <2>2, <2>3, RecoveringStep
<1>5. QED
  BY <1>1, <1>2, <1>3, <1>4, BootElsewhere DEF BootPCs

LEMMA BootPassStep == ASSUME IInv, BootPass PROVE IInv'
<1> USE ConstantsAssumption DEF Blocks, Slots, IInv
<1>1. /\ pc = "boot_item" /\ ~AtEnd /\ PassInvalid
      /\ UNCHANGED <<item, blk_space, clean_blk_nums, write_pos, gc_triggered, pc,
                     req, ret, old, unclean, crashes>>
  BY DEF BootPass
<1>2. /\ TypeOK' /\ Contiguous' /\ CursorInBlock' /\ OldRecord' /\ cur'.blk = cur.blk
      /\ \A b \in Blocks :
            \/ blk_state'[b] = blk_state[b] /\ hdr'[b] = hdr[b]
            \/ b = cur.blk /\ blk_state[b] = "USED" /\ blk_state'[b] = "DIRTY" /\ hdr'[b] = "DIRTY"
  BY <1>1, PassStep
<1>3. \A c \in Blocks : \A e : Filled(c, e)' <=> Filled(c, e)
  BY <1>1 DEF Filled
<1>4. Starting' /\ OneReserve'
  BY <1>1, <1>2, <1>3, RecoveringStep
<1>5. QED
  BY <1>1, <1>2, <1>4, BootElsewhere DEF BootPCs

\* Behind the loop every block has been read.
LEMMA AllScanned ==
    ASSUME IInv, pc = "boot_unclean"
    PROVE  /\ \A b \in Blocks : Scanned(b) /\ ~Formatted(b) /\ Ready(b)
           /\ \A b \in unclean : blk_state[b] = "CLEAN"
           /\ clean_blk_nums = CleanBlocks
           /\ \A b \in Blocks : Counted(b) <=> blk_state[b] = "CLEAN" /\ b \notin unclean
BY DEF IInv, Starting, Scanned, ScanPCs, Formatted, LastPCs, BootPCs, Counted

LEMMA BootKeepStep == ASSUME IInv, BootKeep PROVE IInv'
<1> USE ConstantsAssumption DEF Blocks, Slots, IInv
<1>1. /\ pc = "boot_unclean" /\ pc' = "boot_unclean" /\ clean_blk_nums >= 1
      /\ UNCHANGED <<item, blk_space, clean_blk_nums, write_pos, gc_triggered, pc,
                     req, ret, cur, old, crashes>>
  BY DEF BootKeep
<1>2. PICK b \in unclean : /\ hdr' = [hdr EXCEPT ![b] = "DIRTY"]
                           /\ blk_state' = [blk_state EXCEPT ![b] = "DIRTY"]
                           /\ unclean' = unclean \ {b}
  BY DEF BootKeep, SetHeader, SetState
<1>3. b \in Blocks
  BY DEF TypeOK
<1>4. TypeOK'
  BY <1>1, <1>2, <1>3 DEF TypeOK, BlkStates
<1>5. Contiguous' /\ CursorInBlock' /\ OldRecord'
  BY <1>1 DEF Contiguous, Filled, CursorInBlock, OldRecord
<1>6. \A c \in Blocks : c # b => /\ blk_state'[c] = blk_state[c] /\ hdr'[c] = hdr[c]
                                 /\ c \in unclean' <=> c \in unclean
  BY <1>2 DEF TypeOK
<1>7. blk_state'[b] = "DIRTY" /\ hdr'[b] = "DIRTY" /\ b \notin unclean'
  BY <1>2, <1>3 DEF TypeOK
<1>8. OneReserve'
  <2>1. PICK c \in Blocks : blk_state[c] = "CLEAN" /\ c \notin unclean
    BY <1>1, AllScanned DEF CleanBlocks
  <2>2. c # b /\ hdr[c] = "CLEAN"
    BY <1>1, <2>1, AllScanned DEF Ready, Known
  <2>3. hdr'[c] = "CLEAN"
    BY <1>6, <2>2
  <2>4. QED
    BY <2>3 DEF OneReserve
<1>9. Starting'
  <2>1. \A c \in Blocks : Scanned(c)' /\ ~Formatted(c)'
    BY <1>1 DEF Scanned, ScanPCs, Formatted, LastPCs
  <2>2. \A c \in Blocks : Ready(c)'
    <3>1. \A c \in Blocks : Ready(c)
      BY <1>1, AllScanned
    <3>2. QED
      BY <1>1, <1>6, <1>7, <3>1 DEF Ready, Known, Filled, BlkStates
  <2>3. \A c \in unclean' : blk_state'[c] = "CLEAN" /\ c \in Blocks
    BY <1>1, <1>2, <1>6, <1>7, AllScanned DEF TypeOK
  <2>4. \A c \in Blocks : Counted(c)' <=> Counted(c)
    BY <1>1, <1>2, <1>6, <1>7, <2>1, AllScanned DEF Counted
  <2>5. clean_blk_nums' = CleanBlocks'
    BY <1>1, <2>4, AllScanned DEF CleanBlocks
  <2>6. QED
    BY <1>1, <2>1, <2>2, <2>3, <2>5 DEF Starting, BootPCs, LastPCs
<1>10. QED
  BY <1>1, <1>4, <1>5, <1>8, <1>9, BootElsewhere DEF BootPCs

LEMMA BootDropStep == ASSUME IInv, BootDrop PROVE IInv'
<1> USE ConstantsAssumption DEF Blocks, Slots, IInv
<1>1. /\ pc = "boot_unclean" /\ pc' = "last_erase" /\ clean_blk_nums = 0
      /\ UNCHANGED <<flash, ram, req, ret, old, crashes>>
  BY DEF BootDrop
<1>2. \A c \in Blocks : ~Counted(c) /\ (blk_state[c] = "CLEAN" <=> c \in unclean) /\ Ready(c)
  BY <1>1, AllScanned DEF CleanBlocks
<1>3. PICK b \in Blocks : /\ b \in unclean
                          /\ cur' = [blk |-> b, slot |-> 1]
                          /\ unclean' = unclean \ {b}
  <2>1. unclean # {}
    <3>1. PICK c \in Blocks : hdr[c] \notin {"USED", "DIRTY"}
      BY DEF OneReserve
    <3>2. QED
      BY <1>2, <3>1 DEF Ready, Known, BlkStates
  <2>2. QED
    BY <2>1 DEF BootDrop, Start, TypeOK
<1>4. TypeOK'
  BY <1>1, <1>3 DEF TypeOK, PCs, BootPCs, flash, ram
<1>5. Contiguous' /\ CursorInBlock' /\ OldRecord' /\ OneReserve'
  BY <1>1 DEF Contiguous, Filled, CursorInBlock, OldRecord, OneReserve, flash
<1>6. Starting'
  <2>1. \A c \in Blocks : Scanned(c)' /\ (Formatted(c)' <=> c = b)
    BY <1>1, <1>3 DEF Scanned, ScanPCs, Formatted, LastPCs
  <2>2. \A c \in Blocks : c # b => Ready(c)'
    BY <1>1, <1>2, <1>3 DEF Ready, Known, Filled, flash, ram
  <2>3. \A c \in unclean' : blk_state'[c] = "CLEAN" /\ c \in Blocks
    BY <1>1, <1>2, <1>3 DEF TypeOK, ram
  <2>4. \A c \in Blocks : ~Counted(c)'
    BY <1>1, <1>2, <1>3, <2>1 DEF Counted, ram
  <2>5. clean_blk_nums' = CleanBlocks' /\ clean_blk_nums' = 0
    BY <1>1, <2>4 DEF CleanBlocks, ram
  <2>6. hdr'[b] = "CLEAN" /\ b \notin unclean' /\ cur'.blk = b
    BY <1>1, <1>2, <1>3 DEF Ready, Known, flash
  <2>7. QED
    BY <1>1, <2>1, <2>2, <2>3, <2>5, <2>6 DEF Starting, BootPCs
<1>7. QED
  BY <1>1, <1>4, <1>5, <1>6, BootElsewhere DEF BootPCs

LEMMA LastEraseStep == ASSUME IInv, LastErase PROVE IInv'
<1> USE ConstantsAssumption DEF Blocks, Slots, IInv
<1>1. /\ pc = "last_erase" /\ pc' = "last_header" /\ EraseBlock(cur.blk)
      /\ UNCHANGED <<ram, context, crashes>>
  BY DEF LastErase
<1>2. PICK b \in Blocks : b = cur.blk
  BY DEF TypeOK
<1>3. /\ ItemType' /\ Filled(b, 1)'
      /\ \A c \in Blocks : \A e : c # b => (Filled(c, e)' <=> Filled(c, e))
      /\ hdr' = [hdr EXCEPT ![b] = "BAD"]
  <2>1. ItemType
    BY DEF TypeOK, ItemType
  <2>2. QED
    BY <1>1, <1>2, <2>1, EraseSlots DEF EraseBlock, SetHeader
<1>4. TypeOK'
  BY <1>1, <1>3 DEF TypeOK, ItemType, PCs, BootPCs, ram, context
<1>5. Contiguous' /\ OneReserve'
  BY <1>3 DEF Contiguous, OneReserve, TypeOK
<1>6. CursorInBlock' /\ OldRecord'
  BY <1>1 DEF CursorInBlock, OldRecord
<1>7. Starting'
  <2>1. \A c \in Blocks : /\ Scanned(c) /\ Scanned(c)'
                          /\ Formatted(c) <=> c = b
                          /\ Formatted(c)' <=> c = b
    BY <1>1, <1>2 DEF Scanned, ScanPCs, Formatted, LastPCs, context
  <2>2. \A c \in Blocks : c # b => Ready(c)'
    BY <1>1, <1>3, <2>1 DEF Starting, BootPCs, Ready, Known, ram, context
  <2>3. clean_blk_nums' = CleanBlocks'
    BY <1>1, <2>1 DEF Starting, BootPCs, CleanBlocks, Counted, ram, context
  <2>4. hdr'[cur'.blk] = "BAD" /\ Filled(cur.blk, 1)'
    BY <1>1, <1>2, <1>3 DEF Filled, TypeOK, context
  <2>5. \A c \in unclean' : Scanned(c)' /\ blk_state'[c] = "CLEAN"
    BY <1>1, <2>1 DEF Starting, BootPCs, TypeOK, ram, context
  <2>6. clean_blk_nums' = 0 /\ cur'.blk \notin unclean'
    BY <1>1 DEF Starting, BootPCs, LastPCs, ram, context
  <2>7. QED
    BY <1>1, <2>1, <2>2, <2>3, <2>4, <2>5, <2>6 DEF Starting, BootPCs
<1>8. QED
  BY <1>1, <1>4, <1>5, <1>6, <1>7, BootElsewhere DEF BootPCs

LEMMA LastHeaderStep == ASSUME IInv, LastHeader PROVE IInv'
<1> USE ConstantsAssumption DEF Blocks, Slots, IInv
<1>1. /\ pc = "last_header" /\ pc' = "boot_unclean" /\ WriteCleanHeader(cur.blk)
      /\ cur' = [blk |-> 0, slot |-> 0]
      /\ UNCHANGED <<item, write_pos, gc_triggered, req, ret, old, unclean, crashes>>
  BY DEF LastHeader, NoPos
<1>2. PICK b \in Blocks : b = cur.blk
  BY DEF TypeOK
<1>3. Filled(b, 1) /\ b \notin unclean /\ clean_blk_nums = 0 /\ clean_blk_nums = CleanBlocks
  BY <1>1, <1>2 DEF Starting, BootPCs, LastPCs
<1>4. /\ hdr' = [hdr EXCEPT ![b] = "CLEAN"] /\ blk_state' = [blk_state EXCEPT ![b] = "CLEAN"]
      /\ blk_space' = [blk_space EXCEPT ![b] = Cap] /\ clean_blk_nums' = 1
  BY <1>1, <1>2, <1>3 DEF WriteCleanHeader, SetHeader, SetState
<1>5. TypeOK'
  BY <1>1, <1>4 DEF TypeOK, PCs, BootPCs, BlkStates
<1>6. Contiguous' /\ CursorInBlock' /\ OldRecord' /\ OneReserve'
  BY <1>1, <1>2, <1>4 DEF Contiguous, Filled, CursorInBlock, OldRecord, OneReserve, TypeOK
<1>7. Starting'
  <2>1. \A c \in Blocks : /\ Scanned(c) /\ Scanned(c)' /\ ~Formatted(c)'
                          /\ Formatted(c) <=> c = b
    BY <1>1, <1>2 DEF Scanned, ScanPCs, Formatted, LastPCs
  <2>2. \A c \in Blocks : c # b => /\ blk_state'[c] = blk_state[c] /\ hdr'[c] = hdr[c]
                                   /\ blk_space'[c] = blk_space[c]
    BY <1>4 DEF TypeOK
  <2>3. blk_state'[b] = "CLEAN" /\ hdr'[b] = "CLEAN" /\ blk_space'[b] = Cap
    BY <1>4 DEF TypeOK
  <2>4. Ready(b)'
    <3>1. Cap + 1 - blk_space'[b] = 1 /\ Filled(b, 1)'
      BY <1>1, <1>3, <2>3 DEF Filled
    <3>2. QED
      BY <2>3, <3>1 DEF Ready, Known, BlkStates, Filled
  <2>5. \A c \in Blocks : c # b => Ready(c)'
    BY <1>1, <2>1, <2>2 DEF Starting, BootPCs, Ready, Known, Filled
  <2>6. \A c \in unclean' : blk_state'[c] = "CLEAN" /\ c \in Blocks
    BY <1>1, <1>3, <2>2 DEF Starting, BootPCs, TypeOK
  <2>7. \A c \in Blocks : Counted(c)' <=> c = b
    <3>1. \A c \in Blocks : ~Counted(c)
      BY <1>3 DEF CleanBlocks
    <3>2. QED
      BY <1>1, <1>3, <2>1, <2>2, <2>3, <3>1 DEF Counted
  <2>8. clean_blk_nums' = CleanBlocks'
    BY <1>4, <2>7 DEF CleanBlocks
  <2>9. QED
    BY <1>1, <2>1, <2>4, <2>5, <2>6, <2>8 DEF Starting, BootPCs, LastPCs
<1>8. QED
  BY <1>1, <1>5, <1>6, <1>7, BootElsewhere DEF BootPCs

LEMMA BootDoneStep == ASSUME IInv, BootDone PROVE IInv'
<1> USE ConstantsAssumption DEF Blocks, Slots, IInv
<1>1. /\ pc = "boot_unclean" /\ pc' = "idle" /\ pc' \in RunPCs /\ unclean = {} /\ clean_blk_nums # 0
      /\ req' = NoReq /\ ret' = "none" /\ cur' = NoPos /\ old' = NoPos
      /\ UNCHANGED <<item, blk_space, unclean, crashes>>
  BY DEF BootDone, RunPCs
<1>2. /\ \A c \in Blocks : Ready(c)
      /\ clean_blk_nums = (IF blk_state[0] = "CLEAN" THEN 1 ELSE 0)
                          + (IF blk_state[1] = "CLEAN" THEN 1 ELSE 0)
  BY <1>1, AllScanned DEF CleanBlocks
<1>3. blk_state = hdr /\ hdr \in [Blocks -> BlkStates]
  BY <1>2 DEF Ready, Known, TypeOK
<1>4. PICK b \in Blocks :
         /\ hdr' = [hdr EXCEPT ![b] = hdr'[b]] /\ hdr'[b] \in {"USED", "DIRTY"}
         /\ blk_state' = hdr'
         /\ hdr[Other(b)] = "CLEAN"
         /\ clean_blk_nums' = 1
         /\ write_pos' = [blk |-> b, slot |-> Cap + 1 - blk_space[b]]
  <2>1. CASE clean_blk_nums = 2
    <3>1. /\ write_pos' = [blk |-> 0, slot |-> 1] /\ clean_blk_nums' = 1
          /\ hdr' = [hdr EXCEPT ![0] = "USED"] /\ blk_state' = [blk_state EXCEPT ![0] = "USED"]
      BY <2>1 DEF BootDone, Start, SetHeader, SetState
    <3>2. hdr[0] = "CLEAN" /\ hdr[1] = "CLEAN" /\ blk_space[0] = Cap
      BY <1>1, <1>2, <1>3, <2>1 DEF Ready
    <3>3. Cap + 1 - blk_space[0] = 1
      BY <3>2
    <3>4. QED
      BY <1>3, <3>1, <3>2, <3>3 DEF Other
  <2>2. CASE clean_blk_nums # 2
    <3>1. /\ write_pos' = IF InUse = {} THEN write_pos
                          ELSE BehindRecords(IF 0 \in InUse THEN 0 ELSE 1)
          /\ UNCHANGED <<hdr, blk_state, clean_blk_nums>>
      BY <2>2 DEF BootDone
    <3>2. PICK b \in Blocks : /\ hdr[b] \in {"USED", "DIRTY"} /\ hdr[Other(b)] = "CLEAN"
                              /\ clean_blk_nums = 1
      BY <1>1, <1>2, <1>3, <2>2 DEF Other, BlkStates
    <3>3. InUse = {b}
      BY <1>3, <3>2 DEF InUse, Other
    <3>4. blk_space[b] \in 1..Cap
      BY <1>2 DEF Ready
    <3>5. write_pos' = [blk |-> b, slot |-> Cap + 1 - blk_space[b]]
      BY <3>1, <3>3, <3>4 DEF BehindRecords
    <3>6. QED
      BY <1>3, <3>1, <3>2, <3>5
  <2>3. QED
    BY <2>1, <2>2
<1>5. blk_space[b] \in 1..Cap /\ Filled(b, Cap + 1 - blk_space[b])
  BY <1>2 DEF Ready
<1>6. TypeOK'
  <2>1. hdr' \in [Blocks -> BlkStates \cup {"BAD"}] /\ blk_state' \in [Blocks -> BlkStates \cup {"NONE"}]
    BY <1>3, <1>4 DEF BlkStates
  <2>2. write_pos' \in [blk : Blocks, slot : 0..Cap]
    BY <1>4, <1>5
  <2>3. gc_triggered' \in BOOLEAN
    BY DEF BootDone
  <2>4. QED
    BY <1>1, <1>4, <2>1, <2>2, <2>3 DEF TypeOK, PCs, NoPos
<1>7. Contiguous' /\ CursorInBlock' /\ OldRecord'
  BY <1>1 DEF Contiguous, Filled, CursorInBlock, OldRecord
<1>8. Running' /\ OneReserve'
  <2>1. Behind(b, Cap + 1 - blk_space[b])'
    BY <1>1, <1>4, <1>5 DEF Behind, Filled
  <2>2. PICK c \in Blocks : c = Other(b) /\ c # b
    BY DEF Other
  <2>3. hdr'[c] = "CLEAN" /\ Empty(c)'
    <3>1. blk_space[c] = Cap /\ Filled(c, Cap + 1 - blk_space[c])
      BY <1>1, <1>2, <1>3, <1>4, <2>2 DEF Ready
    <3>2. Cap + 1 - blk_space[c] = 1
      BY <3>1
    <3>3. Filled(c, 1)'
      BY <1>1, <3>1, <3>2 DEF Filled
    <3>4. QED
      BY <1>1, <1>3, <1>4, <2>2, <3>1, <3>3 DEF Empty
  <2>4. Cap + 1 - blk_space'[b] \in 1..Cap
    BY <1>1, <1>5
  <2>5. QED
    BY <1>1, <1>4, <2>1, <2>2, <2>3, <2>4 DEF Running, OneReserve
<1>9. Collecting' /\ Starting'
  BY <1>1 DEF Collecting, Starting, GcPCs, BootPCs
<1>10. QED
  BY <1>6, <1>7, <1>8, <1>9

\* Whatever a loss of power leaves in the slots, as long as they are filled in
\* order.
LEMMA PowerLossStep ==
    ASSUME IInv, PowerLoss, UNCHANGED hdr, ItemType', Contiguous'
    PROVE  IInv'
<1> USE ConstantsAssumption DEF Blocks, Slots, IInv
<1>1. /\ pc' = "off" /\ crashes' = crashes + 1 /\ crashes < MaxCrash
      /\ req' = NoReq /\ ret' = "none" /\ cur' = NoPos /\ old' = NoPos /\ unclean' = {}
      /\ blk_state' = [b \in Blocks |-> "NONE"] /\ blk_space' = [b \in Blocks |-> 0]
      /\ clean_blk_nums' = 0 /\ write_pos' = NoPos /\ gc_triggered' = FALSE
  BY DEF PowerLoss, ResetRam
<1>2. TypeOK'
  <2>1. gc_triggered' \in BOOLEAN /\ pc' \in PCs
    BY <1>1 DEF PCs
  <2>2. crashes' \in 0..MaxCrash
    BY <1>1 DEF TypeOK
  <2>3. QED
    BY <1>1, <2>1, <2>2 DEF TypeOK, NoPos, ItemType
<1>3. CursorInBlock' /\ OldRecord' /\ OneReserve'
  BY <1>1 DEF CursorInBlock, OldRecord, OneReserve
<1>4. Running' /\ Collecting' /\ Starting'
  BY <1>1 DEF Running, RunPCs, Collecting, GcPCs, Starting, BootPCs
<1>5. QED
  BY <1>2, <1>3, <1>4

LEMMA CrashStep == ASSUME IInv, Crash PROVE IInv'
<1>1. ItemType' /\ Contiguous'
  BY DEF IInv, TypeOK, ItemType, Crash, Contiguous, Filled, flash
<1>2. QED
  BY <1>1, PowerLossStep DEF Crash, flash

LEMMA CutStoreStep == ASSUME IInv, CutStore PROVE IInv'
<1> USE ConstantsAssumption DEF Blocks, Slots, IInv
<1>1. /\ pc = "store" /\ pc \in RunPCs /\ req \in Request /\ req.op = "set"
  BY DEF CutStore, RunPCs, OldRecord
<1>2. PICK b \in Blocks, s \in 1..Cap : Behind(b, s) /\ Empty(Other(b))
  BY <1>1 DEF Running
<1>3. s \in 1..(Cap - 1)
  BY <1>2 DEF CutStore, HasRoom, Behind
<1>4. NewItem(FALSE) \in Item
  <2>1. req \in [op : {"set"}, key : Keys, val : Vals]
    BY <1>1 DEF Request
  <2>2. QED
    BY <2>1 DEF TypeOK, Item, NewItem
<1>5. PICK i \in Item \cup {Torn} : WriteItem([blk |-> b, slot |-> s], i)
  BY <1>2, <1>4 DEF CutStore, Behind
<1>6. ItemType' /\ Contiguous'
  <2>1. ItemType /\ Filled(b, s)
    BY <1>2 DEF TypeOK, ItemType, Behind
  <2>2. /\ ItemType' /\ Filled(b, s + 1)'
        /\ \A c \in Blocks : \A e : c # b => (Filled(c, e)' <=> Filled(c, e))
    BY <1>3, <1>5, <2>1, WriteSlot
  <2>3. s + 1 \in 1..Cap
    BY <1>3
  <2>4. QED
    BY <2>2, <2>3 DEF Contiguous
<1>7. QED
  BY <1>6, PowerLossStep DEF CutStore

LEMMA CutCopyStep == ASSUME IInv, CutCopy PROVE IInv'
<1> USE ConstantsAssumption DEF Blocks, Slots, IInv
<1>1. pc = "gc_copy" /\ ~AtEnd /\ Normal(cur.blk, cur.slot)
  BY DEF CutCopy
<1>2. PICK src \in Blocks : src = cur.blk
  BY DEF TypeOK
<1>3. PICK s \in 1..Cap : Behind(Other(src), s) /\ s <= cur.slot
  BY <1>1, <1>2 DEF Collecting, GcPCs
<1>4. PICK b \in Blocks : b = Other(src)
  BY DEF Other
<1>5. s \in 1..(Cap - 1)
  <2>1. PICK e \in 1..Cap : cur.slot \in 1..e /\ cur.slot + 1 \in 1..e
    BY <1>1, CursorAdvances
  <2>2. QED
    BY <1>3, <2>1
<1>6. At(cur) \in Item /\ [At(cur) EXCEPT !.crc = FALSE] \in Item
  <2>1. At(cur) \in Item
    BY <1>1, CursorAdvances DEF Normal, IsItem, At, TypeOK
  <2>2. QED
    BY <2>1 DEF Item
<1>7. PICK i \in Item \cup {Torn} : WriteItem([blk |-> b, slot |-> s], i)
  BY <1>3, <1>4, <1>6 DEF CutCopy, Behind
<1>8. ItemType' /\ Contiguous'
  <2>1. ItemType /\ Filled(b, s)
    BY <1>3, <1>4 DEF TypeOK, ItemType, Behind
  <2>2. /\ ItemType' /\ Filled(b, s + 1)'
        /\ \A c \in Blocks : \A e : c # b => (Filled(c, e)' <=> Filled(c, e))
    BY <1>5, <1>7, <2>1, WriteSlot
  <2>3. s + 1 \in 1..Cap
    BY <1>5
  <2>4. QED
    BY <2>2, <2>3 DEF Contiguous
<1>9. QED
  BY <1>8, PowerLossStep DEF CutCopy

-----------------------------------------------------------------------------
(* The theorems *)

LEMMA NextIInv == IInv /\ [Next]_vars => IInv'
<1> SUFFICES ASSUME IInv, [Next]_vars PROVE IInv'
  OBVIOUS
<1>1. CASE Calls
  <2>1. ASSUME NEW r \in Request, Call(r) PROVE IInv'
    BY <2>1, CallStep
  <2>2. QED
    BY <1>1, <2>1, ConstantsAssumption
       DEF Calls, CallSet, CallGet, CallDel, CallDelMatching, CallFactory, Request
<1>2. CASE Boot
  BY <1>2, PowerOnStep, BootReadStep, ScanEraseStep, ScanHeaderStep, BootRecoverStep,
     BootMarkStep, BootPassStep, BootNextBlockStep, BootKeepStep, BootDropStep,
     LastEraseStep, LastHeaderStep, BootDoneStep DEF Boot
<1>3. CASE Gc
  BY <1>3, GcSkipStep, GcStartStep, GcCopyStep, GcPassStep, GcCopiedStep, GcEraseStep,
     GcHeaderStep, GcUsedStep DEF Gc
<1>4. CASE Op
  BY <1>4, FindStep, StoreStep, StoreNoSpaceStep, DelItemStep, MarkItemBlockStep,
     BulkDeleteStep, BulkMarkStep, BulkPassStep, BulkNextBlockStep, Factory0Step,
     Factory1Step, ReturnStep DEF Op
<1>5. CASE Failure
  BY <1>5, CrashStep, CutStoreStep, CutCopyStep DEF Failure
<1>6. CASE UNCHANGED vars
  <2>1. Contiguous' /\ TypeOK' /\ OneReserve' /\ CursorInBlock' /\ OldRecord'
    BY <1>6 DEF vars, IInv, TypeOK, Contiguous, Filled, OneReserve, CursorInBlock,
                OldRecord, IsItem
  <2>2. Running' /\ Collecting'
    BY <1>6 DEF vars, IInv, Running, Collecting, Behind, Empty, Filled
  <2>3. Starting'
    BY <1>6 DEF vars, IInv, Starting, Scanned, Formatted, Counted, CleanBlocks, Known,
                Ready, Unread, Filled
  <2>4. QED
    BY <2>1, <2>2, <2>3 DEF IInv
<1>7. QED
  BY <1>1, <1>2, <1>3, <1>4, <1>5, <1>6 DEF Next, Step

\* The inductive invariant: how flash and RAM agree between any two flash
\* writes of kvmgr.c, whatever the number of keys, values, slots and power
\* failures.
THEOREM Inductive == Spec => []IInv
<1>1. Init => IInv
  BY InitIInv
<1>2. IInv /\ [Next]_vars => IInv'
  BY NextIInv
<1>3. QED
  BY <1>1, <1>2, PTL DEF Spec

\* Every variable of kvmgr.c stays in its type: block_info.space does not run
\* below zero, and write_pos stays in the block that is in use.
THEOREM TypeCorrect == Spec => []TypeOK
<1>1. IInv => TypeOK
  BY DEF IInv
<1>2. QED
  BY <1>1, Inductive, PTL

\* Between calls the RAM copy of the block states, the free space and write_pos
\* is what the flash says, and one block is clean.
THEOREM MirroredAlways == Spec => []Mirrored
<1>1. IInv => Mirrored
  <2> USE ConstantsAssumption DEF Blocks, Slots
  <2>1. SUFFICES ASSUME IInv, pc = "idle" PROVE Mirrored
    BY DEF Mirrored
  <2>2. /\ blk_state = hdr /\ clean_blk_nums = 1
    BY <2>1 DEF IInv, Running, RunPCs
  <2>3. PICK b \in Blocks, s \in 1..Cap :
              /\ hdr[b] \in {"USED", "DIRTY"} /\ Behind(b, s)
              /\ hdr[Other(b)] = "CLEAN" /\ Empty(Other(b))
    BY <2>1 DEF IInv, Running, RunPCs
  <2>4. PICK c \in Blocks : c = Other(b) /\ \A x \in Blocks : x = b \/ x = c
    BY DEF Other
  <2>5. blk_state[c] = "CLEAN" /\ blk_space[c] = Cap /\ \A t \in Slots : item[c][t] = Erased
    BY <2>2, <2>3, <2>4 DEF Empty, Filled
  <2>6. /\ blk_state[b] # "CLEAN" /\ write_pos = [blk |-> b, slot |-> Cap + 1 - blk_space[b]]
        /\ \A t \in Slots : item[b][t] = Erased <=> t >= write_pos.slot
    BY <2>2, <2>3 DEF Behind, Filled
  <2>7. QED
    BY <2>2, <2>4, <2>5, <2>6 DEF Mirrored
<1>2. QED
  BY <1>1, Inductive, PTL

\* At no moment, not even between the writes of a collection or of a start, do
\* both block headers say that the block is in use.
THEOREM ReserveAlways == Spec => []OneReserve
<1>1. IInv => OneReserve
  BY DEF IInv
<1>2. QED
  BY <1>1, Inductive, PTL

-----------------------------------------------------------------------------
(* What every step does to the flash *)

LEMMA HeadersOnly ==
    ASSUME TypeOK, UNCHANGED item,
           \A b \in Blocks : \/ hdr'[b] = hdr[b]
                             \/ hdr'[b] = "BAD"
                             \/ hdr[b] = "USED" /\ hdr'[b] = "DIRTY"
                             \/ hdr[b] = "CLEAN" /\ hdr'[b] \in {"USED", "DIRTY"}
                             \/ hdr[b] = "BAD" /\ Filled(b, 1) /\ hdr'[b] = "CLEAN"
    PROVE  Disciplined
<1>1. \A b \in Blocks : hdr[b] \in {"CLEAN", "USED", "DIRTY", "BAD"}
  BY DEF TypeOK, BlkStates
<1>2. \A b \in Blocks : Filled(b, 1) => ErasedBlock(item[b])
  BY ConstantsAssumption DEF Filled, ErasedBlock, Slots
<1>3. \A b \in Blocks : \/ Rank(hdr'[b]) <= Rank(hdr[b])
                        \/ hdr[b] = "BAD" /\ ErasedBlock(item[b]) /\ hdr'[b] = "CLEAN"
  BY <1>1, <1>2 DEF Rank
<1>4. QED
  BY <1>3 DEF Disciplined, ProgramsBits

LEMMA SlotsOnly ==
    ASSUME TypeOK, UNCHANGED hdr,
           \A b \in Blocks, s \in Slots :
              \/ item'[b][s] = item[b][s]
              \/ item[b][s] = Erased
              \/ Normal(b, s) /\ item'[b][s] = [item[b][s] EXCEPT !.state = "DELETE"]
    PROVE  Disciplined
<1>1. \A b \in Blocks : hdr[b] \in {"CLEAN", "USED", "DIRTY", "BAD"}
  BY DEF TypeOK, BlkStates
<1>2. \A b \in Blocks : Rank(hdr'[b]) <= Rank(hdr[b])
  BY <1>1 DEF Rank
<1>3. QED
  BY <1>2 DEF Disciplined, ProgramsBits

\* A block that is USED in RAM while a traversal runs is USED in the flash.
LEMMA UsedIsKnown ==
    ASSUME IInv, NEW b \in Blocks, blk_state[b] = "USED",
           pc \in RunPCs \cup {"gc_copy", "boot_item", "boot_mark"}
    PROVE  hdr[b] = "USED"
<1> USE DEF IInv
<1>1. CASE pc \in RunPCs
  BY <1>1 DEF Running
<1>2. CASE pc = "gc_copy"
  <2>1. PICK c \in Blocks : c = cur.blk
    BY DEF TypeOK
  <2>2. blk_state[c] = "DIRTY" /\ blk_state[Other(c)] = "CLEAN"
    BY <1>2, <2>1 DEF Collecting, GcPCs
  <2>3. QED
    BY <2>2 DEF Blocks, Other
<1>3. CASE pc \in {"boot_item", "boot_mark"}
  <2>1. blk_state[b] # "NONE"
    OBVIOUS
  <2>2. QED
    BY <1>3, <2>1 DEF Starting, BootPCs, Ready, Unread, Known, Formatted, LastPCs
<1>4. QED
  BY <1>1, <1>2, <1>3

LEMMA MarkDisciplined ==
    ASSUME IInv, UNCHANGED item, pc \in RunPCs \cup {"gc_copy", "boot_item", "boot_mark"},
           NEW B \in SUBSET Blocks, \A b \in B : blk_state[b] = "USED",
           \A b \in Blocks : hdr'[b] = IF b \in B THEN "DIRTY" ELSE hdr[b]
    PROVE  Disciplined
<1>1. \A b \in B : hdr[b] = "USED"
  BY UsedIsKnown
<1>2. QED
  BY <1>1, HeadersOnly DEF IInv

LEMMA DeleteDisciplined ==
    ASSUME IInv, NEW p \in Pos, IsItem(p.blk, p.slot), Delete(p), UNCHANGED hdr
    PROVE  Disciplined
<1>1. item' = [item EXCEPT ![p.blk][p.slot].state = "DELETE"]
  BY DEF Delete
<1>2. item[p.blk][p.slot] \in Item
  BY DEF IInv, TypeOK, IsItem, Pos
<1>3. \A b \in Blocks, s \in Slots :
         b # p.blk \/ s # p.slot => item'[b][s] = item[b][s]
  BY <1>1 DEF IInv, TypeOK
<1>4. item'[p.blk][p.slot] = [item[p.blk][p.slot] EXCEPT !.state = "DELETE"]
  BY <1>1 DEF IInv, TypeOK, Pos
<1>5. CASE Normal(p.blk, p.slot)
  BY <1>3, <1>4, <1>5, SlotsOnly DEF IInv
<1>6. CASE ~Normal(p.blk, p.slot)
  <2>1. item[p.blk][p.slot].state = "DELETE"
    BY <1>2, <1>6 DEF Normal, Item
  <2>2. item'[p.blk][p.slot] = item[p.blk][p.slot]
    BY <1>2, <1>4, <2>1 DEF Item
  <2>3. QED
    BY <1>3, <2>2, SlotsOnly DEF IInv
<1>7. QED
  BY <1>5, <1>6

LEMMA WriteDisciplined ==
    ASSUME IInv, NEW b \in Blocks, NEW s \in Slots, Behind(b, s), NEW i, WriteItem(write_pos, i),
           UNCHANGED hdr
    PROVE  Disciplined
<1>1. item[b][s] = Erased /\ item' = [item EXCEPT ![b][s] = i]
  BY ConstantsAssumption DEF Behind, Filled, WriteItem, Slots
<1>2. \A c \in Blocks, t \in Slots : item'[c][t] = item[c][t] \/ item[c][t] = Erased
  BY <1>1 DEF IInv, TypeOK
<1>3. QED
  BY <1>2, SlotsOnly DEF IInv

LEMMA StepDisciplined == IInv /\ [Next]_vars => [Disciplined]_flash
<1> USE DEF IInv
<1> SUFFICES ASSUME IInv, Next, ~UNCHANGED flash PROVE Disciplined
  BY DEF vars, flash
<1>2. CASE GcErase \/ ScanErase \/ LastErase
  <2>1. PICK b \in Blocks : b = cur.blk
    BY DEF TypeOK
  <2>2. EraseBlock(b)
    BY <1>2, <2>1 DEF GcErase, ScanErase, LastErase
  <2>3. ErasedBlock(item'[b]) /\ hdr'[b] = "BAD"
    BY <2>2 DEF EraseBlock, SetHeader, ErasedBlock, TypeOK
  <2>4. \A c \in Blocks : c # b => item'[c] = item[c] /\ hdr'[c] = hdr[c]
    BY <2>2 DEF EraseBlock, SetHeader, TypeOK
  <2>5. \A c \in Blocks : hdr[c] \in {"CLEAN", "USED", "DIRTY", "BAD"}
    BY DEF TypeOK, BlkStates
  <2>6. \A c \in Blocks : c # b => ProgramsBits(c)
    BY <2>4, <2>5 DEF ProgramsBits, Rank
  <2>7. QED
    BY <2>3, <2>6 DEF Disciplined
<1>3. CASE GcHeader \/ ScanHeader \/ LastHeader
  <2>1. PICK b \in Blocks : b = cur.blk
    BY DEF TypeOK
  <2>2. hdr' = [hdr EXCEPT ![b] = "CLEAN"] /\ UNCHANGED item
    BY <1>3, <2>1 DEF GcHeader, ScanHeader, LastHeader, WriteCleanHeader, SetHeader
  <2>3. hdr[b] = "BAD" /\ Filled(b, 1)
    BY <1>3, <2>1 DEF GcHeader, ScanHeader, LastHeader, Collecting, GcPCs, Starting, BootPCs
  <2>4. QED
    BY <2>2, <2>3, HeadersOnly DEF TypeOK
<1>4. CASE FindHit \/ FindMiss
  <2>1. pc \in RunPCs /\ UNCHANGED item
    BY <1>4 DEF FindHit, FindMiss, RunPCs
  <2>2. PICK B \in SUBSET Blocks : MarkDirty(B) /\ \A b \in B : blk_state[b] = "USED"
    <3>1. PICK found : Traverse(found)
      BY <1>4 DEF FindHit, FindMiss
    <3>2. PICK B : /\ B = {b \in Traversed(found) : blk_state[b] = "USED" /\ PassedInvalid(b, found)}
                   /\ MarkDirty(B)
      BY <3>1 DEF Traverse
    <3>3. B \in SUBSET Blocks /\ \A b \in B : blk_state[b] = "USED"
      BY <3>2 DEF Traversed
    <3>4. QED
      BY <3>2, <3>3
  <2>3. QED
    BY <2>1, <2>2, MarkDisciplined DEF MarkDirty
<1>5. CASE BulkPass \/ GcPass \/ BootPass
  <2>1. pc \in RunPCs \cup {"gc_copy", "boot_item", "boot_mark"} /\ UNCHANGED item
    BY <1>5 DEF BulkPass, GcPass, BootPass, RunPCs
  <2>2. PICK B \in SUBSET Blocks : MarkDirty(B) /\ \A b \in B : blk_state[b] = "USED"
    BY <1>5 DEF BulkPass, GcPass, BootPass, PassInvalid, TypeOK
  <2>3. QED
    BY <2>1, <2>2, MarkDisciplined DEF MarkDirty
<1>6. CASE MarkItemBlock \/ BulkMark \/ BootMark
  <2>1. /\ pc \in RunPCs \cup {"gc_copy", "boot_item", "boot_mark"} /\ UNCHANGED item
        /\ old \in Pos /\ blk_state[old.blk] = "USED" /\ MarkOld
    BY <1>6 DEF MarkItemBlock, BulkMark, BootMark, RunPCs, OldRecord
  <2>2. PICK b \in Blocks : b = old.blk
    BY <2>1 DEF Pos
  <2>3. PICK B \in SUBSET Blocks : B = {b}
    OBVIOUS
  <2>4. /\ \A c \in B : blk_state[c] = "USED"
        /\ \A c \in Blocks : hdr'[c] = IF c \in B THEN "DIRTY" ELSE hdr[c]
    BY <2>1, <2>2, <2>3 DEF MarkOld, SetHeader, TypeOK
  <2>5. QED
    BY <2>1, <2>4, MarkDisciplined
<1>7. CASE DelItem \/ BulkDelete \/ BootRecover
  <2>1. PICK p \in Pos : IsItem(p.blk, p.slot) /\ Delete(p) /\ UNCHANGED hdr
    <3>1. CASE DelItem
      BY <3>1 DEF DelItem, OldRecord
    <3>2. CASE BulkDelete
      <4>1. Delete(cur) /\ UNCHANGED hdr /\ Normal(cur.blk, cur.slot) /\ pc = "bulk" /\ ~AtEnd
        BY <3>2 DEF BulkDelete, flash
      <4>2. cur \in Pos
        BY <4>1, CursorAdvances DEF TypeOK, Pos
      <4>3. QED
        BY <4>1, <4>2 DEF Normal
    <3>3. CASE BootRecover
      <4>1. PICK p \in Recovered(cur) : Delete(p) /\ UNCHANGED hdr
        BY <3>3 DEF BootRecover, flash
      <4>2. cur \in Pos /\ Normal(cur.blk, cur.slot)
        BY <3>3, CursorAdvances DEF BootRecover, TypeOK, Pos
      <4>3. At(cur) \in Item
        BY <4>2 DEF TypeOK, Pos, Normal, IsItem, At
      <4>4. p \in Pos /\ IsItem(p.blk, p.slot)
        BY <4>2, <4>3 DEF Recovered, Item, Normal
      <4>5. QED
        BY <4>1, <4>4
    <3>4. QED
      BY <1>7, <3>1, <3>2, <3>3
  <2>2. QED
    BY <2>1, DeleteDisciplined
<1>8. CASE Store \/ CutStore \/ GcCopy \/ CutCopy
  <2>1. PICK b \in Blocks, s \in 1..Cap : Behind(b, s)
    <3>1. CASE pc = "store"
      BY <3>1 DEF Running, RunPCs
    <3>2. CASE pc = "gc_copy"
      <4>1. PICK c \in Blocks : c = Other(cur.blk)
        BY DEF TypeOK, Other, Blocks
      <4>2. PICK s \in 1..Cap : Behind(c, s)
        BY <3>2, <4>1 DEF Collecting, GcPCs
      <4>3. QED
        BY <4>2
    <3>3. QED
      BY <1>8, <3>1, <3>2 DEF Store, CutStore, GcCopy, CutCopy
  <2>2. PICK i : WriteItem(write_pos, i) /\ UNCHANGED hdr
    BY <1>8 DEF Store, CutStore, GcCopy, CutCopy
  <2>3. QED
    BY <2>1, <2>2, WriteDisciplined DEF Slots
<1>9. CASE GcUsed
  <2>1. PICK b \in Blocks : b = Other(cur.blk)
    BY DEF TypeOK, Other, Blocks
  <2>2. hdr[b] = "CLEAN" /\ write_pos.blk = b
    BY <1>9, <2>1 DEF GcUsed, Collecting, GcPCs, Behind
  <2>3. QED
    BY <1>9, <2>2, HeadersOnly DEF GcUsed, SetHeader, TypeOK
<1>10. CASE BootKeep
  <2>1. PICK b \in unclean : hdr' = [hdr EXCEPT ![b] = "DIRTY"] /\ UNCHANGED item
    BY <1>10 DEF BootKeep, SetHeader
  <2>2. b \in Blocks /\ hdr[b] = "CLEAN"
    BY <1>10, AllScanned DEF BootKeep, TypeOK, Ready, Known
  <2>3. QED
    BY <2>1, <2>2, HeadersOnly DEF TypeOK
<1>11. CASE BootDone
  <2>1. clean_blk_nums = 2 /\ hdr' = [hdr EXCEPT ![0] = "USED"] /\ UNCHANGED item
    BY <1>11 DEF BootDone, SetHeader, flash
  <2>2. blk_state[0] = "CLEAN" /\ Ready(0)
    BY <1>11, <2>1, AllScanned DEF BootDone, CleanBlocks, Blocks
  <2>3. hdr[0] = "CLEAN"
    BY <2>2 DEF Ready, Known
  <2>4. QED
    BY <2>1, <2>3, HeadersOnly DEF TypeOK
<1>12. CASE Factory0 \/ Factory1
  BY <1>12, HeadersOnly DEF Factory0, Factory1, SetHeader, TypeOK
<1>13. ~(Calls \/ Return \/ StoreNoSpace \/ BulkNextBlock \/ GcSkip \/ GcStart \/ GcCopied
         \/ PowerOn \/ BootRead \/ BootNextBlock \/ BootDrop \/ Crash)
  BY DEF Calls, CallSet, CallGet, CallDel, CallDelMatching, CallFactory, Call, Return,
              StoreNoSpace, BulkNextBlock, GcSkip, GcStart, GcCopied, PowerOn, BootRead,
              BootNextBlock, BootDrop, Crash
<1>14. QED
  BY <1>2, <1>3, <1>4, <1>5, <1>6, <1>7, <1>8, <1>9, <1>10, <1>11, <1>12, <1>13
     DEF Next, Step, Boot, Gc, Op, Failure

\* Every step of kvmgr.c writes to the flash as a flash can be written: records
\* go in erased slots, a written record is at most deleted, a header's state
\* loses bits, and a header is made clean again on an erased block only.
THEOREM DisciplineAlways == Spec => FlashDiscipline
<1>1. IInv /\ [Next]_vars => [Disciplined]_flash
  BY StepDisciplined
<1>2. QED
  BY <1>1, Inductive, PTL DEF Spec, FlashDiscipline

-----------------------------------------------------------------------------
(* What the flash writes do to each slot *)

LEMMA DeleteEffect ==
    ASSUME TypeOK, NEW p \in Pos, IsItem(p.blk, p.slot), Delete(p)
    PROVE  /\ \A b \in Blocks, s \in Slots :
                 IF b = p.blk /\ s = p.slot THEN item'[b][s] # Erased /\ ~Normal(b, s)'
                                            ELSE item'[b][s] = item[b][s]
           /\ old' = p
<1> USE DEF TypeOK, Delete, IsItem, Pos
<1>1. item[p.blk][p.slot] \in Item
  OBVIOUS
<1>2. [item[p.blk][p.slot] EXCEPT !.state = "DELETE"] \in Item
  BY <1>1 DEF Item
<1>3. item'[p.blk][p.slot] = [item[p.blk][p.slot] EXCEPT !.state = "DELETE"]
  OBVIOUS
<1>4. item'[p.blk][p.slot].state = "DELETE"
  BY <1>1, <1>3 DEF Item
<1>5. item'[p.blk][p.slot] # Erased /\ ~Normal(p.blk, p.slot)'
  BY <1>2, <1>3, <1>4, ConstantsAssumption DEF Normal
<1>6. \A b \in Blocks, s \in Slots :
         (b # p.blk \/ s # p.slot) => item'[b][s] = item[b][s]
  OBVIOUS
<1>7. QED
  BY <1>5, <1>6

LEMMA EraseEffect ==
    ASSUME TypeOK, NEW b \in Blocks, EraseBlock(b)
    PROVE  /\ \A c \in Blocks, s \in Slots :
                 item'[c][s] = IF c = b THEN Erased ELSE item[c][s]
           /\ \A c \in Blocks : hdr'[c] = IF c = b THEN "BAD" ELSE hdr[c]
BY DEF TypeOK, EraseBlock, SetHeader

LEMMA WriteEffect ==
    ASSUME TypeOK, NEW b \in Blocks, NEW s \in Slots, Behind(b, s), NEW i, WriteItem(write_pos, i)
    PROVE  /\ \A c \in Blocks, t \in Slots :
                 item'[c][t] = IF c = b /\ t = s THEN i ELSE item[c][t]
           /\ item[b][s] = Erased
<1>1. item[b][s] = Erased /\ item' = [item EXCEPT ![b][s] = i]
  BY ConstantsAssumption DEF Behind, Filled, WriteItem, Slots
<1>2. QED
  BY <1>1 DEF TypeOK

\* A record is neither erased nor torn.
LEMMA RecordNormal ==
    ASSUME NEW b \in Blocks, NEW s \in Slots, item[b][s] \in Item, item[b][s].state = "NORMAL"
    PROVE  Normal(b, s)
BY ConstantsAssumption DEF Normal, IsItem

LEMMA OthersBlock == \A b \in Blocks : /\ Other(b) \in Blocks /\ Other(b) # b /\ Other(Other(b)) = b
                                       /\ \A c \in Blocks : c = b \/ c = Other(b)
BY DEF Blocks, Other

\* What is erased behind a filled part needs no tidying.
LEMMA TidyToEnd ==
    ASSUME NEW b \in Blocks, NEW e \in 1..Cap, Filled(b, e), Tidy(b, e)
    PROVE  Tidy(b, Cap + 1)
BY ConstantsAssumption DEF Filled, Tidy, Slots

LEMMA TidyKept ==
    ASSUME NEW b \in Blocks, NEW c, Tidy(b, c),
           \A s \in Slots : item'[b][s] \in {item[b][s], Erased} \/ Normal(b, s)'
    PROVE  Tidy(b, c)'
BY DEF Tidy, Normal, IsItem

LEMMA EmptyIsTidy ==
    ASSUME NEW b \in Blocks, Filled(b, 1), NEW c
    PROVE  Tidy(b, c)
BY ConstantsAssumption DEF Filled, Tidy, Slots

-----------------------------------------------------------------------------
(* No garbage in a USED block *)

\* Steps of a call that write no record.
LEMMA SweptMarked ==
    ASSUME Swept, pc \in RunPCs, pc' \in RunPCs, UNCHANGED item,
           \A b \in Blocks : hdr'[b] = "USED" => hdr[b] = "USED" /\ ~Marking(b)
    PROVE  Swept'
<1>1. \A b \in Blocks : hdr'[b] = "USED" => Tidy(b, Cap + 1)'
  BY DEF Swept, Tidy, Normal, IsItem
<1>2. QED
  BY <1>1 DEF Swept, RunPCs, BootPCs, Copying, GcPCs

\* A call that deletes a record marks the block next, if it is USED.
LEMMA SweptDelete ==
    ASSUME TypeOK, Swept, pc \in RunPCs, pc' \in RunPCs, UNCHANGED hdr,
           NEW p \in Pos, IsItem(p.blk, p.slot), Delete(p), \A b \in Blocks : ~Marking(b),
           hdr[p.blk] = "USED" => pc' \in {"mark", "bulk_mark"}
    PROVE  Swept'
<1>1. ASSUME NEW b \in Blocks, hdr'[b] = "USED"
      PROVE  Tidy(b, Cap + 1)' \/ Marking(b)'
  <2>1. CASE b = p.blk
    BY <1>1, <2>1, DeleteEffect DEF Marking
  <2>2. CASE b # p.blk
    <3>1. \A s \in Slots : item'[b][s] = item[b][s]
      BY <2>2, DeleteEffect
    <3>2. QED
      BY <1>1, <3>1 DEF Swept, Tidy, Normal, IsItem
  <2>3. QED
    BY <2>1, <2>2
<1>2. QED
  BY <1>1 DEF Swept, RunPCs, BootPCs, Copying, GcPCs

LEMMA SweptTraverse ==
    ASSUME IInv, Swept, pc \in RunPCs, pc' \in RunPCs, UNCHANGED item, \A b \in Blocks : ~Marking(b),
           NEW B, MarkDirty(B)
    PROVE  Swept'
<1>1. \A b \in Blocks : hdr'[b] = "USED" => hdr[b] = "USED"
  BY DEF MarkDirty
<1>2. QED
  BY <1>1, SweptMarked

LEMMA SweptStore == ASSUME IInv, Swept, Store PROVE Swept'
<1> USE DEF IInv
<1>1. /\ pc = "store" /\ pc \in RunPCs /\ pc' \in RunPCs
      /\ UNCHANGED hdr /\ WriteItem(write_pos, NewItem(TRUE))
      /\ req \in Request /\ req.op = "set"
  BY DEF Store, RunPCs, OldRecord
<1>2. PICK b \in Blocks, s \in Slots : Behind(b, s)
  BY <1>1 DEF Running, Slots
<1>3. PICK i : WriteItem(write_pos, i) /\ i \in Item /\ i.state = "NORMAL"
  <2>1. NewItem(TRUE) \in Item /\ NewItem(TRUE).state = "NORMAL"
    BY <1>1 DEF Request, TypeOK, Item, NewItem
  <2>2. QED
    BY <1>1, <2>1 DEF WriteItem
<1>5. \A c \in Blocks, t \in Slots :
         item'[c][t] = IF c = b /\ t = s THEN i ELSE item[c][t]
  BY <1>2, <1>3, WriteEffect
<1>6. \A c \in Blocks : hdr'[c] = "USED" => Tidy(c, Cap + 1)'
  <2>1. \A c \in Blocks, t \in Slots : item'[c][t] = item[c][t] \/ Normal(c, t)'
    BY <1>3, <1>5, ConstantsAssumption DEF Normal, IsItem
  <2>2. \A c \in Blocks : hdr'[c] = "USED" => Tidy(c, Cap + 1)
    BY <1>1 DEF Swept, Marking
  <2>3. QED
    BY <2>1, <2>2, TidyKept
<1>7. QED
  BY <1>1, <1>6 DEF Swept, RunPCs, BootPCs, Copying, GcPCs

\* The steps of a call.
LEMMA SweptCalls ==
    ASSUME IInv, Swept, Calls \/ Op
    PROVE  Swept'
<1> USE DEF IInv
<1>1. CASE Calls \/ Return \/ StoreNoSpace \/ BulkNextBlock
  <2>1. pc \in {"idle", "return", "store", "bulk"} /\ pc' \in RunPCs /\ UNCHANGED <<hdr, item>>
    BY <1>1 DEF Calls, CallSet, CallGet, CallDel, CallDelMatching, CallFactory, Call, Return,
                StoreNoSpace, BulkNextBlock, flash, RunPCs
  <2>2. QED
    BY <2>1, SweptMarked DEF RunPCs, Marking
<1>2. CASE FindHit \/ FindMiss \/ BulkPass
  <2>1. pc \in {"find", "bulk"} /\ pc' \in RunPCs /\ UNCHANGED item
    BY <1>2 DEF FindHit, FindMiss, BulkPass, RunPCs
  <2>2. PICK B : MarkDirty(B)
    BY <1>2 DEF FindHit, FindMiss, Traverse, BulkPass, PassInvalid
  <2>3. QED
    BY <2>1, <2>2, SweptTraverse DEF RunPCs, Marking
<1>3. CASE Store
  BY <1>3, SweptStore
<1>4. CASE DelItem
  <2>1. /\ pc = "del" /\ Delete(old) /\ UNCHANGED hdr /\ old \in Pos /\ IsItem(old.blk, old.slot)
        /\ pc' = IF blk_state[old.blk] = "USED" THEN "mark" ELSE AfterOp
    BY <1>4 DEF DelItem, AfterDelete, OldRecord
  <2>2. blk_state = hdr /\ pc' \in RunPCs
    BY <2>1 DEF Running, RunPCs, AfterOp
  <2>3. QED
    BY <2>1, <2>2, SweptDelete DEF RunPCs, Marking
<1>5. CASE MarkItemBlock \/ BulkMark
  <2>1. /\ pc \in {"mark", "bulk_mark"} /\ pc' \in RunPCs /\ UNCHANGED item
        /\ old \in Pos /\ MarkOld
    BY <1>5 DEF MarkItemBlock, BulkMark, AfterOp, RunPCs, OldRecord
  <2>2. \A b \in Blocks : hdr'[b] = "USED" => hdr[b] = "USED" /\ ~Marking(b)
    BY <2>1 DEF MarkOld, SetHeader, TypeOK, Marking, Pos
  <2>3. QED
    BY <2>1, <2>2, SweptMarked DEF RunPCs
<1>6. CASE BulkDelete
  <2>1. pc = "bulk" /\ ~AtEnd /\ Normal(cur.blk, cur.slot) /\ UNCHANGED <<hdr, blk_state>>
    BY <1>6 DEF BulkDelete, ram
  <2>2. cur \in Pos /\ IsItem(cur.blk, cur.slot) /\ blk_state = hdr
    BY <2>1, CursorAdvances DEF TypeOK, Pos, Normal, Running, RunPCs
  <2>3. CASE UNCHANGED <<item, old, pc>>
    BY <2>1, <2>3, SweptMarked DEF RunPCs, Marking
  <2>4. CASE Delete(cur) /\ AfterDelete(cur, "bulk_mark", "bulk")
    BY <2>1, <2>2, <2>4, SweptDelete DEF RunPCs, Marking, AfterDelete
  <2>5. QED
    BY <1>6, <2>3, <2>4 DEF BulkDelete
<1>7. CASE Factory0
  BY <1>7 DEF Factory0, Swept, RunPCs, BootPCs, Copying, GcPCs
<1>8. CASE Factory1
  BY <1>8 DEF Factory1, ResetRam, Swept, RunPCs, BootPCs, Copying, GcPCs
<1>9. QED
  BY <1>1, <1>2, <1>3, <1>4, <1>5, <1>6, <1>7, <1>8 DEF Op

\* The steps of a collection: its target stays tidy until it is used.
LEMMA SweptGc == ASSUME IInv, IInv', Swept, Gc PROVE Swept'
<1> USE DEF IInv
<1>1. CASE GcSkip
  <2>1. pc = "gc_start" /\ pc' = "return" /\ UNCHANGED <<hdr, item>>
    BY <1>1 DEF GcSkip, flash
  <2>2. QED
    BY <2>1, SweptMarked DEF RunPCs, Marking
<1>2. ASSUME Copying', NEW b \in Blocks, b = Other(cur'.blk), Tidy(b, Cap + 1)'
      PROVE  Swept'
  <2>1. Tidy(Other(cur.blk), Cap + 1)'
    BY <1>2 DEF Tidy, Normal, IsItem
  <2>2. QED
    BY <1>2, <2>1 DEF Swept, Copying, RunPCs, BootPCs, GcPCs
<1>3. CASE GcStart
  <2>1. Copying' /\ UNCHANGED <<hdr, item, blk_state>> /\ pc = "gc_start"
    BY <1>3 DEF GcStart, Copying, GcPCs, flash
  <2>2. PICK src \in Blocks : cur' = Start(src) /\ blk_state[src] = "DIRTY"
    BY <1>3 DEF GcStart, GcSources
  <2>3. PICK b \in Blocks : b = Other(src) /\ b = Other(cur'.blk)
    BY <2>2, OthersBlock DEF Start
  <2>4. Filled(b, 1)
    <3>1. PICK c \in Blocks, s \in 1..Cap : /\ hdr[c] \in {"USED", "DIRTY"} /\ hdr[Other(c)] = "CLEAN"
                                            /\ Empty(Other(c)) /\ blk_state = hdr
      BY <2>1 DEF Running, RunPCs
    <3>2. Other(c) = b
      BY <2>2, <2>3, <3>1, OthersBlock
    <3>3. QED
      BY <3>1, <3>2 DEF Empty
  <2>5. Tidy(b, Cap + 1)
    BY <2>4, EmptyIsTidy
  <2>6. Tidy(b, Cap + 1)'
    BY <2>1, <2>5, TidyKept
  <2>7. QED
    BY <1>2, <2>1, <2>3, <2>6
<1>4. PICK b \in Blocks : b = Other(cur.blk)
  BY OthersBlock DEF TypeOK
<1>5. b # cur.blk /\ cur.blk \in Blocks
  BY <1>4, OthersBlock DEF TypeOK
<1>6. CASE GcCopy
  <2>1. /\ pc = "gc_copy" /\ Copying /\ Copying' /\ ~AtEnd /\ Normal(cur.blk, cur.slot)
        /\ WriteItem(write_pos, At(cur)) /\ cur'.blk = cur.blk
    BY <1>6 DEF GcCopy, NextRecord, TypeOK, Copying, GcPCs
  <2>2. PICK s \in Slots : Behind(b, s)
    BY <1>4, <2>1 DEF Collecting, Copying, Slots
  <2>3. PICK i : i = At(cur)
    OBVIOUS
  <2>4. \A c \in Blocks, t \in Slots :
           item'[c][t] = IF c = b /\ t = s THEN i ELSE item[c][t]
    BY <2>1, <2>2, <2>3, WriteEffect
  <2>5. cur.slot \in Slots
    BY <2>1, CursorAdvances
  <2>6. i # Erased /\ i # Torn /\ i.state = "NORMAL"
    BY <2>1, <2>3 DEF Normal, IsItem, At
  <2>7. \A t \in Slots : item'[b][t] = item[b][t] \/ Normal(b, t)'
    BY <2>4, <2>6 DEF Normal, IsItem
  <2>8. Tidy(b, Cap + 1)'
    BY <1>4, <2>1, <2>7, TidyKept DEF Swept
  <2>9. QED
    BY <1>2, <1>4, <2>1, <2>8
<1>7. CASE GcPass \/ GcCopied \/ GcErase \/ GcHeader
  <2>1. Copying /\ Copying' /\ cur'.blk = cur.blk
    BY <1>7 DEF GcPass, PassInvalid, NextRecord, GcCopied, GcErase, GcHeader, TypeOK, Copying,
                GcPCs, context
  <2>2. \A t \in Slots : item'[b][t] = item[b][t]
    <3>1. CASE GcErase
      BY <1>5, <3>1, EraseEffect DEF GcErase
    <3>2. CASE GcPass \/ GcCopied \/ GcHeader
      BY <3>2 DEF GcPass, GcCopied, GcHeader, flash
    <3>3. QED
      BY <1>7, <3>1, <3>2
  <2>3. Tidy(b, Cap + 1)'
    BY <1>4, <2>1, <2>2, TidyKept DEF Swept
  <2>4. QED
    BY <1>2, <1>4, <2>1, <2>3
<1>8. CASE GcUsed
  <2>1. /\ pc = "gc_used" /\ Copying /\ pc' = "return" /\ UNCHANGED item
        /\ SetHeader(write_pos.blk, "USED")
    BY <1>8 DEF GcUsed, Copying, GcPCs
  <2>2. hdr[cur.blk] = "CLEAN" /\ write_pos.blk = b
    BY <1>4, <2>1 DEF Collecting, Copying, Behind
  <2>3. Tidy(b, Cap + 1)'
    BY <1>4, <2>1, TidyKept DEF Swept
  <2>4. \A c \in Blocks : hdr'[c] = "USED" => c = b
    BY <1>4, <1>5, <2>1, <2>2, OthersBlock DEF SetHeader, TypeOK
  <2>5. \A c \in Blocks : hdr'[c] = "USED" => Tidy(c, Cap + 1)'
    BY <2>3, <2>4
  <2>6. QED
    BY <2>1, <2>5 DEF Swept, Copying, RunPCs, BootPCs, GcPCs
<1>9. QED
  BY <1>1, <1>3, <1>6, <1>7, <1>8 DEF Gc

\* The steps of a start: a block is tidy as far as it has been read, or is
\* about to be marked.
ReadTo(b) == IF Scanned(b) THEN Cap + 1 ELSE cur.slot
SweptBlock(b) == blk_state[b] = "USED" => Tidy(b, ReadTo(b)) \/ Marking(b)

LEMMA SweptInBoot ==
    ASSUME pc' \in BootPCs, \A b \in Blocks : SweptBlock(b)'
    PROVE  Swept'
BY DEF Swept, SweptBlock, ReadTo, BootPCs, RunPCs, Copying, GcPCs

\* A block that a step leaves alone, or reads one record further.
LEMMA SweptSame ==
    ASSUME NEW b \in Blocks, SweptBlock(b), ~Marking(b), blk_state'[b] = "USED" => blk_state[b] = "USED",
           \A s \in Slots : item'[b][s] \in {item[b][s], Erased} \/ Normal(b, s)',
           UNCHANGED ReadTo(b)
    PROVE  SweptBlock(b)'
<1>1. PICK c : c = ReadTo(b) /\ c = ReadTo(b)'
  OBVIOUS
<1>2. blk_state'[b] = "USED" => Tidy(b, c)
  BY <1>1 DEF SweptBlock
<1>3. blk_state'[b] = "USED" => Tidy(b, c)'
  BY <1>2, TidyKept
<1>4. QED
  BY <1>1, <1>3 DEF SweptBlock

\* Behind the loop over the blocks, and before a block, nothing is at its slot.
LEMMA ReadToCases ==
    ASSUME NEW b \in Blocks
    PROVE  /\ pc \notin ScanPCs => ReadTo(b) = Cap + 1
           /\ pc \in ScanPCs => ReadTo(b) = IF b < cur.blk THEN Cap + 1 ELSE cur.slot
BY DEF ReadTo, Scanned

LEMMA SweptStart ==
    ASSUME IInv, IInv', Swept, PowerOn \/ BootRead \/ ScanErase
    PROVE  Swept'
<1> USE DEF IInv
<1>1. CASE PowerOn
  <2>1. pc' \in BootPCs /\ \A b \in Blocks : blk_state'[b] = "NONE"
    BY <1>1 DEF PowerOn, BootPCs, Starting, ram
  <2>2. QED
    BY <2>1, SweptInBoot DEF SweptBlock
<1>2. CASE BootRead \/ ScanErase
  <2>1. /\ pc \in {"boot_read", "scan_erase"} /\ pc \in BootPCs /\ pc \in ScanPCs
        /\ pc' \in BootPCs /\ pc' \in ScanPCs /\ cur' = cur
        /\ pc' = "boot_item" => pc = "boot_read"
    BY <1>2 DEF BootRead, ScanErase, BootPCs, ScanPCs, context
  <2>2. PICK b \in Blocks : b = cur.blk
    BY DEF TypeOK
  <2>3. ASSUME NEW c \in Blocks, c # b PROVE SweptBlock(c)'
    <3>1. blk_state'[c] = blk_state[c] /\ \A s \in Slots : item'[c][s] = item[c][s]
      <4>1. CASE BootRead
        BY <2>2, <2>3, <4>1 DEF BootRead, SetState, TypeOK, flash
      <4>2. CASE ScanErase
        BY <2>2, <2>3, <4>2, EraseEffect DEF ScanErase, ram
      <4>3. QED
        BY <1>2, <4>1, <4>2
    <3>2. SweptBlock(c) /\ ~Marking(c) /\ UNCHANGED ReadTo(c)
      BY <2>1 DEF Swept, SweptBlock, ReadTo, Scanned, Marking
    <3>3. QED
      BY <3>1, <3>2, SweptSame
  <2>4. SweptBlock(b)'
    <3>1. blk_state[b] = "NONE"
      BY <2>1, <2>2 DEF Starting, Unread, Scanned, Blocks
    <3>2. CASE pc' = "boot_item"
      <4>1. cur'.slot = 1 /\ ReadTo(b)' = 1
        <5>1. cur = Start(b)
          BY <2>1, <2>2, <3>2 DEF Starting
        <5>2. cur'.slot = 1 /\ cur'.blk = b /\ ~(b < b)
          BY <2>1, <5>1 DEF Start, Blocks
        <5>3. QED
          BY <2>1, <5>2 DEF ReadTo, Scanned
      <4>2. Tidy(b, 1)'
        BY ConstantsAssumption DEF Tidy, Slots
      <4>3. QED
        BY <4>1, <4>2 DEF SweptBlock
    <3>3. CASE pc' # "boot_item"
      BY <1>2, <3>1, <3>3 DEF BootRead, ScanErase, SweptBlock, ram
    <3>4. QED
      BY <3>2, <3>3
  <2>5. QED
    BY <2>1, <2>3, <2>4, SweptInBoot
<1>3. QED
  BY <1>1, <1>2

\* The loop over the blocks goes on: the block it leaves has been read.
LEMMA SweptNextBlock ==
    ASSUME IInv, IInv', Swept, ScanHeader \/ BootNextBlock
    PROVE  Swept'
<1> USE DEF IInv
<1>1. /\ pc \in {"scan_header", "boot_item"} /\ pc \in BootPCs /\ pc \in ScanPCs
      /\ NextBlock /\ UNCHANGED item
  BY DEF ScanHeader, BootNextBlock, BootPCs, ScanPCs, flash
<1>2. PICK b \in Blocks : b = cur.blk
  BY DEF TypeOK
<1>3. \/ b = 0 /\ pc' = "boot_read" /\ cur' = [blk |-> 1, slot |-> 1]
      \/ b = 1 /\ pc' = "boot_unclean" /\ cur' = [blk |-> 0, slot |-> 0]
  BY <1>1, <1>2 DEF NextBlock, Start, NoPos, Blocks
<1>4. pc' \in BootPCs
  BY <1>3 DEF BootPCs
<1>5. \A c \in Blocks : c <= b => ReadTo(c)' = Cap + 1
  BY <1>3 DEF ReadTo, Scanned, ScanPCs, Blocks
<1>6. ASSUME NEW c \in Blocks, c # b PROVE SweptBlock(c)'
  <2>1. blk_state'[c] = blk_state[c]
    BY <1>2, <1>6 DEF ScanHeader, BootNextBlock, WriteCleanHeader, SetState, TypeOK
  <2>2. CASE c < b
    <3>1. ReadTo(c) = Cap + 1
      BY <1>2, <2>2 DEF ReadTo, Scanned
    <3>2. ReadTo(c)' = Cap + 1
      BY <1>5, <2>2 DEF Blocks
    <3>3. SweptBlock(c) /\ ~Marking(c)
      BY <1>1 DEF Swept, SweptBlock, ReadTo, Marking
    <3>4. QED
      BY <1>1, <2>1, <3>1, <3>2, <3>3, SweptSame
  <2>3. CASE c > b
    <3>1. blk_state[c] = "NONE"
      BY <1>1, <1>2, <2>3 DEF Starting, Scanned, Unread, Blocks
    <3>2. QED
      BY <2>1, <3>1 DEF SweptBlock
  <2>4. QED
    BY <1>6, <2>2, <2>3 DEF Blocks
<1>7. SweptBlock(b)'
  <2>1. CASE ScanHeader
    BY <1>2, <2>1 DEF ScanHeader, WriteCleanHeader, SetState, SweptBlock, TypeOK
  <2>2. CASE BootNextBlock
    <3>1. pc = "boot_item" /\ AtEnd /\ blk_state' = blk_state
      BY <2>2 DEF BootNextBlock
    <3>2. EndOf(b) \in 1..Cap /\ Filled(b, EndOf(b)) /\ cur.slot = EndOf(b)
      BY <1>2, <3>1, ContiguousEnd DEF AtEnd
    <3>3. blk_state[b] = "USED" => Tidy(b, EndOf(b))
      BY <1>1, <1>2, <3>1, <3>2 DEF Swept, Marking, Scanned, Blocks
    <3>4. blk_state[b] = "USED" => Tidy(b, Cap + 1)
      BY <3>2, <3>3, TidyToEnd
    <3>5. blk_state'[b] = "USED" => Tidy(b, Cap + 1)'
      BY <1>1, <3>1, <3>4, TidyKept
    <3>6. ReadTo(b)' = Cap + 1
      BY <1>5 DEF Blocks
    <3>7. QED
      BY <3>5, <3>6 DEF SweptBlock
  <2>3. QED
    BY <2>1, <2>2
<1>8. QED
  BY <1>4, <1>6, <1>7, SweptInBoot

\* The recovery deletes records and marks the blocks they are in.
LEMMA SweptRecovery ==
    ASSUME IInv, IInv', Swept, BootRecover \/ BootMark \/ BootPass
    PROVE  Swept'
<1> USE DEF IInv
<1>1. /\ pc \in {"boot_item", "boot_mark"} /\ pc' \in {"boot_item", "boot_mark"}
      /\ pc \in BootPCs /\ pc' \in BootPCs /\ pc \in ScanPCs /\ pc' \in ScanPCs
  BY DEF BootRecover, AfterDelete, BootMark, BootPass, BootPCs, ScanPCs
<1>2. PICK b \in Blocks : b = cur.blk
  BY DEF TypeOK
<1>3. \A c \in Blocks : SweptBlock(c)
  BY <1>1 DEF Swept, SweptBlock, ReadTo
<1>4. CASE BootMark
  <2>1. /\ old \in Pos /\ UNCHANGED <<item, cur>> /\ blk_state' = [blk_state EXCEPT ![old.blk] = "DIRTY"]
    BY <1>4 DEF BootMark, MarkOld, SetState, OldRecord
  <2>2. \A c \in Blocks : IF c = old.blk THEN blk_state'[c] = "DIRTY"
                                         ELSE blk_state'[c] = blk_state[c] /\ ~Marking(c)
    BY <2>1 DEF TypeOK, Marking
  <2>3. \A c \in Blocks : UNCHANGED ReadTo(c)
    BY <1>1, <2>1 DEF ReadTo, Scanned
  <2>4. ASSUME NEW c \in Blocks PROVE SweptBlock(c)'
    <3>1. CASE c = old.blk
      BY <2>2, <3>1 DEF SweptBlock
    <3>2. CASE c # old.blk
      BY <1>3, <2>1, <2>2, <2>3, <3>2, SweptSame
    <3>3. QED
      BY <3>1, <3>2
  <2>5. QED
    BY <1>1, <2>4, SweptInBoot
<1>5. CASE BootPass \/ BootRecover
  <2>1. /\ pc = "boot_item" /\ ~AtEnd /\ cur' = [cur EXCEPT !.slot = @ + 1]
    BY <1>5 DEF BootPass, BootRecover, PassInvalid, NextRecord
  <2>2. cur'.blk = b /\ cur'.slot = cur.slot + 1 /\ cur.slot \in Slots
    BY <1>2, <2>1, CursorAdvances DEF TypeOK
  <2>3. \A c \in Blocks : ~Marking(c)
    BY <2>1 DEF Marking
  <2>4. \A c \in Blocks : blk_state'[c] = "USED" => blk_state[c] = "USED" /\ (c = b \/ c < b)
    <3>1. \A c \in Blocks : c # b /\ ~(c < b) => blk_state[c] = "NONE"
      BY <1>1, <1>2, <2>1 DEF Starting, Scanned, Unread
    <3>2. \A c \in Blocks : blk_state'[c] = "USED" => blk_state[c] = "USED"
      BY <1>5 DEF BootPass, PassInvalid, MarkDirty, BootRecover, ram
    <3>3. QED
      BY <3>1, <3>2
  <2>5. ASSUME NEW c \in Blocks, c # b, \A s \in Slots : item'[c][s] = item[c][s]
        PROVE  SweptBlock(c)'
    <3>1. CASE c < b
      <4>1. UNCHANGED ReadTo(c)
        BY <1>1, <1>2, <2>2, <3>1 DEF ReadTo, Scanned
      <4>2. QED
        BY <1>3, <2>3, <2>4, <2>5, <4>1, SweptSame
    <3>2. CASE ~(c < b)
      BY <2>4, <2>5, <3>2 DEF SweptBlock
    <3>3. QED
      BY <3>1, <3>2
  <2>6. CASE BootPass
    <3>1. UNCHANGED item /\ (blk_state[b] = "USED" => blk_state'[b] = "DIRTY")
      BY <1>2, <2>6 DEF BootPass, PassInvalid, MarkDirty
    <3>2. SweptBlock(b)'
      BY <2>4, <3>1 DEF SweptBlock
    <3>3. QED
      BY <1>1, <2>5, <3>1, <3>2, SweptInBoot
  <2>7. ASSUME BootRecover, UNCHANGED item PROVE Swept'
    <3>1. blk_state' = blk_state /\ Normal(b, cur.slot)
      BY <1>2, <2>7 DEF BootRecover, ram
    <3>2. ReadTo(b) = cur.slot /\ ReadTo(b)' = cur.slot + 1
      BY <1>1, <1>2, <2>2 DEF ReadTo, Scanned, Blocks
    <3>3. blk_state[b] = "USED" => Tidy(b, cur.slot)
      BY <1>3, <2>3, <3>2 DEF SweptBlock
    <3>4. blk_state[b] = "USED" => Tidy(b, cur.slot + 1)
      BY <2>2, <3>1, <3>3, ConstantsAssumption DEF Tidy, Slots
    <3>5. PICK c : c = cur.slot + 1
      OBVIOUS
    <3>6. blk_state'[b] = "USED" => Tidy(b, c)'
      BY <2>7, <3>1, <3>4, <3>5, TidyKept
    <3>7. SweptBlock(b)'
      BY <3>2, <3>5, <3>6 DEF SweptBlock
    <3>8. QED
      BY <1>1, <2>5, <2>7, <3>7, SweptInBoot
  <2>8. ASSUME NEW p \in Recovered(cur), Delete(p), AfterDelete(p, "boot_mark", "boot_item"),
               BootRecover
        PROVE  Swept'
    <3>1. cur \in Pos /\ At(cur) \in Item /\ blk_state' = blk_state
      BY <2>2, <2>8 DEF BootRecover, TypeOK, Pos, Normal, IsItem, At, ram
    <3>2. p \in Pos /\ IsItem(p.blk, p.slot)
      BY <2>8, <3>1 DEF BootRecover, Recovered, Item, Normal
    <3>3. \A c \in Blocks : c # p.blk => \A s \in Slots : item'[c][s] = item[c][s]
      BY <2>8, <3>2, DeleteEffect
    <3>4. SweptBlock(p.blk)'
      BY <2>8, <3>1 DEF SweptBlock, AfterDelete, Delete, Marking
    <3>5. CASE p.blk = b
      BY <1>1, <2>5, <3>3, <3>4, <3>5, SweptInBoot
    <3>6. CASE p.blk # b
      <4>1. \A c \in Blocks : c = b \/ c = p.blk
        BY <3>2, <3>6 DEF Blocks, Pos
      <4>2. SweptBlock(b)'
        <5>1. ReadTo(b) = cur.slot /\ ReadTo(b)' = cur.slot + 1
          BY <1>1, <1>2, <2>2 DEF ReadTo, Scanned, Blocks
        <5>2. blk_state[b] = "USED" => Tidy(b, cur.slot + 1)
          <6>1. blk_state[b] = "USED" => Tidy(b, cur.slot)
            BY <1>3, <2>3, <5>1 DEF SweptBlock
          <6>2. Normal(b, cur.slot)
            BY <1>2, <2>8 DEF BootRecover
          <6>3. QED
            BY <2>2, <6>1, <6>2, ConstantsAssumption DEF Tidy, Slots
        <5>3. PICK c : c = cur.slot + 1
          OBVIOUS
        <5>4. blk_state'[b] = "USED" => Tidy(b, c)'
          BY <3>1, <3>3, <3>6, <5>2, <5>3, TidyKept
        <5>5. QED
          BY <5>1, <5>3, <5>4 DEF SweptBlock
      <4>3. QED
        BY <1>1, <3>4, <4>1, <4>2, SweptInBoot
    <3>7. QED
      BY <3>5, <3>6
  <2>9. QED
    BY <1>5, <2>6, <2>7, <2>8 DEF BootRecover
<1>6. QED
  BY <1>4, <1>5

LEMMA SweptLast ==
    ASSUME IInv, IInv', Swept, BootKeep \/ BootDrop \/ LastErase \/ LastHeader \/ BootDone
    PROVE  Swept'
<1> USE DEF IInv
<1>1. CASE BootDone
  <2>1. pc = "boot_unclean" /\ pc' = "idle" /\ UNCHANGED item
    BY <1>1 DEF BootDone
  <2>2. \A b \in Blocks : hdr[b] = "USED" => Tidy(b, Cap + 1)
    BY <2>1, AllScanned DEF Swept, Scanned, ScanPCs, Marking, Ready, Known, BootPCs
  <2>3. \A b \in Blocks : hdr'[b] = "USED" => Tidy(b, Cap + 1)
    <3>1. CASE clean_blk_nums = 2
      <4>1. hdr' = [hdr EXCEPT ![0] = "USED"] /\ 0 \in Blocks
        BY <1>1, <3>1 DEF BootDone, SetHeader, Blocks
      <4>2. Counted(0) /\ Ready(0)
        BY <2>1, <3>1, <4>1, AllScanned DEF CleanBlocks
      <4>3. Filled(0, 1)
        BY <4>2, ConstantsAssumption DEF Counted, Ready
      <4>4. Tidy(0, Cap + 1)
        BY <4>1, <4>3, EmptyIsTidy
      <4>5. \A b \in Blocks : hdr'[b] = "USED" => b = 0 \/ hdr[b] = "USED"
        BY <4>1 DEF TypeOK
      <4>6. QED
        BY <2>2, <4>4, <4>5
    <3>2. CASE clean_blk_nums # 2
      BY <1>1, <2>2, <3>2 DEF BootDone
    <3>3. QED
      BY <3>1, <3>2
  <2>4. \A b \in Blocks : hdr'[b] = "USED" => Tidy(b, Cap + 1)'
    BY <2>1, <2>3, TidyKept
  <2>5. QED
    BY <2>1, <2>4 DEF Swept, RunPCs, BootPCs, Copying, GcPCs
<1>2. CASE BootKeep \/ BootDrop \/ LastErase \/ LastHeader
  <2>1. pc \in BootPCs \ ScanPCs /\ pc' \in BootPCs \ ScanPCs
    BY <1>2 DEF BootKeep, BootDrop, LastErase, LastHeader, BootPCs, ScanPCs
  <2>2. \A b \in Blocks : SweptBlock(b) /\ ~Marking(b) /\ UNCHANGED ReadTo(b)
    BY <2>1 DEF Swept, SweptBlock, ReadTo, Scanned, Marking, BootPCs, ScanPCs
  <2>3. \A b \in Blocks : blk_state'[b] = "USED" => blk_state[b] = "USED"
    BY <1>2 DEF BootKeep, BootDrop, LastErase, LastHeader, WriteCleanHeader, SetState, TypeOK, ram
  <2>4. \A b \in Blocks, s \in Slots : item'[b][s] \in {item[b][s], Erased}
    <3>1. CASE LastErase
      <4>1. cur.blk \in Blocks
        BY DEF TypeOK
      <4>2. QED
        BY <3>1, <4>1, EraseEffect DEF LastErase
    <3>2. CASE BootKeep \/ BootDrop \/ LastHeader
      BY <3>2 DEF BootKeep, BootDrop, LastHeader, flash
    <3>3. QED
      BY <1>2, <3>1, <3>2
  <2>5. \A b \in Blocks : SweptBlock(b)'
    BY <2>2, <2>3, <2>4, SweptSame
  <2>6. QED
    BY <2>1, <2>5, SweptInBoot
<1>3. QED
  BY <1>1, <1>2

LEMMA SweptSteps == ASSUME IInv, IInv', Swept, [Next]_vars PROVE Swept'
<1>1. CASE Calls \/ Op
  BY <1>1, SweptCalls
<1>2. CASE Gc
  BY <1>2, SweptGc
<1>3. CASE Boot
  BY <1>3, SweptStart, SweptNextBlock, SweptRecovery, SweptLast DEF Boot
<1>4. CASE Failure
  BY <1>4 DEF Failure, Crash, CutStore, CutCopy, PowerLoss, Swept, RunPCs, BootPCs, Copying, GcPCs
<1>5. CASE UNCHANGED vars
  BY <1>5 DEF vars, Swept, Tidy, Marking, Copying, Scanned, Normal, IsItem
<1>6. QED
  BY <1>1, <1>2, <1>3, <1>4, <1>5 DEF Next, Step

\* What a block holds between calls, whatever the number of power failures and
\* wherever they come: a USED block has valid records only, so that a collection
\* may skip it.
THEOREM GarbageAlways == Spec => []GarbageIsDirty
<1>1. Init => Swept
  BY DEF Init, Swept, RunPCs, BootPCs, Copying, GcPCs
<1>2. Swept /\ IInv /\ IInv' /\ [Next]_vars => Swept'
  BY SweptSteps
<1>3. Swept /\ IInv => GarbageIsDirty
  <2>1. SUFFICES ASSUME Swept, pc = "idle", NEW b \in Blocks, NEW s \in Slots, hdr[b] = "USED"
                 PROVE  item[b][s] = Erased \/ Normal(b, s)
    BY DEF GarbageIsDirty
  <2>2. Tidy(b, Cap + 1)
    BY <2>1 DEF Swept, RunPCs, Marking
  <2>3. QED
    BY <2>2, ConstantsAssumption DEF Tidy, Slots
<1>4. QED
  BY <1>1, <1>2, <1>3, Inductive, PTL DEF Spec

-----------------------------------------------------------------------------
(* A set is refused only when the block in use is full of valid records *)

Collected == pc = "return" /\ \A b \in Blocks : hdr[b] # "DIRTY"

LEMMA CollectedIsFull == IInv /\ Swept /\ Collected => RefusedOnlyWhenFull
<1> USE ConstantsAssumption DEF Blocks
<1> SUFFICES ASSUME IInv, Swept, Collected PROVE RefusedOnlyWhenFull
  OBVIOUS
<1>1. PICK b \in Blocks, s \in 1..Cap :
              /\ hdr[b] \in {"USED", "DIRTY"} /\ Behind(b, s)
  BY DEF IInv, Running, RunPCs, Collected
<1>2. Tidy(b, Cap + 1)
  BY <1>1 DEF Swept, Collected, RunPCs, Marking
<1>3. write_pos.blk = b /\ write_pos # NoPos /\ blk_space[b] = Cap + 1 - s
  BY <1>1 DEF Behind, NoPos
<1>4. CASE s < Cap
  BY <1>3, <1>4 DEF HasRoom, RefusedOnlyWhenFull
<1>5. CASE s = Cap
  <2>1. \A t \in 1..(Cap - 1) : t \in Slots /\ item[b][t] # Erased /\ t < Cap + 1
    BY <1>1, <1>5 DEF Behind, Filled, Slots
  <2>2. QED
    BY <1>2, <1>3, <2>1 DEF Tidy, RefusedOnlyWhenFull
<1>6. QED
  BY <1>4, <1>5

LEMMA CollectedNext == IInv' /\ Swept' /\ Collected' => RefusedOnlyWhenFull'
BY CollectedIsFull, PTL

LEMMA RefusedSteps == ASSUME IInv, IInv', Swept', Refused, [Next]_vars PROVE Refused'
<1> USE DEF IInv
<1> SUFFICES ASSUME ret' = "no_space" PROVE Refused'
  BY DEF Refused
<1>1. CASE StoreNoSpace
  BY <1>1 DEF StoreNoSpace, TriggerGcIf, Refused, GcPCs, HasRoom
<1>2. CASE GcSkip
  <2>1. ret = "no_space" /\ pc = "gc_start" /\ pc' = "return" /\ UNCHANGED hdr
    BY <1>2 DEF GcSkip, flash
  <2>2. gc_triggered /\ blk_state = hdr /\ clean_blk_nums = 1
    BY <2>1 DEF Refused, Running, RunPCs
  <2>3. GcTargets # {}
    <3>1. PICK b \in Blocks : hdr[b] # "CLEAN" /\ hdr[Other(b)] = "CLEAN"
      BY <2>1 DEF Running, RunPCs
    <3>2. Other(b) \in GcTargets
      BY <2>2, <3>1 DEF GcTargets, Blocks, Other
    <3>3. QED
      BY <3>2
  <2>4. GcSources = {}
    BY <1>2, <2>2, <2>3 DEF GcSkip
  <2>5. Collected'
    BY <2>1, <2>2, <2>4 DEF Collected, GcSources
  <2>6. QED
    BY <2>1, <2>5, CollectedNext DEF Refused, GcPCs
<1>3. CASE GcUsed
  <2>1. pc = "gc_used" /\ pc' = "return" /\ SetHeader(write_pos.blk, "USED")
    BY <1>3 DEF GcUsed
  <2>2. PICK b \in Blocks : b = cur.blk
    BY DEF TypeOK
  <2>3. hdr[b] = "CLEAN" /\ hdr[Other(b)] = "CLEAN"
    BY <2>1, <2>2 DEF Collecting, GcPCs
  <2>4. Collected'
    BY <2>1, <2>2, <2>3, OthersBlock DEF Collected, SetHeader, TypeOK
  <2>5. QED
    BY <2>1, <2>4, CollectedNext DEF Refused, GcPCs
<1>4. CASE GcStart \/ GcCopy \/ GcPass \/ GcCopied \/ GcErase \/ GcHeader
  BY <1>4 DEF GcStart, GcCopy, GcPass, GcCopied, GcErase, GcHeader, Refused, GcPCs
<1>5. CASE UNCHANGED vars
  BY <1>5 DEF vars, Refused, HasRoom, RefusedOnlyWhenFull, Normal, IsItem
<1>6. CASE Calls \/ Boot \/ Op \/ Failure
  <2>1. SUFFICES ASSUME ~StoreNoSpace PROVE FALSE
    BY <1>1
  <2>2. ~Failure
    BY DEF Failure, Crash, CutStore, CutCopy, PowerLoss
  <2>3. CASE Calls
    BY <2>3 DEF Calls, CallSet, CallGet, CallDel, CallDelMatching, CallFactory, Call, Refused, GcPCs
  <2>4. CASE Op
    BY <2>1, <2>4 DEF Op, FindHit, FindMiss, Store, DelItem, MarkItemBlock, BulkDelete, BulkMark,
       BulkPass, BulkNextBlock, Factory0, Factory1, Return, Refused, GcPCs, context
  <2>5. CASE Boot
    BY <2>5 DEF Boot, PowerOn, BootRead, ScanErase, ScanHeader, BootRecover, BootMark, BootPass,
       BootNextBlock, BootKeep, BootDrop, LastErase, LastHeader, BootDone, Refused, GcPCs, context
  <2>6. QED
    BY <1>6, <2>2, <2>3, <2>4, <2>5
<1>7. QED
  BY <1>2, <1>3, <1>4, <1>5, <1>6 DEF Next, Step, Gc

\* A set that is refused for want of space has had the garbage collected: the
\* next one fits, or every record in the block in use is valid.
THEOREM RefusedAlways == Spec => []RefusedOnlyWhenFull
<1>1. Init => Swept /\ Refused
  BY DEF Init, Swept, RunPCs, BootPCs, Copying, GcPCs, Refused
<1>2. Swept /\ Refused /\ IInv /\ IInv' /\ [Next]_vars => Swept' /\ Refused'
  BY SweptSteps, RefusedSteps
<1>3. Refused => RefusedOnlyWhenFull
  BY DEF Refused, RefusedOnlyWhenFull
<1>4. QED
  BY <1>1, <1>2, <1>3, Inductive, PTL DEF Spec
=============================================================================
