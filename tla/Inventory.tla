----------------------------- MODULE Inventory -----------------------------
(***************************************************************************)
(* Stock with its log of movements, and assets with their maintenance      *)
(* records.                                                                *)
(*                                                                         *)
(* StockService works the new quantity out before it opens the transaction *)
(* that logs the movement and writes the quantity.  AssetsService replaces *)
(* the records of an asset as a whole, by deleting and recreating them in  *)
(* one transaction: at READ COMMITTED the delete does not see the records  *)
(* that an overlapping replacement has yet to commit.                      *)
(***************************************************************************)
EXTENDS Handlers, Integers, SequencesExt, Folds

CONSTANTS
  Categories, Items, Assets,  \* ids of rows
  Changes,    \* signed quantities of movements
  Quantities, \* quantities items are created with
  MaxMoves,   \* bound: movements of an item
  MaxWrites   \* bound: submissions of an asset

ASSUME InventoryAssumption ==
  Changes \subseteq Int /\ Quantities \subseteq Nat /\ MaxMoves \in Nat /\ MaxWrites \in Nat \ {0}

VARIABLES
  category,  \* StockCategory rows
  item,      \* StockItem rows: quantity as stored, opening as created
  log,       \* StockMovement rows of an item: their quantityChange, oldest first
  asset      \* Asset rows: records are the submissions that its AssetMaintenanceRecord rows are of

inventoryTables == <<category, item, log, asset>>

AssetStatuses == {"in-use", "in-storage", "under-maintenance", "disposed"}

ItemRow == [status : RowStatus, quantity : Int, opening : Int]
AssetRow == [status : RowStatus, state : AssetStatuses, disposalDate : BOOLEAN,
             records : SUBSET (1..MaxWrites), writes : 0..MaxWrites]

StockItemDto == [category : Categories, quantity : Quantities]

\* Of the submitted lists only whether they are empty: they have no other use.
AssetDto == [state : AssetStatuses, disposalDate : BOOLEAN, records : BOOLEAN]

InventoryInit ==
  /\ category = [c \in Categories |-> "none"]
  /\ item = [i \in Items |-> [status |-> "none", quantity |-> 0, opening |-> 0]]
  /\ log = [i \in Items |-> <<>>]
  /\ asset = [a \in Assets |-> [status |-> "none", state |-> "in-use",
                                disposalDate |-> FALSE, records |-> {}, writes |-> 0]]

-----------------------------------------------------------------------------
(* StockService                                                             *)

CreateCategory(c) ==
  /\ AtOnce /\ category[c] = "none"
  /\ category' = [category EXCEPT ![c] = "kept"]
  /\ UNCHANGED <<item, log, asset>>

\* Items of the category stay, with an id of nothing.
DeleteCategory(c) ==
  /\ AtOnce /\ category[c] = "kept"
  /\ category' = [category EXCEPT ![c] = "deleted"]
  /\ UNCHANGED <<item, log, asset>>

CreateItem(i) ==
  /\ AtOnce /\ item[i].status = "none"
  /\ \E dto \in StockItemDto :
       /\ category[dto.category] = "kept"
       /\ item' = [item EXCEPT ![i] = [status |-> "kept", quantity |-> dto.quantity,
                                       opening |-> dto.quantity]]
  /\ UNCHANGED <<category, log, asset>>

\* Mutant: an edit stores the quantity of the form.
UpdateItemQuantity(i) ==
  /\ AtOnce /\ item[i].status = "kept"
  /\ \E dto \in StockItemDto : /\ category[dto.category] = "kept"
                               /\ item' = [item EXCEPT ![i].quantity = dto.quantity]
  /\ UNCHANGED <<category, log, asset>>

\* Only movements change the quantity.
UpdateItem(i) ==
  /\ AtOnce /\ item[i].status = "kept"
  /\ \E dto \in StockItemDto : category[dto.category] = "kept"
  /\ UNCHANGED inventoryTables

\* With its movements.
RemoveItem(i) ==
  /\ AtOnce /\ item[i].status = "kept"
  /\ item' = [item EXCEPT ![i].status = "deleted"]
  /\ log' = [log EXCEPT ![i] = <<>>]
  /\ UNCHANGED <<category, asset>>

MovementRead(r, i) ==
  /\ item[i].status = "kept" /\ Len(log[i]) < MaxMoves
  /\ \E d \in Changes :
       /\ item[i].quantity + d >= 0
       /\ Starts(r, [op |-> "Movement", row |-> i, change |-> d,
                     quantity |-> item[i].quantity + d])
  /\ UNCHANGED inventoryTables

\* One transaction.
MovementCommit(r) ==
  /\ At(r, "Movement") /\ item[req[r].row].status = "kept" /\ Len(log[req[r].row]) < MaxMoves
  /\ log' = [log EXCEPT ![req[r].row] = Append(@, req[r].change)]
  /\ item' = [item EXCEPT ![req[r].row].quantity = req[r].quantity]
  /\ Ends(r) /\ UNCHANGED <<category, asset>>

StockController ==
  \/ \E c \in Categories : CreateCategory(c) \/ DeleteCategory(c)
  \/ \E i \in Items : CreateItem(i) \/ UpdateItem(i) \/ RemoveItem(i)
  \/ \E r \in Requests : MovementCommit(r) \/ \E i \in Items : MovementRead(r, i)

-----------------------------------------------------------------------------
(* AssetsService                                                            *)

DisposalDated(dto) == dto.state = "disposed" => dto.disposalDate

Submitted(a, dto) == IF dto.records THEN {asset[a].writes + 1} ELSE {}

CreateAsset(a) ==
  /\ AtOnce /\ asset[a].status = "none"
  /\ \E dto \in AssetDto :
       /\ DisposalDated(dto)
       /\ asset' = [asset EXCEPT ![a] = [status |-> "kept", state |-> dto.state,
            disposalDate |-> dto.disposalDate, records |-> Submitted(a, dto), writes |-> 1]]
  /\ UNCHANGED <<category, item, log>>

\* The transaction up to its delete.
UpdateAssetDelete(r, a) ==
  /\ asset[a].status = "kept" /\ asset[a].writes < MaxWrites
  /\ \E dto \in AssetDto :
       /\ DisposalDated(dto)
       /\ Starts(r, [op |-> "UpdateAsset", row |-> a, dto |-> dto, seen |-> asset[a].records])
  /\ UNCHANGED inventoryTables

\* Mutant: the records are created without those of before being deleted.
UpdateAssetAppend(r) ==
  /\ At(r, "UpdateAsset")
  /\ asset[req[r].row].status = "kept" /\ asset[req[r].row].writes < MaxWrites
  /\ asset' = [asset EXCEPT ![req[r].row] = [status |-> "kept", state |-> req[r].dto.state,
       disposalDate |-> req[r].dto.disposalDate,
       records |-> asset[req[r].row].records \cup Submitted(req[r].row, req[r].dto),
       writes |-> asset[req[r].row].writes + 1]]
  /\ Ends(r) /\ UNCHANGED <<category, item, log>>

\* The rest of it.
UpdateAssetCommit(r) ==
  /\ At(r, "UpdateAsset")
  /\ asset[req[r].row].status = "kept" /\ asset[req[r].row].writes < MaxWrites
  /\ asset' = [asset EXCEPT ![req[r].row] = [status |-> "kept", state |-> req[r].dto.state,
       disposalDate |-> req[r].dto.disposalDate,
       records |-> Replaced(asset[req[r].row].records, req[r].seen,
                            Submitted(req[r].row, req[r].dto)),
       writes |-> asset[req[r].row].writes + 1]]
  /\ Ends(r) /\ UNCHANGED <<category, item, log>>

RemoveAsset(a) ==
  /\ AtOnce /\ asset[a].status = "kept"
  /\ asset' = [asset EXCEPT ![a].status = "deleted", ![a].records = {}]
  /\ UNCHANGED <<category, item, log>>

AssetsController ==
  \/ \E a \in Assets : CreateAsset(a) \/ RemoveAsset(a)
  \/ \E r \in Requests : UpdateAssetCommit(r) \/ \E a \in Assets : UpdateAssetDelete(r, a)

InventoryDies(r) == Dies(r) /\ UNCHANGED inventoryTables

\* Stock and assets share nothing.
StockNext == StockController \/ \E r \in Requests : InventoryDies(r)
AssetsNext == AssetsController \/ \E r \in Requests : InventoryDies(r)

-----------------------------------------------------------------------------
(* Properties                                                               *)

InventoryTypeOK ==
  /\ category \in [Categories -> RowStatus]
  /\ item \in [Items -> ItemRow]
  /\ \A i \in Items : log[i] \in Seq(Changes) /\ Len(log[i]) <= MaxMoves
  /\ asset \in [Assets -> AssetRow]
  /\ \A a \in Assets : asset[a].state = "disposed" => asset[a].disposalDate

LoggedQuantity(i) == item[i].opening + FoldSeq(+, 0, log[i])

\* The log and the running total never disagree (the comment on recordMovement).
LogAddsUp == \A i \in Items : item[i].status = "kept" => item[i].quantity = LoggedQuantity(i)

\* However movements overlap, stock never goes below zero; and one at a time the
\* log adds up to the quantity.
StockKept ==
  /\ \A i \in Items : item[i].quantity >= 0
  /\ overlap \/ LogAddsUp
=============================================================================
