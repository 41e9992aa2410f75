------------------------------ MODULE Inventory ------------------------------
(***************************************************************************)
(* Dynamic_Inventory_Management_System.c: products in one heap block that  *)
(* realloc grows and shrinks by a cell.                                    *)
(*                                                                         *)
(* A text is a sequence of characters: 0 .. 9 for a digit, -1 for one that *)
(* is in no number and in no name.  fgets reads into a small buffer: of a  *)
(* line too long for it, the rest stays in `pending` and is what the next  *)
(* fgets, or the scanf of the menu, reads.                                 *)
(***************************************************************************)
EXTENDS Integers, Sequences, SequencesExt

CONSTANTS
  Texts,         \* what one fgets may return
  MaxInitial,    \* MAX_INITIAL_NUMBER_OF_PRODUCTS
  MaxId, MaxPrice, MaxQuantity,
  MaxProducts,   \* bound: the user adds no more
  MemoryMayFail  \* whether calloc and realloc may fail

ASSUME TextsAssumption == Texts \subseteq Seq(-1 .. 9)
ASSUME BoundsAssumption ==
  {MaxInitial, MaxId, MaxPrice, MaxQuantity, MaxProducts} \subseteq Nat \ {0}
ASSUME MemoryAssumption == MemoryMayFail \in BOOLEAN

VARIABLES
  task,     \* the function that asks, "menu", "ended" or "aborted"
  stage,    \* the field it asks for
  got,      \* its local variables
  entered,  \* products initializeInventory has stored
  pending,  \* the unread rest of a line
  products, \* the products in the heap block's first cells
  cells,    \* how many cells the block has
  total     \* totalNumberOfProducts

heap == <<products, cells, total>>
vars == <<task, stage, got, entered, pending, heap>>

Zero    == [id |-> 0, name |-> <<>>, price |-> 0, quantity |-> 0]
Product == [id : 1 .. MaxId, name : Texts, price : 1 .. MaxPrice, quantity : 1 .. MaxQuantity]

Init ==
  /\ task = "initialize"
  /\ stage = "count"
  /\ got = Zero
  /\ entered = 0
  /\ pending = <<>>
  /\ products = <<>>
  /\ cells = 0
  /\ total = 0

(***************************************************************************)
(* Validation.                                                             *)
(***************************************************************************)
isValidNumericValue(t) == \A k \in DOMAIN t : t[k] \in 0 .. 9

atoi(t) == FoldLeft(LAMBDA n, d : 10 * n + d, 0, t)

InRange(t, max) == isValidNumericValue(t) /\ atoi(t) \in 1 .. max

isValidName(t) == t # <<>> /\ isValidNumericValue(t)

\* Mutant: the last product is not looked at.
isDuplicateIdShort(i) == \E k \in 1 .. total - 1 : products[k].id = i

isDuplicateId(i) == \E k \in 1 .. total : products[k].id = i

\* The rest of the last line, or a line the user enters now, with its own rest.
fgets(t) ==
  IF pending # <<>>
  THEN t = Head(pending) /\ pending' = Tail(pending)
  ELSE pending' \in {<<>>} \cup {<<u>> : u \in Texts}

\* An error ends initializeInventory and the program, elsewhere the operation.
Return ==
  /\ task' = IF task = "initialize" THEN "ended" ELSE "menu"
  /\ stage' = "none"
  /\ got' = Zero

(***************************************************************************)
(* initializeInventory and getProductDetails.                              *)
(***************************************************************************)
initializeInventory(t) ==
  /\ stage = "count"
  /\ fgets(t)
  /\ \/ /\ InRange(t, MaxInitial)
        /\ total' = atoi(t)
        /\ products' = [k \in 1 .. atoi(t) |-> Zero]
        /\ cells' = atoi(t)
        /\ stage' = "id"
        /\ UNCHANGED <<task, got>>
     \/ /\ ~InRange(t, MaxInitial) \/ MemoryMayFail
        /\ Return
        /\ UNCHANGED heap
  /\ UNCHANGED entered

AsksForProduct == task \in {"initialize", "add"}

getProductId(t) ==
  /\ AsksForProduct /\ stage = "id"
  /\ fgets(t)
  /\ IF InRange(t, MaxId) /\ ~isDuplicateId(atoi(t))
     THEN /\ got' = [got EXCEPT !.id = atoi(t)]
          /\ stage' = "name"
          /\ UNCHANGED task
     ELSE Return
  /\ UNCHANGED <<entered, heap>>

getProductName(t) ==
  /\ AsksForProduct /\ stage = "name"
  /\ fgets(t)
  /\ IF isValidName(t)
     THEN /\ got' = [got EXCEPT !.name = t]
          /\ stage' = "price"
          /\ UNCHANGED task
     ELSE Return
  /\ UNCHANGED <<entered, heap>>

getProductPrice(t) ==
  /\ AsksForProduct /\ stage = "price"
  /\ fgets(t)
  /\ IF InRange(t, MaxPrice)
     THEN /\ got' = [got EXCEPT !.price = atoi(t)]
          /\ stage' = "quantity"
          /\ UNCHANGED task
     ELSE Return
  /\ UNCHANGED <<entered, heap>>

\* The last field: the product goes to the next cell.
initializeProduct(t) ==
  /\ task = "initialize" /\ stage = "quantity"
  /\ fgets(t)
  /\ IF InRange(t, MaxQuantity)
     THEN /\ products' = [products EXCEPT ![entered + 1] = [got EXCEPT !.quantity = atoi(t)]]
          /\ entered' = entered + 1
          /\ got' = Zero
          /\ IF entered + 1 = total THEN task' = "menu" /\ stage' = "none"
             ELSE stage' = "id" /\ UNCHANGED task
     ELSE Return /\ UNCHANGED <<entered, products>>
  /\ UNCHANGED <<cells, total>>

addNewProduct(t) ==
  /\ task = "add" /\ stage = "quantity"
  /\ fgets(t)
  /\ Return
  /\ \/ /\ InRange(t, MaxQuantity)
        /\ products' = Append(products, [got EXCEPT !.quantity = atoi(t)])
        /\ cells' = total + 1
        /\ total' = total + 1
     \/ /\ ~InRange(t, MaxQuantity) \/ MemoryMayFail
        /\ UNCHANGED heap
  /\ UNCHANGED entered

(***************************************************************************)
(* The menu.                                                               *)
(***************************************************************************)
MenuTexts == {<<n>> : n \in 1 .. 8}

\* scanf takes the rest of the last line for the user's choice, and
\* clearInputBuffer drops what follows.  The list, 2, changes nothing.
displayInventoryMenu(t) ==
  /\ task = "menu"
  /\ pending # <<>> => t = Head(pending)
  /\ pending' = <<>>
  /\ CASE t = <<1>> -> task' = "add" /\ stage' = "id" /\ total < MaxProducts
       [] t = <<3>> /\ total # 0 -> task' = "update" /\ stage' = "id"
       [] t \in {<<4>>, <<5>>} /\ total # 0 -> task' = "search" /\ stage' = "key"
       [] t = <<6>> /\ total # 0 -> task' = "search" /\ stage' = "minimum"
       [] t = <<7>> /\ total # 0 -> task' = "delete" /\ stage' = "id"
       [] t = <<8>> -> task' = "ended" /\ UNCHANGED stage
       [] OTHER -> UNCHANGED <<task, stage>>
  /\ UNCHANGED <<got, entered, heap>>

updateId(t) ==
  /\ task = "update" /\ stage = "id"
  /\ fgets(t)
  /\ IF InRange(t, MaxId)
     THEN got' = [got EXCEPT !.id = atoi(t)] /\ stage' = "quantity" /\ UNCHANGED task
     ELSE Return
  /\ UNCHANGED <<entered, heap>>

\* The first product with the id.
Found(i) == {k \in 1 .. total : products[k].id = i /\ \A m \in 1 .. k - 1 : products[m].id # i}

updateQuantity(t) ==
  /\ task = "update" /\ stage = "quantity"
  /\ fgets(t)
  /\ Return
  /\ products' = IF InRange(t, MaxQuantity)
                 THEN [k \in DOMAIN products |->
                         IF k \in Found(got.id) THEN [products[k] EXCEPT !.quantity = atoi(t)]
                         ELSE products[k]]
                 ELSE products
  /\ UNCHANGED <<entered, cells, total>>

\* The searches read the id, the text or the two prices they look for.
search(t) ==
  /\ task = "search"
  /\ fgets(t)
  /\ IF stage = "minimum" /\ InRange(t, MaxPrice) THEN stage' = "maximum" /\ UNCHANGED <<task, got>>
     ELSE Return
  /\ UNCHANGED <<entered, heap>>

\* Mutant: the last product fills the cell.
ShiftedLast(i) ==
  [k \in 1 .. total - 1 |-> IF k = i THEN products[total] ELSE products[k]]

\* The products behind the deleted one move up a cell.
Shifted(i) ==
  [k \in 1 .. total - 1 |-> IF k \in i .. total - 1 THEN products[k + 1] ELSE products[k]]

\* With nothing left, realloc(p, 0) may free the block, and the free that
\* follows frees it again: abort.  A realloc that keeps a block of no size where
\* it was makes that free right.  A realloc that fails to shrink keeps the cells.
deleteProduct(t) ==
  /\ task = "delete"
  /\ fgets(t)
  /\ IF InRange(t, MaxId) /\ Found(atoi(t)) # {}
     THEN /\ total' = total - 1
          /\ \E i \in Found(atoi(t)) : products' = Shifted(i)
          /\ cells' \in {total - 1} \cup (IF MemoryMayFail /\ total > 1 THEN {cells} ELSE {})
          /\ \/ Return
             \/ total = 1 /\ task' = "aborted" /\ stage' = "none" /\ got' = Zero
     ELSE Return /\ UNCHANGED heap
  /\ UNCHANGED entered

Next ==
  \/ \E t \in Texts :
       \/ initializeInventory(t)
       \/ getProductId(t) \/ getProductName(t) \/ getProductPrice(t)
       \/ initializeProduct(t) \/ addNewProduct(t)
       \/ updateId(t) \/ updateQuantity(t)
       \/ search(t)
       \/ deleteProduct(t)
  \/ \E t \in Texts \cup MenuTexts : displayInventoryMenu(t)

Spec == Init /\ [][Next]_vars

(***************************************************************************)
(* Searches.                                                               *)
(***************************************************************************)
\* How many characters agree when text is laid on name at p: the inner loop.
Agree(name, text, p) ==
  LET agree[n \in Nat] ==
        IF p + n <= Len(name) /\ n + 1 <= Len(text) /\ name[p + n] = text[n + 1]
        THEN agree[n + 1] ELSE n
  IN  agree[0]

\* Mutant: a mismatch goes on where it was found.
MatchesSkipping(name, text) ==
  LET at[p \in Nat] ==
        IF p > Len(name) THEN FALSE
        ELSE \/ Agree(name, text, p) = Len(text)
             \/ at[p + Agree(name, text, p) + 1]
  IN  at[1]

\* The outer loop starts again at every character of the name.
Matches(name, text) ==
  LET at[p \in Nat] ==
        IF p > Len(name) THEN FALSE
        ELSE Agree(name, text, p) = Len(text) \/ at[p + 1]
  IN  at[1]

searchProductByName(text) == {k \in 1 .. total : Matches(products[k].name, text)}

(***************************************************************************)
(* Properties.                                                             *)
(***************************************************************************)
Idle == task \in {"menu", "add", "update", "search", "delete"}

\* Whatever the lines are split into, the inventory holds valid products with
\* different ids, in cells the block has; only the delete of the last product
\* aborts the program.
InventoryOK ==
  /\ total = Len(products) /\ total <= cells
  /\ Idle => \A k \in 1 .. total : products[k] \in Product
  /\ \A j, k \in 1 .. total :
       products[j].id = products[k].id => j = k \/ products[j].id = 0
  /\ task = "aborted" => total = 0

\* A search by name finds the products whose name contains the text.
SearchFinds ==
  task = "menu" => \A text \in Texts \ {<<>>} :
    searchProductByName(text) =
      {k \in 1 .. total : \E p \in 1 .. Len(products[k].name) - Len(text) + 1 :
                            SubSeq(products[k].name, p, p + Len(text) - 1) = text}

\* A step of the menu adds a product behind the others, removes one and keeps
\* the order of the others, or changes the quantity of the product whose id was
\* asked for: never more, and never in the cell of another product.
OthersUntouched ==
  [][task # "initialize" =>
       \/ products' = products
       \/ \E p \in Product : products' = Append(products, p)
       \/ \E k \in 1 .. total : products' = RemoveAt(products, k)
       \/ \E k \in 1 .. total, q \in 1 .. MaxQuantity :
            products[k].id = got.id /\ products' = [products EXCEPT ![k].quantity = q]]_vars
=============================================================================
