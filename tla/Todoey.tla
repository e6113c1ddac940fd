-------------------------------- MODULE Todoey --------------------------------
(***************************************************************************)
(* Todoey: a table of categories, a table of the items of one category,    *)
(* both over live results of Realm.                                        *)
(*                                                                         *)
(* A table view counts its rows when it is reloaded; every update in       *)
(* between must account for the difference, or UIKit (external) ends the   *)
(* app, and so does Realm (external) when it is asked for a row it has no  *)
(* object for.  A write to Realm may fail when it is committed; the code   *)
(* prints that and goes on, so a failed write is taken to change nothing.  *)
(* Everything runs on the main thread; the app may be killed between two   *)
(* steps.                                                                  *)
(***************************************************************************)
EXTENDS Naturals, FiniteSets

CONSTANTS
    Categories,     \* what the user may add, each once at a time
    Items,          \* the same
    Matching,       \* the items whose title contains the text searched for
    MaxFailures     \* bound: writes that fail

VARIABLES
    categories,     \* Realm: the categories (persisted)
    itemList,       \* Realm: the items, each with its category (persisted)
    selected,       \* selectedCategory of the open list, or NoCategory
    filtered,       \* todoItems are those found by the search bar
    categoryRows,   \* rows of the table of categories
    itemRows,       \* rows of the table of items
    badUpdate,      \* UIKit refused an update, or Realm a row: the app has ended
    failures        \* history: writes that failed since the app was launched

vars == <<categories, itemList, selected, filtered, categoryRows, itemRows,
          badUpdate, failures>>

NoCategory == "none"

TypeOK ==
    /\ categories \subseteq Categories
    /\ itemList \subseteq [item : Items, category : Categories]
    /\ selected \in categories \cup {NoCategory}
    /\ filtered \in BOOLEAN
    /\ categoryRows \in Nat
    /\ itemRows \in Nat
    /\ badUpdate \in BOOLEAN
    /\ failures \in 0..MaxFailures

Init ==
    /\ categories = {}
    /\ itemList = {}
    /\ selected = NoCategory
    /\ filtered = FALSE
    /\ categoryRows = 0
    /\ itemRows = 0
    /\ badUpdate = FALSE
    /\ failures = 0

-----------------------------------------------------------------------------
\* todoItems of a category: its items, or those of them that match.
TodoItems(list, category, matching) ==
    {i \in list : i.category = category /\ (matching => i.item \in Matching)}

CountItems(list, category, matching) == Cardinality(TodoItems(list, category, matching))

\* realm.write: it is committed, or the error is printed.
Write(committed) ==
    IF committed THEN UNCHANGED failures
                 ELSE failures < MaxFailures /\ failures' = failures + 1

\* beginUpdates and endUpdates: the table counts its rows again.
UpdateRows(rows, count) == badUpdate' = (rows # count)

\* addNewCategory: save, then insert a row, saved or not.
AddNewCategory(category, committed) ==
    /\ ~badUpdate /\ selected = NoCategory
    /\ category \notin categories
    /\ Write(committed)
    /\ categories' = IF committed THEN categories \cup {category} ELSE categories
    /\ categoryRows' = categoryRows + 1
    /\ UpdateRows(categoryRows', Cardinality(categories'))
    /\ UNCHANGED <<itemList, selected, filtered, itemRows>>

\* Mutant of ItemsDeletedWith: only the category is deleted.
OnlyTheCategory(category) == {}

\* What is deleted with a category.
ItemsDeletedWith(category) == {i \in itemList : i.category = category}

\* Deleting a category: its items, itself and its row in one write.  The table
\* counts inside the write, before it is committed.
DeleteCategory(category, committed) ==
    /\ ~badUpdate /\ selected = NoCategory
    /\ category \in categories /\ categoryRows > 0
    /\ categoryRows' = categoryRows - 1
    /\ UpdateRows(categoryRows', Cardinality(categories \ {category}))
    /\ Write(committed)
    /\ IF committed /\ ~badUpdate'
         THEN /\ itemList' = itemList \ ItemsDeletedWith(category)
              /\ categories' = categories \ {category}
         ELSE UNCHANGED <<itemList, categories>>
    /\ UNCHANGED <<selected, filtered, itemRows>>

\* didSelectRowAt, prepare and viewDidLoad of the list: loadItems.
OpenList(category) ==
    /\ ~badUpdate /\ selected = NoCategory
    /\ category \in categories
    /\ selected' = category
    /\ filtered' = FALSE
    /\ itemRows' = CountItems(itemList, category, FALSE)
    /\ UNCHANGED <<categories, itemList, categoryRows, badUpdate, failures>>

Back ==
    /\ ~badUpdate /\ selected # NoCategory
    /\ selected' = NoCategory
    /\ filtered' = FALSE
    /\ itemRows' = 0
    /\ UNCHANGED <<categories, itemList, categoryRows, badUpdate, failures>>

\* saveItem reloads the table inside the write: the table counts the new item
\* at the call, or what is there after the write when it is laid out.
SaveItem(item, committed) ==
    /\ ~badUpdate /\ selected # NoCategory
    /\ \A i \in itemList : i.item # item
    /\ Write(committed)
    /\ LET written == itemList \cup {[item |-> item, category |-> selected]}
       IN  /\ itemList' = IF committed THEN written ELSE itemList
           /\ \E counted \in {written, itemList'} :
                itemRows' = CountItems(counted, selected, filtered)
    /\ UNCHANGED <<categories, selected, filtered, categoryRows, badUpdate>>

\* cellForRowAt, or didSelectRowAt, is asked for a row that has no item: Realm
\* raises an exception for an index beyond its results, and the app ends.
AskMissingRow ==
    /\ ~badUpdate /\ selected # NoCategory
    /\ itemRows > CountItems(itemList, selected, filtered)
    /\ badUpdate' = TRUE
    /\ UNCHANGED <<categories, itemList, selected, filtered, categoryRows, itemRows, failures>>

\* Ticking an item off: its row is reloaded if the write was committed.
ToggleItem(committed) ==
    /\ ~badUpdate /\ selected # NoCategory /\ itemRows > 0
    /\ TodoItems(itemList, selected, filtered) # {}
    /\ Write(committed)
    /\ IF committed THEN UpdateRows(itemRows, CountItems(itemList, selected, filtered))
                    ELSE UNCHANGED badUpdate
    /\ UNCHANGED <<categories, itemList, selected, filtered, categoryRows, itemRows>>

\* Deleting an item, like DeleteCategory.
DeleteItem(i, committed) ==
    /\ ~badUpdate /\ selected # NoCategory
    /\ i \in TodoItems(itemList, selected, filtered) /\ itemRows > 0
    /\ itemRows' = itemRows - 1
    /\ UpdateRows(itemRows', CountItems(itemList \ {i}, selected, filtered))
    /\ Write(committed)
    /\ itemList' = IF committed /\ ~badUpdate' THEN itemList \ {i} ELSE itemList
    /\ UNCHANGED <<categories, selected, filtered, categoryRows>>

\* searchBarSearchButtonClicked filters the results there are, and reloads.
Search ==
    /\ ~badUpdate /\ selected # NoCategory
    /\ filtered' = TRUE
    /\ itemRows' = CountItems(itemList, selected, TRUE)
    /\ UNCHANGED <<categories, itemList, selected, categoryRows, badUpdate, failures>>

\* textDidChange to an empty text: loadItems and reload.
ClearSearch ==
    /\ ~badUpdate /\ selected # NoCategory
    /\ filtered' = FALSE
    /\ itemRows' = CountItems(itemList, selected, FALSE)
    /\ UNCHANGED <<categories, itemList, selected, categoryRows, badUpdate, failures>>

\* The app was killed, or has ended, and is launched: Realm is what it was.
Restart ==
    /\ selected' = NoCategory
    /\ filtered' = FALSE
    /\ categoryRows' = Cardinality(categories)
    /\ itemRows' = 0
    /\ badUpdate' = FALSE
    /\ failures' = 0
    /\ UNCHANGED <<categories, itemList>>

Next ==
    \/ \E category \in Categories :
         \/ OpenList(category)
         \/ \E committed \in BOOLEAN : \/ AddNewCategory(category, committed)
                                       \/ DeleteCategory(category, committed)
    \/ \E committed \in BOOLEAN :
         \/ \E item \in Items : SaveItem(item, committed)
         \/ \E i \in itemList : DeleteItem(i, committed)
         \/ ToggleItem(committed)
    \/ AskMissingRow
    \/ Search
    \/ ClearSearch
    \/ Back
    \/ Restart

-----------------------------------------------------------------------------
(* Properties                                                              *)

\* How far a table may be off: not at all until a write fails, then by a row.
Slack == IF failures = 0 THEN 0 ELSE 1

InStep(rows, count) == rows <= count + Slack /\ count <= rows + Slack

\* Until a write fails, both tables have a row for every live result, whatever
\* was added, deleted, searched and opened, and the app does not end.  However
\* many writes fail, a table of an app that goes on is never two rows off: a
\* second miscount is refused, or the table has counted again.
TablesFollowRealm ==
    /\ failures = 0 => ~badUpdate
    /\ ~badUpdate =>
         /\ InStep(categoryRows, Cardinality(categories))
         /\ selected # NoCategory => InStep(itemRows, CountItems(itemList, selected, filtered))

\* Every item in Realm belongs to a category that exists, also after writes that
\* failed, updates that UIKit refused in the middle of a write, and restarts.
NoOrphans == \A i \in itemList : i.category \in categories
===============================================================================
