------------------------- MODULE TopicMappingTable -------------------------
(***************************************************************************)
(* The table of one client handler of the gateway that maps topic ids to   *)
(* topic names (core/TopicMappingTable.java).  A table is a function whose *)
(* domain is the set of ids in use.  The Hashtable of the source iterates  *)
(* in an order nobody specified, so a lookup by name returns SOME id of    *)
(* that name: the operators below return the set of possible results.      *)
(***************************************************************************)
EXTENDS Naturals, Functions

CONSTANTS
    PredfTopicIdSize,   \* ids 1..PredfTopicIdSize are reserved
    PredefTopicIdTable  \* id -> name, as configured; ids may be missing

ASSUME PredefinedAssumption ==
    /\ PredfTopicIdSize \in Nat \ {0}
    /\ IsInjective(PredefTopicIdTable)
    /\ DOMAIN PredefTopicIdTable \subseteq 1 .. PredfTopicIdSize

initialize == PredefTopicIdTable

assignTopicId(table, id, name) ==
    [i \in DOMAIN table \cup {id} |-> IF i = id THEN name ELSE table[i]]

idsOf(table, name) == {i \in DOMAIN table : table[i] = name}

(* The possible answers of getTopicId; 0 when the name has no id. *)
getTopicId(table, name) ==
    IF idsOf(table, name) = {} THEN {0} ELSE idsOf(table, name)

(* getTopicName, as a set: empty when the id is unknown. *)
getTopicName(table, id) == {table[i] : i \in DOMAIN table \cap {id}}

removeTopicId(table, id) == Restrict(table, DOMAIN table \ {id})

(* removeTopicId(String): the possible tables after it; predefined ids stay, *)
(* and at most one id of the name goes.                                      *)
removeTopicName(table, name) ==
    LET removable == {i \in idsOf(table, name) : i > PredfTopicIdSize}
    IN  IF removable = {} THEN {table}
                          ELSE {removeTopicId(table, i) : i \in removable}
=============================================================================
