-------------------------------- MODULE Maps --------------------------------
(***************************************************************************)
(* The keyed collections of the programs: HashMap, BTreeMap, redb tables.  *)
(***************************************************************************)

Inserted(map, k, v) ==
  [i \in DOMAIN map \cup {k} |-> IF i = k THEN v ELSE map[i]]

InsertedAll(map, new) ==
  [k \in DOMAIN map \cup DOMAIN new |->
     IF k \in DOMAIN new THEN new[k] ELSE map[k]]

(* Mutant: the entry is looked up and stays.                               *)
LeftIn(map, k) == map

Removed(map, k) == [i \in DOMAIN map \ {k} |-> map[i]]
=============================================================================
