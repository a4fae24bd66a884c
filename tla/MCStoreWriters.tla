--------------------------- MODULE MCStoreWriters ---------------------------
(* The writers of a device whose hive is on, by themselves. *)
EXTENDS StoreWriters

\* A setting is saved while the roster is merged.
InHive == {"set_meta", "hive_merge_roster"}
=============================================================================
