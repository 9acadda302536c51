------------------------------- MODULE AoaDb -------------------------------
(***************************************************************************)
(* The tag database and the allowlist of aoa_db.c.                         *)
(*                                                                         *)
(* Both are singly linked lists that grow at the head.  A list is a        *)
(* sequence whose first element is the head of the list.  Every lookup of  *)
(* the code returns the first match from the head; here it returns the     *)
(* position of that match, 0 standing for SL_STATUS_NOT_FOUND.             *)
(***************************************************************************)
EXTENDS Naturals, Sequences, SequencesExt

(* aoa_db_state_t, used in connection oriented mode.                       *)
ConnectionState ==
  {"DISCOVER_SERVICES", "DISCOVER_CHARACTERISTICS", "ENABLE_CTE", "RUNNING"}

(* aoa_db_entry_t.  cte_service_handle and cte_enable_char_handle are      *)
(* abstracted to whether they have been assigned: malloc leaves them       *)
(* uninitialised until the discovery events store them.                    *)
Entry(Handle, Address) ==
  [handle                 : Handle,
   address                : Address,
   connection_state       : ConnectionState,
   cte_service_handle     : BOOLEAN,
   cte_enable_char_handle : BOOLEAN]

(* Mutant: the state is left as malloc returned it.                        *)
NewEntryStateUnset(handle, address) ==
  [handle                 |-> handle,
   address                |-> address,
   connection_state       |-> "UNSET",
   cte_service_handle     |-> FALSE,
   cte_enable_char_handle |-> FALSE]

NewEntry(handle, address) ==
  [handle                 |-> handle,
   address                |-> address,
   connection_state       |-> "DISCOVER_SERVICES",
   cte_service_handle     |-> FALSE,
   cte_enable_char_handle |-> FALSE]

(* aoa_db_add_tag: prepends, without looking for a duplicate.              *)
AddTag(db, handle, address) == <<NewEntry(handle, address)>> \o db

(* Mutant: the loop leaves the last entry it visited in *tag.              *)
GetTagByHandleOrLast(db, handle) ==
  LET i == SelectInSeq(db, LAMBDA entry : entry.handle = handle)
  IN  IF i = 0 THEN Len(db) ELSE i

(* aoa_db_get_tag_by_handle.                                               *)
GetTagByHandle(db, handle) ==
  SelectInSeq(db, LAMBDA entry : entry.handle = handle)

(* aoa_db_get_tag_by_address.                                              *)
GetTagByAddress(db, address) ==
  SelectInSeq(db, LAMBDA entry : entry.address = address)

(* Mutant: the entry stays in the list.                                    *)
RemoveTagKeepsEntry(db, handle) == db

(* Mutant: the head is unlinked whatever entry matched.                    *)
RemoveTagUnlinksHead(db, handle) ==
  IF GetTagByHandle(db, handle) = 0 THEN db ELSE Tail(db)

(* aoa_db_remove_tag: unlinks the first entry with that handle, if any.    *)
RemoveTag(db, handle) ==
  LET i == GetTagByHandle(db, handle)
  IN  IF i = 0 THEN db ELSE RemoveAt(db, i)

(* aoa_db_get_number_of_tags.                                              *)
NumberOfTags(db) == Len(db)

(* aoa_db_allowlist_add, with the status it returns: an address that is    *)
(* already there is not added again, but the first one is, since find then *)
(* returns SL_STATUS_EMPTY.                                                *)
AllowlistAdd(allowlist, address) ==
  IF Contains(allowlist, address)
  THEN [allowlist |-> allowlist, sc |-> "ALREADY_EXISTS"]
  ELSE [allowlist |-> <<address>> \o allowlist, sc |-> "OK"]

(* aoa_db_allowlist_find: an empty allowlist allows every tag.             *)
AllowlistFind(allowlist, address) ==
  CASE allowlist = <<>>              -> "EMPTY"
    [] Contains(allowlist, address)  -> "OK"
    [] OTHER                         -> "NOT_FOUND"

(* aoa_db_allowlist_get_size.                                              *)
AllowlistSize(allowlist) == Len(allowlist)

=============================================================================
