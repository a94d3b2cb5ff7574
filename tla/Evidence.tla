------------------------------ MODULE Evidence ------------------------------
(***************************************************************************)
(* What the marketplace promises of the documents attached to its records: *)
(* a document is proof of one thing.  Its uploader gives it to one record  *)
(* of its kind, together with everything else the record needs; after      *)
(* that it only follows a request that is sent again.  A White Book stays  *)
(* with its vehicle and may be given again.  A delivery is quoted once and *)
(* a policy certified once.                                                *)
(***************************************************************************)
CONSTANTS
  Calls,               \* the records, each named by the call that makes it
  Proper(_, _, _),     \* Proper(a, d, k): ask a may use d as its document k
  None

VARIABLES
  ask,        \* ask[c]: what call c asks for
  committed,  \* the records that exist
  kept        \* kept[c]: the photos and the White Book of the request c made

vars == <<ask, committed, kept>>

keeps(c, what) == kept' = [kept EXCEPT ![c] = what]

Init ==
  /\ committed = {}
  /\ kept = [c \in Calls |-> [documents |-> {}, whiteBook |-> None]]

records(kinds) == {c \in committed : ask[c].kind \in kinds}

(* The documents a record keeps for itself.                                *)
proof(c) == ask[c].documents

fresh(c) == \A b \in records({"request", "claim", "quote", "certificate"}) :
              proof(c) \cap proof(b) = {}

(* Nothing else of its kind was done with the parent.                      *)
firstOf(c) == \A b \in records({ask[c].kind}) : ask[b].parent # ask[c].parent

Attach(c) ==
  /\ ask[c].kind \in {"request", "claim", "quote", "certificate"}
  /\ \A d \in proof(c) : Proper(ask[c], d, ask[c].kind)
  /\ ask[c].whiteBook # None => Proper(ask[c], ask[c].whiteBook, "whiteBook")
  /\ fresh(c)
  /\ ask[c].kind \in {"quote", "certificate"} => firstOf(c)
  /\ \/ /\ ask[c].kind = "request"
        /\ keeps(c, [documents |-> proof(c), whiteBook |-> ask[c].whiteBook])
     \/ ask[c].kind # "request" /\ UNCHANGED kept

Carry(c) ==
  /\ ask[c].kind = "requote"
  /\ ask[c].parent \in records({"request", "requote"})
  /\ firstOf(c)
  /\ keeps(c, kept[ask[c].parent])

Next == \E c \in Calls \ committed :
          /\ Attach(c) \/ Carry(c)
          /\ committed' = committed \cup {c}
          /\ UNCHANGED ask

Spec == Init /\ [][Next]_vars

=============================================================================
