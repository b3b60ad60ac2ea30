----------------------------- MODULE FieldStore -----------------------------
(***************************************************************************)
(* What a store of named fields promises, with no word about bytes,        *)
(* checksums or sectors.  A request is a list of fields to put and their   *)
(* texts.  Each put changes what its field shows, to exactly the text put, *)
(* and no other field.  A put that succeeds makes all that is shown        *)
(* durable.  A put that fails or is cut off by a power loss promises       *)
(* nothing of what is durable, until a later put succeeds.  A restart      *)
(* shows what is durable, and loses nothing when the last put succeeded.   *)
(***************************************************************************)
EXTENDS Naturals, Sequences

CONSTANTS Fields, Texts

VARIABLES
  todo,      \* what is still to put of the request being served
  shown,     \* the text each field reads as now
  durable,   \* the text each field would read as after a restart
  clean      \* the last put succeeded

storeVars == <<todo, shown, durable, clean>>

Views == [Fields -> Texts]
Puts == [field : Fields, text : Texts]

StoreInit ==
  /\ todo = << >>
  /\ shown \in Views
  /\ durable = shown
  /\ clean = TRUE

Request ==
  /\ todo = << >>
  /\ todo' \in Seq(Puts)
  /\ UNCHANGED <<shown, durable, clean>>

Put ==
  /\ todo # << >>
  /\ todo' = Tail(todo)
  /\ shown' = [shown EXCEPT ![Head(todo).field] = Head(todo).text]
  /\ \/ durable' = shown' /\ clean' = TRUE
     \/ durable' \in Views /\ clean' = FALSE

Restart ==
  /\ todo' = << >>
  /\ durable' = durable
  /\ shown' = durable
  /\ clean' = TRUE

CutOff ==
  /\ todo # << >>
  /\ todo' = << >>
  /\ durable' \in Views
  /\ shown' = durable'
  /\ clean' = TRUE

StoreNext == Request \/ Put \/ Restart \/ CutOff

StoreSpec == StoreInit /\ [][StoreNext]_storeVars
=============================================================================
