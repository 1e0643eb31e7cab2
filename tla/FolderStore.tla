----------------------------- MODULE FolderStore -----------------------------
(***************************************************************************)
(* What an encrypted folder is to its user: a map from paths to contents   *)
(* that only add and delete change, one path at a time, and that is the    *)
(* same after it was closed and opened again.                              *)
(***************************************************************************)
CONSTANTS
  Paths,
  Contents   \* the contents each path can have

VARIABLES
  session,   \* whether the folder is being made, closed or open
  content    \* what decrypting each path yields

storeVars == <<session, content>>

StoreInit == session = "none" /\ content = [p \in {} |-> 0]

Begin == session = "none" /\ session' = "encrypting" /\ UNCHANGED content

Finish == session = "encrypting" /\ session' = "closed" /\ UNCHANGED content

GiveUp ==
  /\ session = "encrypting" /\ session' = "none"
  /\ content' = [p \in {} |-> 0]

OpenStore  == session = "closed" /\ session' = "open" /\ UNCHANGED content
CloseStore == session = "open" /\ session' = "closed" /\ UNCHANGED content

\* A path gets one of its contents; no other path changes.
Store(path) ==
  /\ session \in {"encrypting", "open"}
  /\ path \notin DOMAIN content
  /\ DOMAIN content' = DOMAIN content \cup {path}
  /\ content'[path] \in Contents[path]
  /\ \A p \in DOMAIN content : content'[p] = content[p]
  /\ UNCHANGED session

\* A path is gone; no other path changes.
Delete(path) ==
  /\ session = "open"
  /\ path \in DOMAIN content
  /\ content' = [p \in DOMAIN content \ {path} |-> content[p]]
  /\ UNCHANGED session

StoreNext ==
  \/ Begin \/ Finish \/ GiveUp \/ OpenStore \/ CloseStore
  \/ \E path \in Paths : Store(path) \/ Delete(path)

StoreSpec == StoreInit /\ [][StoreNext]_storeVars
=============================================================================
