--------------------------- MODULE MCFileTransfer ---------------------------
(* Small instances of FileTransfer for TLC. *)
EXTENDS FileTransfer

An(want, via, size, parts) ==
  [want |-> want, via |-> via, size |-> size, parts |-> parts,
   opens |-> TRUE, stores |-> TRUE, wait |-> "short"]

Pulls ==
  {An("plain", "fast", n, 1) : n \in {0, 1, 3, 6, 7, 8, 9, 10, 12, 13}}
    \cup {An("protected", "slow", n, 1) : n \in {1, 6}}
    \cup {An("missing", v, 0, p) : v \in {"fast", "slow"}, p \in {1, 2}}
    \cup {An("plain", "fast", 3, 2)}

\* A file the server cannot open, and one the client cannot.
Shut ==
  {[An("plain", "fast", n, 1) EXCEPT !.opens = FALSE] : n \in {0, 1, 6, 7, 10}}
    \cup {[An("plain", "fast", n, 1) EXCEPT !.stores = FALSE] : n \in {3, 8}}
    \cup {[An("protected", "slow", 6, 1) EXCEPT !.stores = FALSE]}

Tasks == {An("answer", "request", 3, p) : p \in {1, 2}}
           \cup {An("nothing", "request", 0, 1)}
           \cup {[An("store", "request", 0, 1) EXCEPT !.wait = w] :
                    w \in {"short", "none"}}

Large == {An("protected", "slow", 7, 1)}

Everything == Pulls \cup Shut \cup Tasks \cup Large
=============================================================================
