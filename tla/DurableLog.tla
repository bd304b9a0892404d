----------------------------- MODULE DurableLog -----------------------------
(***************************************************************************)
(* What the event store promises about its database: the rows in it are a  *)
(* prefix of the rows accepted, in the order in which they were accepted.  *)
(* The prefix grows by whole transactions of bounded size and never        *)
(* reaches past the mark that ends the log; once the log is sealed, by a   *)
(* failure or by close(), it does not grow at all.                         *)
(***************************************************************************)
EXTENDS Naturals, Sequences

CONSTANTS Opened,   \* the record of its own opening that a log begins with
          End,      \* the mark that ends the log
          Batch     \* the largest number of rows of a transaction

VARIABLES log,      \* everything accepted, in order
          rows,     \* what is in the database
          sealed    \* whether the database has got its last row

Init == log = <<Opened>> /\ rows = <<>> /\ sealed = FALSE

\* One record more: a sealed log may still accept, it only stores no more.
Accept ==
    /\ log' # <<>> /\ log' = Append(log, log'[Len(log')])
    /\ UNCHANGED <<rows, sealed>>

\* One transaction: the next n records, none of them the end mark.
Commit ==
    /\ ~sealed
    /\ \E n \in 1..Batch :
          /\ Len(rows) + n <= Len(log)
          /\ rows' = SubSeq(log, 1, Len(rows) + n)
    /\ \A i \in 1..Len(rows') : rows'[i] # End
    /\ UNCHANGED <<log, sealed>>

Seal == ~sealed /\ sealed' = TRUE /\ UNCHANGED <<log, rows>>

Next == Accept \/ Commit \/ Seal

Spec == Init /\ [][Next]_<<log, rows, sealed>>

\* What a reader of the database may rely on.
RowsArePrefix ==
    /\ Len(rows) <= Len(log)
    /\ \A i \in 1..Len(rows) : rows[i] = log[i] /\ rows[i] # End
=============================================================================
