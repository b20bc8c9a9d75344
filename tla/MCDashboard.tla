------------------------------ MODULE MCDashboard ------------------------------
(***************************************************************************)
(* Two users of one capture, a path that names nothing or a bare estimator *)
(* of an older release, and a trainer with data sets of two schemas: one   *)
(* that can be validated, one that cannot, one that is refused and two     *)
(* that raise.                                                             *)
(***************************************************************************)
EXTENDS Dashboard

CONSTANTS u1, u2

MCUsers == {u1, u2}
MCKeys == {"capture"}

Data(name, columns) == [name |-> name, columns |-> columns, refused |-> FALSE,
                        holdout |-> TRUE, fails |-> "no"]
Lab   == Data("lab", {"smtp"})
Small == [Data("small", {"smtp", "imap"}) EXCEPT !.holdout = FALSE]
Unlabelled == [Data("unlabelled", {"smtp", "imap"}) EXCEPT !.fails = "split"]
Huge  == [Data("huge", {"smtp", "imap"}) EXCEPT !.fails = "fit"]
Empty == [Data("empty", {"smtp"}) EXCEPT !.refused = TRUE]

MCDataSets == {Lab, Small, Unlabelled, Huge, Empty}
Old == Data("old", {"pop3"})
MCOldFiles == {NoFile, Bare(Old, TRUE), Bare(Old, FALSE)}
===============================================================================
