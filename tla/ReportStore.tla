------------------------------ MODULE ReportStore ------------------------------
(***************************************************************************)
(* What dashboard/app.py promises its clients, whatever happens inside it: *)
(* a store of finished reports. The reports of an upload appear in one     *)
(* step, complete but for a PDF that may be missing or cut off, never      *)
(* change, and disappear only together with all the others, for good.      *)
(***************************************************************************)
CONSTANTS Uploads, NoFile, Partial, NoReply

VARIABLES reports,   \* the reports served, a function on the uploads that have some
          lost,      \* the uploads whose reports were served and are gone
          reply      \* the answer to the last GET

vars == <<reports, lost, reply>>

Formats == {"json", "html", "pdf"}

Nothing == [u \in {} |-> NoFile]

Init == reports = Nothing /\ lost = {} /\ reply = NoReply

Presenting(u, pdf) == [f \in Formats |-> IF f = "pdf" THEN pdf ELSE u]

Publish(u) ==
    /\ u \notin DOMAIN reports \cup lost
    /\ \E pdf \in {u, NoFile, Partial} :
           reports' = [v \in DOMAIN reports \cup {u} |->
                          IF v = u THEN Presenting(u, pdf) ELSE reports[v]]
    /\ reply' = NoReply
    /\ UNCHANGED lost

Answer(u, f, status, content) ==
    [upload |-> u, format |-> f, status |-> status, content |-> content]

(* A GET is answered with the report, or 404 if there is none.             *)
Ask(u, f) ==
    /\ reply' = IF u \in DOMAIN reports /\ f \in Formats /\ reports[u][f] # NoFile
                THEN Answer(u, f, 200, reports[u][f])
                ELSE Answer(u, f, 404, NoFile)
    /\ UNCHANGED <<reports, lost>>

Lose == /\ reports' = Nothing
        /\ lost' = lost \cup DOMAIN reports
        /\ reply' = NoReply

(* Anything else the service does.                                         *)
Work == reply' = NoReply /\ UNCHANGED <<reports, lost>>

Next == \/ \E u \in Uploads : \/ Publish(u)
                              \/ \E f \in Formats \cup {"txt"} : Ask(u, f)
        \/ Lose \/ Work

Spec == Init /\ [][Next]_vars
===============================================================================
