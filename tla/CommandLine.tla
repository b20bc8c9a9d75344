------------------------------ MODULE CommandLine ------------------------------
(***************************************************************************)
(* The command line (cli.py and the wrapper scripts/run_pipeline.py): one  *)
(* analysis, then the requested reports, one after the other, over files   *)
(* that an earlier run may have left.                                      *)
(*                                                                         *)
(* A file is "none", of an "earlier" run, of "this" run, or "partial": a   *)
(* writer that fails may leave the file as it was or cut off.              *)
(***************************************************************************)
EXTENDS AnalysisRun

VARIABLES status,      \* "analysing", "writing", "browser", or the exit
                       \* status "ok" or "error"
          requested,   \* the formats asked for
          todo,        \* those still to be written
          files,
          silent       \* the browser reported success and wrote nothing

exports == <<status, requested, todo, files, silent>>
cliVars == <<vars, exports>>

Formats == {"json", "html", "pdf"}

CliInit == /\ Init
           /\ status = "analysing"
           /\ requested = {} /\ todo = {}
           /\ \E old \in {"none", "earlier"} : files = [f \in Formats |-> old]
           /\ silent = FALSE

Analysis == Next /\ UNCHANGED exports

(* analyze raises: main ends with the exception.                           *)
AnalysisFails == /\ status = "analysing" /\ phase = "failed"
                 /\ status' = "error"
                 /\ UNCHANGED <<vars, requested, todo, files, silent>>

-----------------------------------------------------------------------------
(* Variant of WritingOrder: the reports in the order they are read.        *)
ReadingOrder == [pdf |-> 1, html |-> 2, json |-> 3]
WritingOrder == [json |-> 1, html |-> 2, pdf |-> 3]

(* The formats were given as arguments; they are first looked at here. The *)
(* output directory may be impossible to make.                             *)
StartWriting == /\ status = "analysing" /\ phase = "done"
                /\ status' \in {"writing", "error"}
                /\ requested' \in SUBSET Formats
                /\ todo' = requested'
                /\ UNCHANGED <<vars, files, silent>>

Writing(f) == /\ status = "writing" /\ f \in todo
              /\ \A g \in todo : WritingOrder[f] <= WritingOrder[g]

(* The file of a report after a writer that failed.                        *)
LeaveFile(f) == \/ UNCHANGED files
                \/ files' = [files EXCEPT ![f] = "partial"]

Written(f) == /\ status' = "writing"
              /\ todo' = todo \ {f}
              /\ UNCHANGED <<vars, requested>>

Raise == /\ status' = "error"
         /\ UNCHANGED <<vars, requested, todo>>

(* generate_json_report, generate_html_report                              *)
WriteText(f) == /\ f # "pdf" /\ Writing(f)
                /\ \/ files' = [files EXCEPT ![f] = "this"] /\ Written(f)
                   \/ LeaveFile(f) /\ Raise
                /\ UNCHANGED silent

(* generate_pdf_report: WeasyPrint writes the file, is not there or raises *)
(* OSError, in which case the browser is tried, or raises something else.  *)
WeasyPrint == /\ Writing("pdf")
              /\ \/ files' = [files EXCEPT !["pdf"] = "this"] /\ Written("pdf")
                 \/ /\ LeaveFile("pdf")
                    /\ status' = "browser"
                    /\ UNCHANGED <<vars, requested, todo>>
                 \/ LeaveFile("pdf") /\ Raise
              /\ UNCHANGED silent

(* Variant of PdfAccepted: the return code is enough.                      *)
PdfAcceptedByCode(returned) == returned = 0

(* returncode == 0 and the file exists and is not empty: whoever wrote it. *)
PdfAccepted(returned) == returned = 0 /\ files'["pdf"] # "none"

(* _browser_pdf: a browser that is not found, ends in some way or runs     *)
(* into the timeout; RuntimeError if the outcome is not accepted.          *)
Browser ==
    /\ status = "browser"
    /\ \/ UNCHANGED <<files, silent>> /\ Raise
       \/ /\ \/ files' = [files EXCEPT !["pdf"] = "this"] /\ UNCHANGED silent
             \/ LeaveFile("pdf") /\ silent' = TRUE
          /\ \E returned \in {0, 1} :
                 IF PdfAccepted(returned) THEN Written("pdf") ELSE Raise

Exit == /\ status = "writing" /\ todo = {}
        /\ status' = "ok"
        /\ UNCHANGED <<vars, requested, todo, files, silent>>

CliNext == \/ Analysis \/ AnalysisFails \/ StartWriting
           \/ \E f \in Formats : WriteText(f)
           \/ WeasyPrint \/ Browser \/ Exit

CliSpec == CliInit /\ [][CliNext]_cliVars

-----------------------------------------------------------------------------
(* A run that ends well has written what was asked for, every file from    *)
(* this analysis (main, the exporters); only a browser that reports        *)
(* success and prints nothing can pass off a PDF that was there before.    *)
OkMeansWritten ==
    status = "ok" =>
        \A f \in requested :
            \/ files[f] = "this"
            \/ f = "pdf" /\ silent /\ files[f] # "none"

(* A run that ends in an error has replaced the reports it came to, JSON   *)
(* before HTML before PDF, and spoiled at most the next; nothing is        *)
(* touched that was not asked for, nor anything when the analysis fails.   *)
Untouched(f) == files[f] \in {"none", "earlier"}
Before == {<<"json", "html">>, <<"json", "pdf">>, <<"html", "pdf">>}

ErrorLeavesPrefix ==
    status = "error" =>
        /\ \A f \in Formats : f \notin requested \/ phase = "failed" => Untouched(f)
        /\ \A f, g \in requested :
               <<f, g>> \in Before /\ ~Untouched(g) => files[f] = "this"
===============================================================================
