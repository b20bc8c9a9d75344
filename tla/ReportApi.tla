------------------------------- MODULE ReportApi -------------------------------
(***************************************************************************)
(* dashboard/app.py: the FastAPI service that analyses uploaded captures   *)
(* and serves the reports.                                                 *)
(*                                                                         *)
(* The handlers are coroutines on one event loop: they interleave only     *)
(* where they await, which is while an upload is read.  From there to its  *)
(* answer analyze_pcap holds the loop, for as long as the analysis takes;  *)
(* the process may die between any two of its steps.  _STORE lives in      *)
(* memory, the working directories on disk.                                *)
(***************************************************************************)
EXTENDS Integers

CONSTANTS Uploads,           \* the requests POST /analyze
          NoUpload,
          NoFile, Partial,   \* a file that is missing, or was cut off
          NoReply,
          MaxCrashes        \* bound on the crashes of the process

ASSUME ApiAssumption == /\ MaxCrashes \in Nat
                        /\ {NoUpload, NoFile, Partial} \cap Uploads = {}

Formats == {"json", "html", "pdf"}

VARIABLES up,         \* the process runs
          crashes,
          stage,      \* where the handler of each upload stands
          answer,     \* the status its client got, 0 before it got one
          running,    \* the upload whose handler holds the event loop
          capture,    \* the capture stored in each working directory
          sessions,   \* of each upload, the capture its sessions come from
          files,      \* in each working directory, what each report presents
          store,      \* the uploads whose report ids are in _STORE
          lost,       \* those that were in it when the process died
          reply       \* the answer to the last GET

vars == <<up, crashes, stage, answer, running, capture, sessions, files, store,
          lost, reply>>

Init == /\ up = TRUE /\ crashes = 0
        /\ stage = [u \in Uploads |-> "new"]
        /\ answer = [u \in Uploads |-> 0]
        /\ running = NoUpload
        /\ capture = [u \in Uploads |-> NoUpload]
        /\ sessions = [u \in Uploads |-> NoUpload]
        /\ files = [u \in Uploads |-> [f \in Formats |-> NoFile]]
        /\ store = {} /\ lost = {}
        /\ reply = NoReply

-----------------------------------------------------------------------------
LoopFree == up /\ running = NoUpload
Holds(u, s) == up /\ running = u /\ stage[u] = s

GoTo(u, s) == stage' = [stage EXCEPT ![u] = s]

Finish(u, status) == /\ GoTo(u, "answered")
                     /\ answer' = [answer EXCEPT ![u] = status]
                     /\ running' = NoUpload

(* Variant of WorkdirOf: all uploads share one directory.                  *)
SharedWorkdir(u) == CHOOSE v \in Uploads : TRUE

(* The directory of the fresh id that an upload gets, named by the upload. *)
WorkdirOf(u) == u

(* The file name has no capture suffix: HTTPException(400).                *)
RejectSuffix(u) ==
    /\ LoopFree /\ stage[u] = "new"
    /\ Finish(u, 400)
    /\ reply' = NoReply
    /\ UNCHANGED <<up, crashes, capture, sessions, files, store, lost>>

(* The id and its working directory, then await file.read().               *)
Receive(u) ==
    /\ LoopFree /\ stage[u] = "new"
    /\ GoTo(u, "reading")
    /\ reply' = NoReply
    /\ UNCHANGED <<up, crashes, answer, running, capture, sessions, files, store,
                   lost>>

(* The upload is read: the handler resumes and keeps the loop.             *)
WriteCapture(u) ==
    /\ LoopFree /\ stage[u] = "reading"
    /\ GoTo(u, "analysing")
    /\ running' = u
    /\ capture' = [capture EXCEPT ![WorkdirOf(u)] = u]
    /\ reply' = NoReply
    /\ UNCHANGED <<up, crashes, answer, sessions, files, store, lost>>

(* read or write_bytes raises outside of the try: a bare 500.              *)
ReadFails(u) ==
    /\ LoopFree /\ stage[u] = "reading"
    /\ Finish(u, 500)
    /\ reply' = NoReply
    /\ UNCHANGED <<up, crashes, capture, sessions, files, store, lost>>

(* Variant of Analyse: the result is stored before it is exported.         *)
AnalyseAndStore(u) ==
    /\ Holds(u, "analysing")
    /\ GoTo(u, "json")
    /\ sessions' = [sessions EXCEPT ![u] = capture[WorkdirOf(u)]]
    /\ store' = store \cup {u}
    /\ reply' = NoReply
    /\ UNCHANGED <<up, crashes, answer, running, capture, files, lost>>

(* sessions = analyze(pcap_path) *)
Analyse(u) ==
    /\ Holds(u, "analysing")
    /\ GoTo(u, "json")
    /\ sessions' = [sessions EXCEPT ![u] = capture[WorkdirOf(u)]]
    /\ reply' = NoReply
    /\ UNCHANGED <<up, crashes, answer, running, capture, files, store, lost>>

Write(u, f, content) == files' = [files EXCEPT ![WorkdirOf(u)][f] = content]

WriteJson(u) ==
    /\ Holds(u, "json")
    /\ GoTo(u, "html")
    /\ Write(u, "json", sessions[u])
    /\ reply' = NoReply
    /\ UNCHANGED <<up, crashes, answer, running, capture, sessions, store, lost>>

WriteHtml(u) ==
    /\ Holds(u, "html")
    /\ GoTo(u, "pdf")
    /\ Write(u, "html", sessions[u])
    /\ reply' = NoReply
    /\ UNCHANGED <<up, crashes, answer, running, capture, sessions, store, lost>>

(* The PDF is written, or RuntimeError is swallowed: no renderer, or one   *)
(* that failed and may have left a part of the file.                       *)
WritePdf(u) ==
    /\ Holds(u, "pdf")
    /\ GoTo(u, "storing")
    /\ \E content \in {sessions[u], NoFile, Partial} : Write(u, "pdf", content)
    /\ reply' = NoReply
    /\ UNCHANGED <<up, crashes, answer, running, capture, sessions, store, lost>>

(* Variant of Fail: a failed upload is analysed again.                     *)
FailAndRetry(u) ==
    /\ Holds(u, "analysing")
    /\ GoTo(u, "reading")
    /\ running' = NoUpload
    /\ reply' = NoReply
    /\ UNCHANGED <<up, crashes, answer, capture, sessions, files, store, lost>>

(* The analysis or an export raises (the PDF export anything else than     *)
(* RuntimeError, such as the timeout of the browser): 422.  The working    *)
(* directory stays as it is.                                               *)
Fail(u) ==
    /\ \E s \in {"analysing", "json", "html", "pdf"} :
           /\ Holds(u, s)
           /\ \/ UNCHANGED files
              \/ s # "analysing" /\ Write(u, s, Partial)
    /\ Finish(u, 422)
    /\ reply' = NoReply
    /\ UNCHANGED <<up, crashes, capture, sessions, store, lost>>

(* Variant of Store: the store keeps the last report only.                 *)
StoreLast(u) ==
    /\ Holds(u, "storing")
    /\ store' = {u}
    /\ Finish(u, 200)
    /\ reply' = NoReply
    /\ UNCHANGED <<up, crashes, capture, sessions, files, lost>>

(* _STORE[report_id] = ..., and the answer. *)
Store(u) ==
    /\ Holds(u, "storing")
    /\ store' = store \cup {u}
    /\ Finish(u, 200)
    /\ reply' = NoReply
    /\ UNCHANGED <<up, crashes, capture, sessions, files, lost>>

-----------------------------------------------------------------------------
Reply(u, f, status, content) ==
    [upload |-> u, format |-> f, status |-> status, content |-> content]

(* get_sessions: the JSON report as data; without the file it raises.      *)
GetSessions(u) ==
    /\ LoopFree
    /\ reply' = IF u \notin store THEN Reply(u, "json", 404, NoFile)
                ELSE LET content == files[WorkdirOf(u)]["json"]
                     IN  Reply(u, "json",
                               IF content \in {NoFile, Partial} THEN 500 ELSE 200,
                               content)
    /\ UNCHANGED <<up, crashes, stage, answer, running, capture, sessions, files,
                   store, lost>>

(* get_report: the file as it is, if there is one.                         *)
GetReport(u, f) ==
    /\ LoopFree
    /\ reply' = IF u \in store /\ f \in Formats /\ files[WorkdirOf(u)][f] # NoFile
                THEN Reply(u, f, 200, files[WorkdirOf(u)][f])
                ELSE Reply(u, f, 404, NoFile)
    /\ UNCHANGED <<up, crashes, stage, answer, running, capture, sessions, files,
                   store, lost>>

(* The process dies, possibly in the middle of an analysis: the requests   *)
(* it was serving are never answered and _STORE is gone.                   *)
Crash ==
    /\ up /\ crashes < MaxCrashes
    /\ up' = FALSE
    /\ crashes' = crashes + 1
    /\ stage' = [u \in Uploads |-> IF stage[u] \in {"new", "answered"}
                                   THEN stage[u] ELSE "interrupted"]
    /\ running' = NoUpload
    /\ store' = {}
    /\ lost' = lost \cup store
    /\ reply' = NoReply
    /\ UNCHANGED <<answer, capture, sessions, files>>

(* Variant of Restart: _STORE is filled again from the working directories *)
(* on disk.                                                                *)
RestartFromDisk ==
    /\ ~up
    /\ up' = TRUE
    /\ store' = {u \in Uploads : files[WorkdirOf(u)]["json"] # NoFile}
    /\ reply' = NoReply
    /\ UNCHANGED <<crashes, stage, answer, running, capture, sessions, files, lost>>

Restart ==
    /\ ~up
    /\ up' = TRUE
    /\ reply' = NoReply
    /\ UNCHANGED <<crashes, stage, answer, running, capture, sessions, files,
                   store, lost>>

Handle(u) == \/ WriteCapture(u) \/ ReadFails(u) \/ Analyse(u) \/ WriteJson(u)
             \/ WriteHtml(u) \/ WritePdf(u) \/ Fail(u) \/ Store(u)

Next == \/ \E u \in Uploads : \/ RejectSuffix(u) \/ Receive(u) \/ Handle(u)
                              \/ GetSessions(u)
                              \/ \E f \in Formats \cup {"txt"} : GetReport(u, f)
        \/ Crash \/ Restart

(* The loop resumes every handler that can go on; this takes for granted   *)
(* that the tshark calls return, which have no timeout.                    *)
Fairness == \A u \in Uploads : WF_vars(Handle(u))

Spec == Init /\ [][Next]_vars /\ Fairness

-----------------------------------------------------------------------------
Stages == {"new", "reading", "analysing", "json", "html", "pdf", "storing",
           "answered", "interrupted"}
Replies == [upload : Uploads, format : Formats \cup {"txt"}, status : {200, 404, 500},
            content : Uploads \cup {NoFile, Partial}]

TypeOK == /\ up \in BOOLEAN /\ crashes \in 0..MaxCrashes
          /\ stage \in [Uploads -> Stages]
          /\ answer \in [Uploads -> {0, 200, 400, 422, 500}]
          /\ running \in Uploads \cup {NoUpload}
          /\ capture \in [Uploads -> Uploads \cup {NoUpload}]
          /\ sessions \in [Uploads -> Uploads \cup {NoUpload}]
          /\ files \in [Uploads -> [Formats -> Uploads \cup {NoFile, Partial}]]
          /\ store \subseteq Uploads /\ lost \subseteq Uploads
          /\ reply \in Replies \cup {NoReply}
          /\ running # NoUpload => up /\ stage[running] \notin {"new", "answered"}

(* Whatever is served presents the capture that was uploaded for its id,   *)
(* however the uploads overlapped (the working directory of analyze_pcap,  *)
(* read by both GET handlers); only a PDF may be cut off, which is all     *)
(* that get_report can promise when a renderer dies half way.              *)
OwnReport ==
    reply # NoReply /\ reply.status = 200 =>
        \/ reply.content = reply.upload
        \/ reply.format = "pdf" /\ reply.content = Partial

(* An upload whose analysis failed, was refused or was cut off by a crash  *)
(* is never served, not even the reports it had already written.           *)
OnlyCompletedServed ==
    reply # NoReply /\ reply.status = 200 => answer[reply.upload] = 200

(* A completed report is not found only if the process has died since; a   *)
(* PDF also if it could not be made.  No GET of a known id raises.         *)
FoundUntilCrash ==
    reply # NoReply /\ answer[reply.upload] = 200 =>
        /\ reply.status # 500
        /\ reply.format \in {"json", "html"} /\ reply.status = 404
           => reply.upload \in lost

(* What a handler may rely on when it resumes: it is alone on the loop,    *)
(* its capture is the one it was sent, and what it has written so far is   *)
(* of that capture.                                                        *)
Busy == {"analysing", "json", "html", "pdf", "storing"}

HandlerInv ==
    \A u \in Uploads :
        /\ stage[u] \in Busy <=> running = u
        /\ stage[u] \in Busy => up /\ capture[u] = u
        /\ stage[u] \in Busy \ {"analysing"} => sessions[u] = u
        /\ stage[u] \in {"html", "pdf", "storing"} => files[u]["json"] = u
        /\ stage[u] \in {"pdf", "storing"} => files[u]["html"] = u
        /\ \A f \in Formats : files[u][f] \in {u, NoFile, Partial}

(* What the store and the answers given say of each other and of the files. *)
StoreInv ==
    \A u \in Uploads :
        /\ answer[u] # 0 => stage[u] = "answered"
        /\ answer[u] = 200 <=> u \in store \cup lost
        /\ answer[u] = 200 => files[u]["json"] = u /\ files[u]["html"] = u

(* The inductive invariant from which what is promised of the replies      *)
(* follows: the handlers and the store keep each other sound at every      *)
(* await and through every failure and crash.                              *)
IInv == /\ TypeOK /\ HandlerInv /\ StoreInv
        /\ OwnReport /\ OnlyCompletedServed /\ FoundUntilCrash

(* To its clients the service is a store of finished reports, although it  *)
(* assembles each in several steps, in files that outlive the process,     *)
(* among other uploads: reports appear whole, at once, never change and    *)
(* never come back once they are lost (analyze_pcap, _STORE and the GET    *)
(* handlers).                                                              *)
Published == [u \in store |-> files[WorkdirOf(u)]]
Abstract == INSTANCE ReportStore WITH reports <- Published
ImplementsStore == Abstract!Spec

(* Every upload that was received is answered, unless the process died.    *)
EveryUploadAnswered ==
    \A u \in Uploads : stage[u] = "reading" ~> stage[u] \in {"answered", "interrupted"}
===============================================================================
